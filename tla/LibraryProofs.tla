---------------------------- MODULE LibraryProofs ----------------------------
(***************************************************************************)
(* The small components, for all values of their constants: what Logger,   *)
(* RetryLoop, DriveRegistry and MerkleTree promise.                        *)
(***************************************************************************)
EXTENDS Logger, RetryLoop, DriveRegistry, MerkleTree, FiniteSetTheorems, Induction

-----------------------------------------------------------------------------
(* Logger.  A file is renamed over another one only in the second in which *)
(* that one was renamed; then all the messages in it are of that second,   *)
(* and there is one more to come.                                          *)

LoggerTypes ==
  /\ now \in Seconds /\ loggedAt \in Seq(Seconds)
  /\ rotated \in [Seconds -> SUBSET Nat]
  /\ reopened \in BOOLEAN

\* Messages in the files have been taken.
KeptWereLogged ==
  /\ current \subseteq DOMAIN loggedAt
  /\ \A s \in Seconds : rotated[s] \subseteq DOMAIN loggedAt

\* No file has the name of a second to come.  What follows a rotation within
\* its second was logged in that second.
RotationsAreOld ==
  /\ \A s \in Seconds : s > now => rotated[s] = {}
  /\ rotated[now] # {} => current \subseteq InSecond(now)

LoggerInv ==
  /\ LoggerTypes /\ KeptWereLogged /\ RotationsAreOld
  /\ reopened => logFile = "open"
  /\ LogIsComplete

\* Taking a message.

\* The log of times, one longer.
LEMMA LongerLog ==
  ASSUME LoggerTypes, loggedAt' = Append(loggedAt, now)
  PROVE  /\ loggedAt' \in Seq(Seconds)
         /\ Number \in Nat
         /\ DOMAIN loggedAt' = DOMAIN loggedAt \cup {Number}
         /\ Number \notin DOMAIN loggedAt
         /\ \A s \in Seconds : InSecond(s) \subseteq InSecond(s)'
         /\ \A s \in Seconds : s = now => Number \in InSecond(s)'
<1> USE DEF LoggerTypes
<1>1. Len(loggedAt) \in Nat /\ DOMAIN loggedAt = 1 .. Len(loggedAt)
  OBVIOUS
<1>2. /\ loggedAt' \in Seq(Seconds)
      /\ DOMAIN loggedAt' = 1 .. Len(loggedAt) + 1
      /\ \A n \in 1 .. Len(loggedAt) : loggedAt'[n] = loggedAt[n]
      /\ loggedAt'[Len(loggedAt) + 1] = now
  OBVIOUS
<1> HIDE DEF LoggerTypes
<1>3. Number \in Nat /\ Number \notin DOMAIN loggedAt
  BY <1>1 DEF Number
<1>4. DOMAIN loggedAt' = DOMAIN loggedAt \cup {Number}
  BY <1>1, <1>2 DEF Number
<1>5. \A s \in Seconds : InSecond(s) \subseteq InSecond(s)'
  BY <1>1, <1>2 DEF InSecond
<1>6. \A s \in Seconds : s = now => Number \in InSecond(s)'
  BY <1>2, <1>4 DEF InSecond, Number
<1> QED
  BY <1>2, <1>3, <1>4, <1>5, <1>6

LEMMA SecondsAreFinite ==
  ASSUME NEW log \in Seq(Seconds), NEW s
  PROVE  IsFiniteSet({n \in DOMAIN log : log[n] = s})
<1>1. Len(log) \in Nat /\ DOMAIN log = 1 .. Len(log)
  OBVIOUS
<1>2. IsFiniteSet(1 .. Len(log))
  BY <1>1, FS_Interval
<1>3. {n \in DOMAIN log : log[n] = s} \in SUBSET (1 .. Len(log))
  BY <1>1
<1> QED
  BY <1>2, <1>3, FS_Subset

\* A second that is not too busy was not too busy before.
LEMMA BusyStaysBusy ==
  ASSUME LoggerTypes, LoggerTypes', NoBusySecond',
         \A s \in Seconds : InSecond(s) \subseteq InSecond(s)'
  PROVE  NoBusySecond
<1> SUFFICES ASSUME NEW s \in Seconds PROVE Cardinality(InSecond(s)) <= RotationSize
  BY DEF NoBusySecond
<1>1. IsFiniteSet(InSecond(s)) /\ IsFiniteSet(InSecond(s)')
  BY SecondsAreFinite DEF InSecond, LoggerTypes
<1>2. InSecond(s) \in SUBSET InSecond(s)'
  OBVIOUS
<1>3. Cardinality(InSecond(s)) <= Cardinality(InSecond(s)')
  BY <1>1, <1>2, FS_Subset
<1>4. Cardinality(InSecond(s)) \in Nat /\ Cardinality(InSecond(s)') \in Nat
  BY <1>1, FS_CardinalityType
<1>5. Cardinality(InSecond(s)') <= RotationSize
  BY DEF NoBusySecond
<1> QED
  BY <1>3, <1>4, <1>5, LoggerAssumption

\* When a file is renamed over another one, its messages and the one to come
\* are too many for their second.
LEMMA OverwritingIsBusy ==
  ASSUME LoggerInv, LoggerTypes', loggedAt' = Append(loggedAt, now),
         Cardinality(current) >= RotationSize, rotated[now] # {}
  PROVE  ~NoBusySecond'
<1>1. now \in Seconds /\ LoggerTypes
  BY DEF LoggerInv, LoggerTypes
<1>2. current \subseteq InSecond(now) /\ Number \notin current
  BY <1>1, LongerLog DEF LoggerInv, RotationsAreOld, KeptWereLogged
<1>3. PICK s \in Seconds : s = now
  BY <1>1
<1>4. current \cup {Number} \in SUBSET InSecond(s)'
  BY <1>1, <1>2, <1>3, LongerLog
<1>5. IsFiniteSet(InSecond(s)') /\ IsFiniteSet(InSecond(s))
  BY <1>1, SecondsAreFinite DEF InSecond, LoggerTypes
<1>6. IsFiniteSet(current)
  BY <1>2, <1>3, <1>5, FS_Subset
<1>7. Cardinality(current \cup {Number}) = Cardinality(current) + 1
  BY <1>2, <1>6, FS_AddElement
<1>8. Cardinality(current \cup {Number}) <= Cardinality(InSecond(s)')
  BY <1>4, <1>5, FS_Subset
<1>9. Cardinality(current) \in Nat /\ Cardinality(InSecond(s)') \in Nat
  BY <1>5, <1>6, FS_CardinalityType
<1>10. ~(Cardinality(InSecond(s)') <= RotationSize)
  BY <1>7, <1>8, <1>9, LoggerAssumption
<1> QED
  BY <1>10 DEF NoBusySecond

LEMMA LoggerInitOK == LoggerInit => LoggerInv
<1> SUFFICES ASSUME LoggerInit PROVE LoggerInv
  OBVIOUS
<1> USE DEF LoggerInit
<1>1. LoggerTypes
  BY DEF LoggerTypes
<1>2. KeptWereLogged /\ RotationsAreOld
  BY DEF KeptWereLogged, RotationsAreOld
<1>3. DOMAIN loggedAt = {}
  OBVIOUS
<1>4. LogIsComplete
  BY <1>3 DEF LogIsComplete
<1> QED
  BY <1>1, <1>2, <1>4 DEF LoggerInv

\* A message goes to the file that is there.
LEMMA PutOK ==
  ASSUME LoggerInv, Put(current), rotated' = rotated, now' = now, reopened' = reopened,
         logFile' = "open" \/ logFile' = logFile
  PROVE  LoggerInv'
<1>1. LoggerTypes /\ loggedAt' = Append(loggedAt, now)
  BY DEF LoggerInv, Put
<1>2. /\ loggedAt' \in Seq(Seconds) /\ Number \in Nat
      /\ DOMAIN loggedAt' = DOMAIN loggedAt \cup {Number}
      /\ \A s \in Seconds : InSecond(s) \subseteq InSecond(s)'
      /\ \A s \in Seconds : s = now => Number \in InSecond(s)'
  BY <1>1, LongerLog
<1>3. current \subseteq current' /\ current' \subseteq current \cup {Number}
  BY DEF Put
<1>4. LoggerTypes'
  BY <1>1, <1>2 DEF LoggerTypes
<1>5. KeptWereLogged'
  BY <1>2, <1>3 DEF LoggerInv, KeptWereLogged
<1>6. RotationsAreOld'
  <2>1. PICK s \in Seconds : s = now
    BY <1>1 DEF LoggerTypes
  <2>2. rotated[s] # {} => current \subseteq InSecond(s)
    BY <2>1 DEF LoggerInv, RotationsAreOld
  <2>3. rotated[s] # {} => current' \subseteq InSecond(s)'
    BY <1>2, <1>3, <2>1, <2>2
  <2>4. now' = s /\ InSecond(now)' = InSecond(s)'
    BY <2>1 DEF InSecond
  <2> QED
    BY <2>1, <2>3, <2>4 DEF LoggerInv, RotationsAreOld
<1>7. reopened' => logFile' = "open"
  BY DEF LoggerInv
<1>8. LogIsComplete'
  <2> SUFFICES ASSUME reopened', NoBusySecond' PROVE DOMAIN loggedAt' \subseteq Kept'
    BY DEF LogIsComplete
  <2>1. NoBusySecond
    BY <1>1, <1>2, <1>4, BusyStaysBusy
  <2>2. DOMAIN loggedAt \subseteq Kept
    BY <2>1 DEF LoggerInv, LogIsComplete
  <2>3. current' = current \cup {Number}
    BY <1>7 DEF Put
  <2> QED
    BY <1>2, <2>2, <2>3 DEF Kept
<1> QED
  BY <1>4, <1>5, <1>6, <1>7, <1>8 DEF LoggerInv

\* A message goes to a new file, and the old one has got its name.
LEMMA RotateOK ==
  ASSUME LoggerInv, Rotates(TRUE), Rename(TRUE), Put({}), now' = now, reopened' = reopened,
         logFile' = "open"
  PROVE  LoggerInv'
<1>1. LoggerTypes /\ loggedAt' = Append(loggedAt, now)
  BY DEF LoggerInv, Put
<1>2. /\ loggedAt' \in Seq(Seconds) /\ Number \in Nat
      /\ DOMAIN loggedAt' = DOMAIN loggedAt \cup {Number}
      /\ \A s \in Seconds : InSecond(s) \subseteq InSecond(s)'
      /\ \A s \in Seconds : s = now => Number \in InSecond(s)'
  BY <1>1, LongerLog
<1>3. current' = {Number}
  BY DEF Put
<1>4. PICK s \in Seconds : s = now
  BY <1>1 DEF LoggerTypes
<1>5. /\ rotated'[s] = current
      /\ \A t \in Seconds \ {s} : rotated'[t] = rotated[t]
      /\ rotated' \in [Seconds -> SUBSET Nat]
  <2>1. rotated' = [rotated EXCEPT ![s] = current]
    BY <1>4 DEF Rename
  <2>2. current \in SUBSET Nat
    BY <1>1 DEF LoggerInv, KeptWereLogged, LoggerTypes
  <2> QED
    BY <1>1, <2>1, <2>2 DEF LoggerTypes
<1>6. LoggerTypes'
  BY <1>1, <1>2, <1>5 DEF LoggerTypes
<1>7. KeptWereLogged'
  BY <1>2, <1>3, <1>5 DEF LoggerInv, KeptWereLogged
<1>8. RotationsAreOld'
  <2>1. \A t \in Seconds : t > now' => rotated'[t] = {}
    <3> SUFFICES ASSUME NEW t \in Seconds, t > now PROVE rotated'[t] = {}
      OBVIOUS
    <3>1. t # s
      BY <1>4, LoggerAssumption
    <3> QED
      BY <1>5, <3>1 DEF LoggerInv, RotationsAreOld
  <2>2. now' = s /\ InSecond(now)' = InSecond(s)'
    BY <1>4 DEF InSecond
  <2> QED
    BY <1>2, <1>3, <1>4, <2>1, <2>2 DEF RotationsAreOld
<1>9. LogIsComplete'
  <2> SUFFICES ASSUME reopened', NoBusySecond' PROVE DOMAIN loggedAt' \subseteq Kept'
    BY DEF LogIsComplete
  <2>1. DOMAIN loggedAt \subseteq Kept
    <3>1. NoBusySecond
      BY <1>1, <1>2, <1>6, BusyStaysBusy
    <3> QED
      BY <3>1 DEF LoggerInv, LogIsComplete
  <2>2. rotated[s] = {}
    BY <1>1, <1>4, <1>6, OverwritingIsBusy DEF Rotates
  <2> QED
    BY <1>2, <1>3, <1>5, <2>1, <2>2 DEF Kept
<1> QED
  BY <1>6, <1>7, <1>8, <1>9 DEF LoggerInv

\* The new file could not be opened: the message is the caller's again.
LEMMA ThrowOK ==
  ASSUME LoggerInv, NEW renamed \in BOOLEAN, Rename(renamed), now' = now, loggedAt' = loggedAt,
         current' = (IF renamed THEN {} ELSE current), reopened' = FALSE
  PROVE  LoggerInv'
<1>1. LoggerTypes
  BY DEF LoggerInv
<1>2. PICK s \in Seconds : s = now
  BY <1>1 DEF LoggerTypes
<1>3. /\ rotated' \in [Seconds -> SUBSET Nat]
      /\ \A t \in Seconds : rotated'[t] = rotated[t] \/ (renamed /\ t = s /\ rotated'[t] = current)
  <2>1. rotated' = IF renamed THEN [rotated EXCEPT ![s] = current] ELSE rotated
    BY <1>2 DEF Rename
  <2>2. current \in SUBSET Nat
    BY <1>1 DEF LoggerInv, KeptWereLogged, LoggerTypes
  <2> QED
    BY <1>1, <2>1, <2>2 DEF LoggerTypes
<1>4. LoggerTypes'
  BY <1>1, <1>3 DEF LoggerTypes
<1>5. KeptWereLogged'
  BY <1>3 DEF LoggerInv, KeptWereLogged
<1>6. RotationsAreOld'
  <2>1. \A t \in Seconds : t > now => t # s
    BY <1>2, LoggerAssumption
  <2>2. \A t \in Seconds : t > now' => rotated'[t] = {}
    BY <1>3, <2>1 DEF LoggerInv, RotationsAreOld
  <2>3. rotated'[now] # {} => current' \subseteq InSecond(now)
    BY <1>2, <1>3 DEF LoggerInv, RotationsAreOld
  <2>4. InSecond(now)' = InSecond(now)
    BY DEF InSecond
  <2> QED
    BY <2>2, <2>3, <2>4 DEF RotationsAreOld
<1> QED
  BY <1>4, <1>5, <1>6 DEF LoggerInv, LogIsComplete

\* Steps that write nothing: only the clock may move on.
LEMMA QuietOK ==
  ASSUME LoggerInv, UNCHANGED <<current, rotated, loggedAt, reopened>>,
         logFile' = "open" \/ logFile' = logFile,
         now' \in Seconds, now' = now \/ now' > now
  PROVE  LoggerInv'
<1>1. LoggerTypes'
  BY DEF LoggerInv, LoggerTypes
<1>2. KeptWereLogged'
  BY DEF LoggerInv, KeptWereLogged
<1>3. now \in Nat /\ now' \in Nat /\ Seconds \subseteq Nat
  BY LoggerAssumption DEF LoggerInv, LoggerTypes
<1>4. \A s \in Seconds : s > now' => rotated'[s] = {}
  <2> SUFFICES ASSUME NEW s \in Seconds, s > now' PROVE rotated[s] = {}
    OBVIOUS
  <2>1. s \in Nat
    BY <1>3
  <2>2. s > now
    BY <1>3, <2>1
  <2> QED
    BY <2>2 DEF LoggerInv, RotationsAreOld
<1>5. rotated'[now'] # {} => current' \subseteq InSecond(now)'
  <2>1. CASE now' = now
    BY <2>1 DEF LoggerInv, RotationsAreOld, InSecond
  <2>2. CASE now' > now
    BY <2>2 DEF LoggerInv, RotationsAreOld
  <2> QED
    BY <2>1, <2>2
<1>6. LogIsComplete'
  BY DEF LoggerInv, LogIsComplete, NoBusySecond, InSecond, Kept
<1> QED
  BY <1>1, <1>2, <1>4, <1>5, <1>6 DEF LoggerInv, RotationsAreOld

LEMMA LoggerStepOK == LoggerInv /\ [LoggerNext]_loggerVars => LoggerInv'
<1> SUFFICES ASSUME LoggerInv, [LoggerNext]_loggerVars PROVE LoggerInv'
  OBVIOUS
<1>0. now \in Seconds
  BY DEF LoggerInv, LoggerTypes
<1>1. ASSUME NEW severity \in 0 .. 3, SetLevel(severity) PROVE LoggerInv'
  BY <1>0, <1>1, QuietOK DEF SetLevel
<1>2. ASSUME NEW severity \in 0 .. 3, Write(severity) PROVE LoggerInv'
  <2>1. now' = now
    BY <1>2 DEF Write
  <2>2. PICK sizeKnown \in BOOLEAN, renamed \in BOOLEAN :
          \/ /\ ~Rotates(sizeKnown) /\ logFile' = logFile
             /\ Put(current) /\ UNCHANGED <<rotated, reopened>>
          \/ /\ Rotates(sizeKnown) /\ Rename(renamed) /\ logFile' = "open"
             /\ Put(IF renamed THEN {} ELSE current) /\ UNCHANGED reopened
          \/ /\ Rotates(sizeKnown) /\ Rename(renamed)
             /\ current' = (IF renamed THEN {} ELSE current)
             /\ reopened' = FALSE /\ UNCHANGED loggedAt
    BY <1>2 DEF Write
  <2>3. CASE /\ ~Rotates(sizeKnown) /\ logFile' = logFile
             /\ Put(current) /\ UNCHANGED <<rotated, reopened>>
    BY <2>1, <2>3, PutOK
  <2>4. CASE /\ Rotates(sizeKnown) /\ Rename(renamed) /\ logFile' = "open"
             /\ Put(IF renamed THEN {} ELSE current) /\ UNCHANGED reopened
    <3>1. CASE renamed
      <4>1. Rotates(TRUE) /\ Rename(TRUE) /\ Put({})
        BY <2>4, <3>1 DEF Rotates, Rename
      <4> QED
        BY <2>1, <2>4, <4>1, RotateOK
    <3>2. CASE ~renamed
      <4>1. Put(current) /\ rotated' = rotated
        BY <2>4, <3>2 DEF Rename
      <4> QED
        BY <2>1, <2>4, <4>1, PutOK
    <3> QED
      BY <3>1, <3>2
  <2>5. CASE /\ Rotates(sizeKnown) /\ Rename(renamed)
             /\ current' = (IF renamed THEN {} ELSE current)
             /\ reopened' = FALSE /\ UNCHANGED loggedAt
    BY <2>1, <2>5, ThrowOK
  <2> QED
    BY <2>2, <2>3, <2>4, <2>5
<1>3. CASE Reopen
  BY <1>0, <1>3, QuietOK DEF Reopen
<1>4. CASE Tick
  BY <1>4, QuietOK DEF Tick
<1>5. CASE UNCHANGED loggerVars
  BY <1>0, <1>5, QuietOK DEF loggerVars
<1> QED
  BY <1>1, <1>2, <1>3, <1>4, <1>5 DEF LoggerNext

\* Logger::write with rotate_if_needed and open_log_file: for any constants, if
\* no second is too busy and the log could always be opened, every message that
\* was taken is in the log file or in a renamed one.
THEOREM NothingIsOverwritten == LoggerSpec => []LogIsComplete
<1>1. LoggerInv => LogIsComplete
  BY DEF LoggerInv
<1> QED
  BY <1>1, LoggerInitOK, LoggerStepOK, PTL DEF LoggerSpec

-----------------------------------------------------------------------------
(* RetryLoop.  All sleeps so far add up to the next one less the first, and *)
(* the next one has doubled once for every attempt.                        *)

RetryTypes ==
  /\ attempt \in Nat /\ delay \in Nat /\ elapsed \in Nat /\ heldFor \in Nat
  /\ execOutcome \in {"none", "done", "locked", "error"}

\* The last sleep began while the lock was held.
Proportion ==
  /\ delay = elapsed + InitialDelay
  /\ elapsed < 2 * heldFor + InitialDelay

Doubled ==
  /\ attempt <= MaxRetries
  /\ delay = InitialDelay * PowerOfTwo[attempt]

RetryInv == RetryTypes /\ Proportion /\ Doubled /\ GivesUpLate

LEMMA PowerOfTwoFacts ==
  /\ PowerOfTwo \in [Nat -> Nat] /\ PowerOfTwo[0] = 1
  /\ \A n \in Nat : PowerOfTwo[n + 1] = 2 * PowerOfTwo[n]
<1> DEFINE step == [i \in Nat \ {0} |-> [v \in Nat |-> 2 * v]]
           body(f) == [n \in Nat |-> IF n = 0 THEN 1 ELSE 2 * f[n - 1]]
<1>1. step \in [Nat \ {0} -> [Nat -> Nat]] /\ 1 \in Nat
  OBVIOUS
<1>2. \A i \in Nat \ {0}, v \in Nat : step[i][v] = 2 * v
  OBVIOUS
<1> HIDE DEF step
<1>3. PICK g \in [Nat -> Nat] : IteratesForever(g, 1, step)
  BY <1>1, RecursionForever, Zenon
<1>4. g[0] = 1 /\ \A i \in Nat \ {0} : g[i] = 2 * g[i - 1]
  BY <1>2, <1>3 DEF IteratesForever
<1>5. g = body(g)
  BY <1>4
<1>6. PowerOfTwo = CHOOSE f : f = body(f)
  BY DEF PowerOfTwo
<1>7. PowerOfTwo = body(PowerOfTwo)
  BY <1>5, <1>6
<1>8. /\ PowerOfTwo[0] = 1
      /\ \A i \in Nat \ {0} : PowerOfTwo[i] = 2 * PowerOfTwo[i - 1]
      /\ DOMAIN PowerOfTwo = Nat /\ PowerOfTwo = [n \in Nat |-> PowerOfTwo[n]]
  BY <1>7
<1>9. \A n \in Nat : PowerOfTwo[n] = g[n]
  <2> SUFFICES ASSUME NEW n \in Nat
               PROVE  PowerOfTwo[n] = g[n]
    OBVIOUS
  <2> DEFINE G == {k \in 0 .. n : PowerOfTwo[k] = g[k]}
  <2>1. 0 \in G
    BY <1>4, <1>8
  <2>2. ASSUME NEW k \in 1 .. n, k - 1 \in G
        PROVE  k \in G
    <3>1. k \in Nat \ {0} /\ k \in 0 .. n
      OBVIOUS
    <3>2. PowerOfTwo[k - 1] = g[k - 1]
      BY <2>2
    <3>3. PowerOfTwo[k] = 2 * PowerOfTwo[k - 1]
      BY <1>8, <3>1
    <3> QED
      BY <1>4, <3>1, <3>2, <3>3
  <2>3. \A k \in G : PowerOfTwo[k] = g[k]
    OBVIOUS
  <2> HIDE DEF G
  <2>4. n \in 0 .. n
    OBVIOUS
  <2> QED
    BY <2>1, <2>2, <2>3, <2>4, CountingUp
<1>10. PowerOfTwo \in [Nat -> Nat]
  BY <1>8, <1>9
<1>11. ASSUME NEW n \in Nat
       PROVE  PowerOfTwo[n + 1] = 2 * PowerOfTwo[n]
  <2>1. n + 1 \in Nat \ {0} /\ (n + 1) - 1 = n
    OBVIOUS
  <2> QED
    BY <1>8, <2>1
<1> QED
  BY <1>8, <1>10, <1>11

LEMMA RetryInitOK == RetryInit => RetryInv
<1> SUFFICES ASSUME RetryInit PROVE RetryInv
  OBVIOUS
<1>1. heldFor \in Nat /\ elapsed = 0 /\ delay = InitialDelay /\ attempt = 0
  BY RetryAssumption DEF RetryInit
<1>2. Proportion
  BY <1>1, RetryAssumption DEF Proportion
<1>3. Doubled
  BY <1>1, PowerOfTwoFacts, RetryAssumption DEF Doubled
<1> QED
  BY <1>1, <1>2, <1>3, RetryAssumption DEF RetryInit, RetryInv, RetryTypes, GivesUpLate

LEMMA RetryStepOK == RetryInv /\ [RetryNext]_retryVars => RetryInv'
<1> SUFFICES ASSUME RetryInv, [RetryNext]_retryVars PROVE RetryInv'
  OBVIOUS
<1>0. /\ RetryTypes /\ Proportion /\ Doubled /\ GivesUpLate
      /\ MaxRetries \in Nat /\ InitialDelay \in Nat \ {0}
  BY RetryAssumption DEF RetryInv
<1>1. CASE execOutcome' # "locked" /\ execOutcome' \in {"done", "error"}
           /\ UNCHANGED <<attempt, delay, elapsed, heldFor>>
  BY <1>0, <1>1 DEF RetryInv, RetryTypes, Proportion, Doubled, GivesUpLate
<1>2. CASE SleepAndRetry
  <2>1. /\ attempt' = attempt + 1 /\ elapsed' = elapsed + delay /\ delay' = 2 * delay
        /\ heldFor' = heldFor /\ execOutcome' = execOutcome /\ execOutcome = "none"
    BY <1>2 DEF SleepAndRetry
  <2>2. elapsed < heldFor /\ attempt < MaxRetries
    BY <1>2 DEF SleepAndRetry, Locked
  <2>3. Proportion'
    <3>1. delay' = elapsed' + InitialDelay
      BY <1>0, <2>1 DEF RetryTypes, Proportion
    <3>2. elapsed' < 2 * heldFor' + InitialDelay
      BY <1>0, <2>1, <2>2 DEF RetryTypes, Proportion
    <3> QED
      BY <3>1, <3>2 DEF Proportion
  <2>4. Doubled'
    <3>1. PICK p \in Nat : p = PowerOfTwo[attempt]
      BY <1>0, PowerOfTwoFacts DEF RetryTypes
    <3>2. PowerOfTwo[attempt'] = 2 * p
      BY <1>0, <2>1, <3>1, PowerOfTwoFacts DEF RetryTypes
    <3>3. delay = InitialDelay * p
      BY <1>0, <3>1 DEF Doubled
    <3>4. 2 * (InitialDelay * p) = InitialDelay * (2 * p)
      BY <1>0
    <3>5. delay' = InitialDelay * PowerOfTwo[attempt']
      BY <2>1, <3>2, <3>3, <3>4
    <3>6. attempt' <= MaxRetries
      BY <1>0, <2>1, <2>2 DEF RetryTypes
    <3> QED
      BY <3>5, <3>6 DEF Doubled
  <2>5. RetryTypes'
    BY <1>0, <2>1 DEF RetryTypes
  <2> QED
    BY <2>1, <2>3, <2>4, <2>5 DEF RetryInv, GivesUpLate
<1>3. CASE GiveUpLocked
  <2>1. /\ UNCHANGED <<attempt, delay, elapsed, heldFor>> /\ execOutcome' = "locked"
        /\ attempt = MaxRetries /\ elapsed < heldFor
    BY <1>3 DEF GiveUpLocked, Locked
  <2>2. PICK p \in Nat : p = PowerOfTwo[MaxRetries]
    BY <1>0, PowerOfTwoFacts
  <2>3. elapsed = InitialDelay * p - InitialDelay
    BY <1>0, <2>1, <2>2 DEF RetryTypes, Proportion, Doubled
  <2>4. InitialDelay * p - InitialDelay = InitialDelay * (p - 1)
    BY <1>0
  <2>5. heldFor > InitialDelay * (p - 1)
    BY <1>0, <2>1, <2>3, <2>4 DEF RetryTypes
  <2>6. GivesUpLate'
    BY <2>1, <2>2, <2>5 DEF GivesUpLate
  <2>7. RetryTypes' /\ Proportion' /\ Doubled'
    BY <1>0, <2>1 DEF RetryTypes, Proportion, Doubled
  <2> QED
    BY <2>6, <2>7 DEF RetryInv
<1>4. CASE UNCHANGED retryVars
  BY <1>0, <1>4 DEF RetryInv, retryVars, RetryTypes, Proportion, Doubled, GivesUpLate
<1>5. CASE ExecSucceeds
  BY <1>1, <1>5 DEF ExecSucceeds
<1>6. CASE ExecThrows
  BY <1>1, <1>6 DEF ExecThrows
<1> QED
  BY <1>2, <1>3, <1>4, <1>5, <1>6 DEF RetryNext

\* exec_with_retry: whatever the constants, a statement that gets the lock has
\* slept less than twice as long as the lock was held, and the first delay.
THEOREM WaitIsProportional == RetrySpec => []WaitsInProportion
<1>1. RetryInv => WaitsInProportion
  BY DEF RetryInv, Proportion, WaitsInProportion
<1> QED
  BY <1>1, RetryInitOK, RetryStepOK, PTL DEF RetrySpec

\* exec_with_retry: the database is reported locked only after all its delays,
\* the first one times 2^n - 1 for n retries, passed while it was held.
THEOREM GivesUpLast == RetrySpec => []GivesUpLate
<1>1. RetryInv => GivesUpLate
  BY DEF RetryInv
<1> QED
  BY <1>1, RetryInitOK, RetryStepOK, PTL DEF RetrySpec

-----------------------------------------------------------------------------
(* DriveRegistry.  An id is made of the first name, and stays.             *)

RegistryInv ==
  /\ mountedAs \in [Disks -> Names \cup {Absent}]
  /\ driveId \in [Disks -> Names \cup {Absent}]
  /\ firstName \in [Disks -> Names \cup {Absent}]
  /\ \A d \in Disks : driveId[d] # Absent => driveId[d] = IdOf[firstName[d]]
  /\ known \subseteq Disks

LEMMA RegistryStepOK == RegistryInv /\ [RegistryNext]_registryVars => RegistryInv'
<1> SUFFICES ASSUME RegistryInv, [RegistryNext]_registryVars PROVE RegistryInv'
  OBVIOUS
<1> USE DEF RegistryInv
<1>1. ASSUME NEW d \in Disks, Mount(d) PROVE RegistryInv'
  BY <1>1 DEF Mount
<1>2. ASSUME NEW d \in Disks, Unmount(d) PROVE RegistryInv'
  BY <1>2 DEF Unmount
<1>3. ASSUME NEW d \in Disks, Register(d) PROVE RegistryInv'
  <2>1. mountedAs[d] \in Names /\ IdOf[mountedAs[d]] \in Names
    BY <1>3, RegistryAssumption DEF Register
  <2>2. \A e \in Disks : /\ driveId'[e] = IF e = d THEN IdOf[mountedAs[d]] ELSE driveId[e]
                         /\ firstName'[e] = IF e = d THEN mountedAs[d] ELSE firstName[e]
    BY <1>3 DEF Register
  <2> QED
    BY <1>3, <2>1, <2>2 DEF Register
<1>4. ASSUME NEW d \in Disks, RegisterDies(d) PROVE RegistryInv'
  BY <1>4 DEF RegisterDies
<1>5. CASE UNCHANGED registryVars
  BY <1>5 DEF registryVars
<1> QED
  BY <1>1, <1>2, <1>3, <1>4, <1>5 DEF RegistryNext

\* get_or_register_drive_id: for any disks, names and mounts, disks first
\* scanned under names with different letters and digits keep different keys.
THEOREM DisksStayApart == RegistrySpec => []NobodyLeftOut
<1>1. RegistryInit => RegistryInv
  BY DEF RegistryInit, RegistryInv
<1>2. RegistryInv => NobodyLeftOut
  BY DEF RegistryInv, NobodyLeftOut, AllTakePart, Key, Found
<1> QED
  BY <1>1, <1>2, RegistryStepOK, PTL DEF RegistrySpec

-----------------------------------------------------------------------------
(* MerkleTree: sets that have the same labels equally often match.         *)

\* The x of A that f takes to k.
Fiber(A, f, k) == {x \in A : f[x] = k}

\* A and B have the same labels, each of them as often.
Matching(A, B, la, lb) == \E f \in Bijection(A, B) : \A x \in A : lb[f[x]] = la[x]

\* Sets match whose parts match.
LEMMA PartsMatch ==
  ASSUME NEW A, NEW B, NEW K, NEW ka, NEW kb, NEW la, NEW lb,
         \A x \in A : ka[x] \in K, \A y \in B : kb[y] \in K,
         \A k \in K : Matching(Fiber(A, ka, k), Fiber(B, kb, k), la, lb)
  PROVE  Matching(A, B, la, lb)
<1> DEFINE Fits(k, f) == /\ f \in Bijection(Fiber(A, ka, k), Fiber(B, kb, k))
                         /\ \A x \in Fiber(A, ka, k) : lb[f[x]] = la[x]
           g == [k \in K |-> CHOOSE f : Fits(k, f)]
           F == [x \in A |-> g[ka[x]][x]]
<1>1. ASSUME NEW k \in K
      PROVE  Fits(k, g[k])
  <2>1. \E f : Fits(k, f)
    BY DEF Matching
  <2> HIDE DEF Fits
  <2> QED
    BY <2>1
<1> HIDE DEF g
<1>2. ASSUME NEW k \in K, NEW x \in A, ka[x] = k
      PROVE  /\ g[k][x] \in B /\ kb[g[k][x]] = k /\ lb[g[k][x]] = la[x]
             /\ \A z \in A : ka[z] = k /\ g[k][x] = g[k][z] => x = z
  <2>1. x \in Fiber(A, ka, k)
    BY <1>2 DEF Fiber
  <2>2. /\ g[k] \in [Fiber(A, ka, k) -> Fiber(B, kb, k)]
        /\ \A v, z \in Fiber(A, ka, k) : g[k][v] = g[k][z] => v = z
    BY <1>1 DEF Bijection, Injection, IsInjective
  <2>3. g[k][x] \in Fiber(B, kb, k) /\ lb[g[k][x]] = la[x]
    BY <1>1, <2>1, <2>2
  <2>4. \A z \in A : ka[z] = k => z \in Fiber(A, ka, k)
    BY DEF Fiber
  <2> QED
    BY <2>1, <2>2, <2>3, <2>4 DEF Fiber
<1>3. ASSUME NEW y \in B
      PROVE  \E x \in A : ka[x] = kb[y] /\ g[kb[y]][x] = y
  <2>1. PICK k \in K : k = kb[y]
    OBVIOUS
  <2>2. y \in Fiber(B, kb, k)
    BY <2>1 DEF Fiber
  <2>3. \E x \in Fiber(A, ka, k) : g[k][x] = y
    BY <1>1, <2>2 DEF Bijection, Surjection
  <2> QED
    BY <2>1, <2>3 DEF Fiber
<1>4. \A x \in A : F[x] = g[ka[x]][x]
  OBVIOUS
<1>5. F \in [A -> B]
  BY <1>2
<1> HIDE DEF F
<1>6. IsInjective(F)
  <2>1. ASSUME NEW x \in A, NEW z \in A, F[x] = F[z]
        PROVE  x = z
    <3>1. kb[F[x]] = ka[x] /\ kb[F[z]] = ka[z]
      BY <1>2, <1>4
    <3>2. ka[x] = ka[z] /\ g[ka[x]][x] = g[ka[x]][z] /\ ka[x] \in K
      BY <1>4, <2>1, <3>1
    <3> QED
      BY <1>2, <3>2
  <2> QED
    BY <1>5, <2>1 DEF IsInjective
<1>7. \A y \in B : \E x \in A : F[x] = y
  BY <1>3, <1>4
<1>8. \A x \in A : lb[F[x]] = la[x]
  BY <1>2, <1>4
<1>9. F \in Bijection(A, B)
  BY <1>5, <1>6, <1>7 DEF Bijection, Injection, Surjection
<1> QED
  BY <1>8, <1>9 DEF Matching

\* Parts of the same label, in matching sets.
LEMMA LabelsMatch ==
  ASSUME NEW A, NEW B, NEW la, NEW lb, Matching(A, B, la, lb), IsFiniteSet(A), NEW c
  PROVE  /\ IsFiniteSet(Fiber(B, lb, c))
         /\ Cardinality(Fiber(B, lb, c)) = Cardinality(Fiber(A, la, c))
<1>1. PICK f \in Bijection(A, B) : \A x \in A : lb[f[x]] = la[x]
  BY DEF Matching
<1>2. /\ f \in [A -> B] /\ \A x, z \in A : f[x] = f[z] => x = z
      /\ \A y \in B : \E x \in A : f[x] = y
  BY DEF Bijection, Injection, IsInjective, Surjection
<1> DEFINE g == [x \in Fiber(A, la, c) |-> f[x]]
<1>3. g \in [Fiber(A, la, c) -> Fiber(B, lb, c)]
  BY <1>1, <1>2 DEF Fiber
<1>4. \A x, z \in Fiber(A, la, c) : g[x] = g[z] => x = z
  BY <1>2 DEF Fiber
<1>5. \A y \in Fiber(B, lb, c) : \E x \in Fiber(A, la, c) : g[x] = y
  BY <1>1, <1>2 DEF Fiber
<1> HIDE DEF g
<1>6. g \in Bijection(Fiber(A, la, c), Fiber(B, lb, c))
  BY <1>3, <1>4, <1>5 DEF Bijection, Injection, IsInjective, Surjection
<1>7. ExistsBijection(Fiber(A, la, c), Fiber(B, lb, c))
  BY <1>6 DEF ExistsBijection
<1>8. Fiber(A, la, c) \in SUBSET A
  BY DEF Fiber
<1>9. IsFiniteSet(Fiber(A, la, c))
  BY <1>8, FS_Subset
<1> QED
  BY <1>7, <1>9, FS_Bijection

\* How often each label is there.
Counts(A, la) == [c \in {la[x] : x \in A} |-> Cardinality(Fiber(A, la, c))]

LEMMA MatchingIsCounting ==
  ASSUME NEW A, NEW B, NEW la, NEW lb, Matching(A, B, la, lb), IsFiniteSet(A)
  PROVE  Counts(A, la) = Counts(B, lb)
<1>1. PICK f \in Bijection(A, B) : \A x \in A : lb[f[x]] = la[x]
  BY DEF Matching
<1>2. f \in [A -> B] /\ \A y \in B : \E x \in A : f[x] = y
  BY DEF Bijection, Injection, Surjection
<1>3. {la[x] : x \in A} = {lb[y] : y \in B}
  BY <1>1, <1>2
<1>4. \A c : Cardinality(Fiber(B, lb, c)) = Cardinality(Fiber(A, la, c))
  BY LabelsMatch
<1> QED
  BY <1>3, <1>4 DEF Counts

LEMMA CountingIsMatching ==
  ASSUME NEW A, NEW B, NEW la, NEW lb, Counts(A, la) = Counts(B, lb), IsFiniteSet(A), IsFiniteSet(B)
  PROVE  Matching(A, B, la, lb)
<1> DEFINE K == {la[x] : x \in A}
<1>1. DOMAIN Counts(A, la) = K /\ DOMAIN Counts(B, lb) = {lb[y] : y \in B}
  BY DEF Counts
<1>2. K = {lb[y] : y \in B}
  BY <1>1
<1>3. (\A x \in A : la[x] \in K) /\ \A y \in B : lb[y] \in K
  BY <1>2
<1>4. \A k \in K : /\ Counts(A, la)[k] = Cardinality(Fiber(A, la, k))
                   /\ Counts(B, lb)[k] = Cardinality(Fiber(B, lb, k))
  BY <1>2 DEF Counts
<1> HIDE DEF K
<1>5. ASSUME NEW k \in K
      PROVE  Matching(Fiber(A, la, k), Fiber(B, lb, k), la, lb)
  <2>1. Fiber(A, la, k) \in SUBSET A /\ Fiber(B, lb, k) \in SUBSET B
    BY DEF Fiber
  <2>2. IsFiniteSet(Fiber(A, la, k)) /\ IsFiniteSet(Fiber(B, lb, k))
    BY <2>1, FS_Subset
  <2>3. Cardinality(Fiber(A, la, k)) = Cardinality(Fiber(B, lb, k))
    BY <1>4
  <2>4. ExistsBijection(Fiber(A, la, k), Fiber(B, lb, k))
    BY <2>2, <2>3, FS_SameCardinalityBij
  <2>5. PICK f : f \in Bijection(Fiber(A, la, k), Fiber(B, lb, k))
    BY <2>4 DEF ExistsBijection
  <2>6. f \in [Fiber(A, la, k) -> Fiber(B, lb, k)]
    BY <2>5 DEF Bijection, Injection
  <2>7. \A x \in Fiber(A, la, k) : lb[f[x]] = la[x]
    BY <2>6 DEF Fiber
  <2> QED
    BY <2>5, <2>7 DEF Matching
<1> QED
  BY <1>3, <1>5, PartsMatch

-----------------------------------------------------------------------------
(* Paths: what is above them, and the entry that leads to them.            *)

\* What entries of directories are called.
EntryNames == UNION {Range(p) : p \in TreePaths}

\* The beginnings of a path.
LEMMA Beginnings ==
  ASSUME NEW X, NEW p \in Seq(X), NEW n \in 0 .. Len(p)
  PROVE  /\ SubSeq(p, 1, n) \in Seq(X) /\ Len(SubSeq(p, 1, n)) = n
         /\ \A m \in 0 .. n : SubSeq(SubSeq(p, 1, n), 1, m) = SubSeq(p, 1, m)
<1>1. PICK q : q = SubSeq(p, 1, n)
  OBVIOUS
<1>2. q \in Seq(X) /\ Len(q) = n /\ \A i \in 1 .. n : q[i] = p[i]
  BY <1>1
<1>3. ASSUME NEW m \in 0 .. n
      PROVE  SubSeq(q, 1, m) = SubSeq(p, 1, m)
  <2>1. PICK r : r = SubSeq(q, 1, m)
    OBVIOUS
  <2>2. PICK s : s = SubSeq(p, 1, m)
    OBVIOUS
  <2>3. r \in Seq(X) /\ Len(r) = m /\ \A i \in 1 .. m : r[i] = q[i]
    BY <1>2, <2>1
  <2>4. s \in Seq(X) /\ Len(s) = m /\ \A i \in 1 .. m : s[i] = p[i]
    BY <2>2
  <2>5. \A i \in 1 .. m : r[i] = s[i]
    BY <1>2, <2>3, <2>4
  <2>6. r = s
    BY <2>3, <2>4, <2>5
  <2> QED
    BY <2>1, <2>2, <2>6
<1> QED
  BY <1>1, <1>2, <1>3

LEMMA WholePath ==
  ASSUME NEW X, NEW p \in Seq(X)
  PROVE  SubSeq(p, 1, Len(p)) = p
  OBVIOUS

LEMMA PrefixIsBeginning ==
  ASSUME NEW X, NEW d \in Seq(X), NEW p \in Seq(X)
  PROVE  IsPrefix(d, p) <=> Len(d) \in 0 .. Len(p) /\ d = SubSeq(p, 1, Len(d))
<1>1. SubSeq(d, 1, Len(d)) = d
  BY WholePath
<1>2. IsPrefix(d, p) <=> Len(d) <= Len(p) /\ d = SubSeq(p, 1, Len(d))
  BY <1>1 DEF IsPrefix
<1>3. Len(d) \in Nat /\ Len(p) \in Nat
  OBVIOUS
<1> QED
  BY <1>2, <1>3

\* What is above a path is above what is below.
LEMMA AboveFacts ==
  ASSUME NEW X, NEW p \in Seq(X), NEW q \in Above(p)
  PROVE  /\ q \in Seq(X) /\ Len(q) \in 0 .. Len(p) - 1 /\ q = SubSeq(p, 1, Len(q))
         /\ Above(q) \subseteq Above(p) /\ p \notin Above(p)
         /\ \A r \in Above(p) : Len(r) \in 0 .. Len(q) - 1 => r \in Above(q)
<1>1. PICK n \in 0 .. Len(p) - 1 : q = SubSeq(p, 1, n)
  BY DEF Above
<1>2. Len(p) \in Nat /\ n \in 0 .. Len(p)
  OBVIOUS
<1>3. q \in Seq(X) /\ Len(q) = n /\ \A m \in 0 .. n : SubSeq(q, 1, m) = SubSeq(p, 1, m)
  BY <1>1, <1>2, Beginnings
<1>4. Above(q) \subseteq Above(p)
  <2> SUFFICES ASSUME NEW r \in Above(q) PROVE r \in Above(p)
    OBVIOUS
  <2>1. PICK m \in 0 .. n - 1 : r = SubSeq(q, 1, m)
    BY <1>3 DEF Above
  <2>2. r = SubSeq(p, 1, m) /\ m \in 0 .. Len(p) - 1
    BY <1>2, <1>3, <2>1
  <2> QED
    BY <2>2 DEF Above
<1>5. p \notin Above(p)
  <2> SUFFICES ASSUME p \in Above(p) PROVE FALSE
    OBVIOUS
  <2>1. PICK m \in 0 .. Len(p) - 1 : p = SubSeq(p, 1, m)
    BY DEF Above
  <2>2. m \in 0 .. Len(p)
    BY <1>2
  <2>3. Len(SubSeq(p, 1, m)) = m
    BY <2>2, Beginnings
  <2>4. Len(p) = m
    BY <2>1, <2>3
  <2> QED
    BY <1>2, <2>4
<1>6. ASSUME NEW r \in Above(p), Len(r) \in 0 .. Len(q) - 1
      PROVE  r \in Above(q)
  <2>1. PICK m \in 0 .. Len(p) - 1 : r = SubSeq(p, 1, m)
    BY DEF Above
  <2>2. m \in 0 .. Len(p)
    BY <1>2
  <2>3. Len(r) = m
    BY <2>1, <2>2, Beginnings
  <2>4. m \in 0 .. n - 1 /\ m \in 0 .. n
    BY <1>3, <1>6, <2>3
  <2>5. r = SubSeq(q, 1, m)
    BY <1>3, <2>1, <2>4
  <2> QED
    BY <1>3, <2>4, <2>5 DEF Above
<1> QED
  BY <1>1, <1>3, <1>4, <1>5, <1>6

\* The entry of d on the way to what is below d.
LEMMA NextIsAbove ==
  ASSUME NEW X, NEW p \in Seq(X), NEW d \in Above(p)
  PROVE  LET e == SubSeq(p, 1, Len(d) + 1) IN
         /\ e \in Above(p) \cup {p} /\ e \in Seq(X)
         /\ Len(e) = Len(d) + 1 /\ IsPrefix(d, e) /\ IsPrefix(e, p)
<1>1. d \in Seq(X) /\ Len(d) \in 0 .. Len(p) - 1 /\ d = SubSeq(p, 1, Len(d))
  BY AboveFacts
<1>2. PICK m \in Nat : m = Len(d) + 1
  BY <1>1
<1>3. Len(p) \in Nat /\ m \in 0 .. Len(p) /\ Len(d) \in 0 .. m
  BY <1>1, <1>2
<1>4. PICK e : e = SubSeq(p, 1, m)
  OBVIOUS
<1>5. e \in Seq(X) /\ Len(e) = m /\ \A k \in 0 .. m : SubSeq(e, 1, k) = SubSeq(p, 1, k)
  BY <1>3, <1>4, Beginnings
<1>6. IsPrefix(d, e)
  <2>1. d = SubSeq(e, 1, Len(d))
    BY <1>1, <1>3, <1>5
  <2>2. Len(d) \in 0 .. Len(e)
    BY <1>3, <1>5
  <2> QED
    BY <1>1, <1>5, <2>1, <2>2, PrefixIsBeginning
<1>7. IsPrefix(e, p)
  <2>1. Len(e) \in 0 .. Len(p) /\ e = SubSeq(p, 1, Len(e))
    BY <1>3, <1>4, <1>5
  <2> QED
    BY <1>5, <2>1, PrefixIsBeginning
<1>8. e \in Above(p) \cup {p}
  <2>1. CASE m = Len(p)
    BY <1>4, <2>1, WholePath
  <2>2. CASE m # Len(p)
    <3>1. m \in 0 .. Len(p) - 1
      BY <1>3, <2>2
    <3> QED
      BY <1>4, <3>1 DEF Above
  <2> QED
    BY <2>1, <2>2
<1> QED
  BY <1>2, <1>4, <1>5, <1>6, <1>7, <1>8

LEMMA AboveIsPrefix ==
  ASSUME NEW X, NEW d \in Seq(X), NEW p \in Seq(X), d \in Above(p)
  PROVE  IsPrefix(d, p)
<1>1. Len(d) \in 0 .. Len(p) - 1 /\ d = SubSeq(p, 1, Len(d))
  BY AboveFacts
<1>2. Len(d) \in 0 .. Len(p)
  BY <1>1
<1> QED
  BY <1>1, <1>2, PrefixIsBeginning

\* What has p below it, or is p.
LEMMA PrefixOrAbove ==
  ASSUME NEW X, NEW d \in Seq(X), NEW p \in Seq(X), IsPrefix(d, p)
  PROVE  d = p \/ d \in Above(p)
<1>1. Len(d) \in 0 .. Len(p) /\ d = SubSeq(p, 1, Len(d)) /\ Len(p) \in Nat
  BY PrefixIsBeginning
<1>2. CASE Len(d) = Len(p)
  <2>1. d = SubSeq(p, 1, Len(p))
    BY <1>1, <1>2
  <2> QED
    BY <2>1, WholePath
<1>3. CASE Len(d) # Len(p)
  <2>1. Len(d) \in 0 .. Len(p) - 1
    BY <1>1, <1>3
  <2> QED
    BY <1>1, <2>1 DEF Above
<1> QED
  BY <1>2, <1>3

LEMMA PrefixIsTransitive ==
  ASSUME NEW X, NEW d \in Seq(X), NEW e \in Seq(X), NEW p \in Seq(X), IsPrefix(d, e), IsPrefix(e, p)
  PROVE  IsPrefix(d, p) /\ (Len(e) = Len(d) + 1 => d \in Above(p) /\ e = SubSeq(p, 1, Len(d) + 1))
<1>1. Len(d) \in 0 .. Len(e) /\ d = SubSeq(e, 1, Len(d)) /\ Len(e) \in Nat
  BY PrefixIsBeginning
<1>2. Len(e) \in 0 .. Len(p) /\ e = SubSeq(p, 1, Len(e)) /\ Len(p) \in Nat
  BY PrefixIsBeginning
<1>3. \A k \in 0 .. Len(e) : SubSeq(SubSeq(p, 1, Len(e)), 1, k) = SubSeq(p, 1, k)
  BY <1>2, Beginnings
<1>4. d = SubSeq(p, 1, Len(d)) /\ Len(d) \in 0 .. Len(p)
  BY <1>1, <1>2, <1>3
<1>5. IsPrefix(d, p)
  BY <1>4, PrefixIsBeginning
<1>6. Len(e) = Len(d) + 1 => Len(d) \in 0 .. Len(p) - 1
  BY <1>1, <1>2
<1> QED
  BY <1>2, <1>4, <1>5, <1>6 DEF Above

-----------------------------------------------------------------------------
(* The trees a user can make.                                              *)

\* Every node is in a directory, and no file is one.
TreeOK(t) ==
  /\ t.files \in [TreePaths -> TreeContents \cup {NoFile}]
  /\ t.dirs \in SUBSET (TreeDirs \cup {<<>>}) /\ <<>> \in t.dirs
  /\ \A p \in Nodes(t) : Above(p) \subseteq t.dirs
  /\ \A p \in FilesOf(t) : p \notin t.dirs

LEMMA PathsAreSequences ==
  /\ TreePaths \subseteq Seq(EntryNames) /\ TreeDirs \subseteq Seq(EntryNames)
  /\ <<>> \in Seq(EntryNames)
  /\ IsFiniteSet(TreePaths) /\ IsFiniteSet(TreeDirs \cup {<<>>})
<1>1. TreePaths \subseteq Seq(EntryNames) /\ IsFiniteSet(TreePaths)
  BY TreeAssumption, Zenon DEF EntryNames
<1>2. TreeDirs \subseteq Seq(EntryNames)
  <2> SUFFICES ASSUME NEW p \in TreePaths, NEW q \in Above(p) PROVE q \in Seq(EntryNames)
    BY DEF TreeDirs
  <2> QED
    BY <1>1, AboveFacts
<1>3. IsFiniteSet(TreeDirs)
  <2>1. ASSUME NEW p \in TreePaths
        PROVE  IsFiniteSet(Above(p))
    <3>1. Len(p) - 1 \in Int
      BY <1>1
    <3>2. IsFiniteSet(0 .. Len(p) - 1)
      BY <3>1, FS_Interval
    <3> DEFINE f == [n \in 0 .. Len(p) - 1 |-> SubSeq(p, 1, n)]
    <3>3. f \in Surjection(0 .. Len(p) - 1, Above(p))
      BY DEF Surjection, Above
    <3> HIDE DEF f
    <3> QED
      BY <3>2, <3>3, FS_Surjection
  <2> DEFINE g == [p \in TreePaths |-> Above(p)]
             S == {Above(p) : p \in TreePaths}
  <2>2. g \in Surjection(TreePaths, S)
    BY DEF Surjection
  <2>3. \A T \in S : IsFiniteSet(T)
    BY <2>1
  <2>4. UNION S = TreeDirs
    BY DEF TreeDirs
  <2> HIDE DEF g, S
  <2>5. IsFiniteSet(S)
    BY <1>1, <2>2, FS_Surjection
  <2> QED
    BY <2>3, <2>4, <2>5, FS_UNION
<1>4. IsFiniteSet(TreeDirs \cup {<<>>})
  BY <1>3, FS_AddElement
<1>5. <<>> \in Seq(EntryNames)
  BY EmptySeq
<1> QED
  BY <1>1, <1>2, <1>4, <1>5

LEMMA NodeFacts ==
  ASSUME NEW t, TreeOK(t)
  PROVE  /\ Nodes(t) \subseteq Seq(EntryNames) /\ IsFiniteSet(Nodes(t))
         /\ FilesOf(t) \subseteq Nodes(t) /\ t.dirs \subseteq Nodes(t)
         /\ \A d : IsFiniteSet(Entries(t, d)) /\ Entries(t, d) \subseteq Nodes(t)
<1>1. t.dirs \in SUBSET (TreeDirs \cup {<<>>}) /\ FilesOf(t) \in SUBSET TreePaths
  BY DEF TreeOK, FilesOf
<1>2. Nodes(t) \subseteq Seq(EntryNames)
  BY <1>1, PathsAreSequences DEF Nodes
<1>3. IsFiniteSet(t.dirs) /\ IsFiniteSet(FilesOf(t))
  BY <1>1, PathsAreSequences, FS_Subset
<1>4. IsFiniteSet(Nodes(t))
  BY <1>3, FS_Union DEF Nodes
<1>5. \A d : Entries(t, d) \in SUBSET Nodes(t)
  BY DEF Entries
<1>6. \A d : IsFiniteSet(Entries(t, d))
  BY <1>4, <1>5, FS_Subset
<1> QED
  BY <1>2, <1>4, <1>5, <1>6 DEF Nodes

LEMMA EmptyTreeOK == TreeOK(EmptyTree)
<1>1. /\ EmptyTree.files = [p \in TreePaths |-> NoFile] /\ EmptyTree.dirs = {<<>>}
  BY DEF EmptyTree, Tree
<1>2. FilesOf(EmptyTree) = {}
  BY <1>1 DEF FilesOf
<1>3. Above(<<>>) = {}
  BY DEF Above
<1> QED
  BY <1>1, <1>2, <1>3 DEF TreeOK, Nodes

LEMMA WrittenOK ==
  ASSUME NEW t, TreeOK(t), NEW u \in Written(t)
  PROVE  TreeOK(u)
<1>1. PICK p \in Writable(t), c \in TreeContents : u = WithFile(t, p, c)
  BY DEF Written
<1>2. /\ u.files = [t.files EXCEPT ![p] = c] /\ u.dirs = t.dirs \cup Above(p)
      /\ p \in TreePaths /\ p \notin t.dirs /\ Above(p) \cap FilesOf(t) = {}
  BY <1>1 DEF Tree, WithFile, Writable
<1>3. p \in Seq(EntryNames)
  BY <1>2, PathsAreSequences
<1>4. u.files \in [TreePaths -> TreeContents \cup {NoFile}]
  BY <1>2 DEF TreeOK
<1>5. \A q \in FilesOf(u) : q = p \/ q \in FilesOf(t)
  BY <1>2 DEF FilesOf, TreeOK
<1>6. u.dirs \in SUBSET (TreeDirs \cup {<<>>}) /\ <<>> \in u.dirs
  BY <1>2 DEF TreeOK, TreeDirs
<1>7. p \notin Above(p) /\ \A q \in Above(p) : Above(q) \subseteq Above(p)
  BY <1>3, AboveFacts
<1>8. \A q \in Nodes(u) : Above(q) \subseteq u.dirs
  BY <1>2, <1>5, <1>7 DEF Nodes, TreeOK
<1>9. \A q \in FilesOf(u) : q \notin u.dirs
  BY <1>2, <1>5, <1>7 DEF TreeOK
<1> QED
  BY <1>4, <1>6, <1>8, <1>9 DEF TreeOK

LEMMA RemovedOK ==
  ASSUME NEW t, TreeOK(t), NEW u \in Removed(t)
  PROVE  TreeOK(u)
<1>1. CASE \E p \in FilesOf(t) : u = Tree([t.files EXCEPT ![p] = NoFile], t.dirs)
  <2>1. PICK p \in FilesOf(t) : u = Tree([t.files EXCEPT ![p] = NoFile], t.dirs)
    BY <1>1
  <2>2. u.files = [t.files EXCEPT ![p] = NoFile] /\ u.dirs = t.dirs
    BY <2>1 DEF Tree
  <2>3. FilesOf(u) \subseteq FilesOf(t)
    BY <2>2 DEF FilesOf, TreeOK
  <2> QED
    BY <2>2, <2>3 DEF TreeOK, Nodes
<1>2. CASE \E d \in t.dirs \ {<<>>} : Entries(t, d) = {} /\ u = Tree(t.files, t.dirs \ {d})
  <2>1. PICK d \in t.dirs \ {<<>>} : Entries(t, d) = {} /\ u = Tree(t.files, t.dirs \ {d})
    BY <1>2
  <2>2. u.files = t.files /\ u.dirs = t.dirs \ {d} /\ FilesOf(u) = FilesOf(t)
    BY <2>1 DEF Tree, FilesOf
  <2>3. ASSUME NEW p \in Nodes(t)
        PROVE  d \notin Above(p)
    <3> SUFFICES ASSUME d \in Above(p) PROVE FALSE
      OBVIOUS
    <3>1. p \in Seq(EntryNames) /\ Above(p) \subseteq t.dirs
      BY NodeFacts DEF TreeOK
    <3>2. PICK e : e = SubSeq(p, 1, Len(d) + 1)
      OBVIOUS
    <3>3. e \in Above(p) \cup {p} /\ Len(e) = Len(d) + 1 /\ IsPrefix(d, e)
      BY <3>1, <3>2, NextIsAbove
    <3>4. e \in Nodes(t)
      BY <3>1, <3>3 DEF Nodes
    <3>5. e \in Entries(t, d)
      BY <3>3, <3>4 DEF Entries
    <3> QED
      BY <2>1, <3>5
  <2>4. Nodes(u) \subseteq Nodes(t)
    BY <2>2 DEF Nodes
  <2> QED
    BY <2>1, <2>2, <2>3, <2>4 DEF TreeOK
<1> QED
  BY <1>1, <1>2 DEF Removed

-----------------------------------------------------------------------------
(* The equation of the hashes.                                             *)

LEMMA DepthIsBounded ==
  ASSUME NEW S, IsFiniteSet(S), NEW X, S \subseteq Seq(X)
  PROVE  \E n \in Nat : \A p \in S : Len(p) <= n
<1>1. PICK k \in Nat : k = Cardinality(S)
  BY FS_CardinalityType
<1>2. PICK f : f \in Bijection(1 .. k, S)
  BY <1>1, FS_CardinalityType DEF ExistsBijection
<1>3. f \in [1 .. k -> S] /\ \A p \in S : \E i \in 1 .. k : f[i] = p
  BY <1>2 DEF Bijection, Injection, Surjection
<1> DEFINE G == {j \in 0 .. k : \E n \in Nat : \A i \in 1 .. j : Len(f[i]) <= n}
<1>4. 0 \in G
  <2>1. \A i \in 1 .. 0 : Len(f[i]) <= 0
    OBVIOUS
  <2> QED
    BY <2>1
<1>5. ASSUME NEW j \in 1 .. k, j - 1 \in G
      PROVE  j \in G
  <2>1. PICK n \in Nat : \A i \in 1 .. j - 1 : Len(f[i]) <= n
    BY <1>5
  <2>2. PICK m \in Nat : m = Len(f[j])
    BY <1>3
  <2>3. PICK l \in Nat : l = n + m
    OBVIOUS
  <2>4. ASSUME NEW i \in 1 .. j
        PROVE  Len(f[i]) <= l
    <3>1. Len(f[i]) \in Nat
      BY <1>3
    <3>2. i = j \/ i \in 1 .. j - 1
      OBVIOUS
    <3> QED
      BY <2>1, <2>2, <2>3, <3>1, <3>2
  <2>5. \E b \in Nat : \A i \in 1 .. j : Len(f[i]) <= b
    BY <2>4
  <2>6. j \in 0 .. k
    OBVIOUS
  <2> QED
    BY <2>5, <2>6
<1>6. k \in 0 .. k /\ \A j \in G : \E n \in Nat : \A i \in 1 .. j : Len(f[i]) <= n
  OBVIOUS
<1> HIDE DEF G
<1>7. k \in G
  BY <1>4, <1>5, <1>6, CountingUp
<1>8. PICK n \in Nat : \A i \in 1 .. k : Len(f[i]) <= n
  BY <1>6, <1>7
<1> QED
  BY <1>3, <1>8

HashOf(t, hash, p) ==
  IF p \in t.dirs THEN DirectoryHash(Entries(t, p), hash) ELSE t.files[p]

LEMMA HashNeedsEntries ==
  ASSUME NEW t, NEW p, NEW g, NEW h, \A q \in Entries(t, p) : g[q] = h[q]
  PROVE  HashOf(t, g, p) = HashOf(t, h, p)
<1>1. PICK E : E = Entries(t, p)
  OBVIOUS
<1>2. {g[q] : q \in E} = {h[q] : q \in E}
  BY <1>1
<1>3. \A x : {q \in E : g[q] = x} = {q \in E : h[q] = x}
  BY <1>1
<1>4. DirectoryHash(E, g) = DirectoryHash(E, h)
  BY <1>2, <1>3 DEF DirectoryHash
<1> QED
  BY <1>1, <1>4 DEF HashOf

\* There are hashes that fit together, so the recursion is well defined.
LEMMA HashesExist ==
  ASSUME NEW t, TreeOK(t)
  PROVE  \E h : h = [p \in Nodes(t) |-> HashOf(t, h, p)]
<1>1. PICK n \in Nat : \A p \in Nodes(t) : Len(p) <= n
  BY NodeFacts, DepthIsBounded
<1>2. \A p \in Nodes(t) : Len(p) \in 0 .. n
  BY <1>1, NodeFacts
<1> DEFINE Deep(k) == {p \in Nodes(t) : Len(p) > n - k}
           Good(k) == \E h : h = [p \in Deep(k) |-> HashOf(t, h, p)]
           G == {k \in 0 .. n + 1 : Good(k)}
<1>3. Good(0)
  <2>1. Deep(0) = {}
    BY <1>2
  <2> DEFINE h == [p \in {} |-> 0]
  <2>2. h = [p \in Deep(0) |-> HashOf(t, h, p)]
    BY <2>1
  <2> QED
    BY <2>2
<1>4. ASSUME NEW k \in 1 .. n + 1, Good(k - 1)
      PROVE  Good(k)
  <2>1. PICK g : g = [p \in Deep(k - 1) |-> HashOf(t, g, p)]
    BY <1>4
  <2> DEFINE h == [p \in Deep(k) |-> HashOf(t, g, p)]
  <2>2. \A p \in Deep(k - 1) : p \in Deep(k) /\ g[p] = HashOf(t, g, p)
    BY <1>2, <2>1
  <2>3. \A p \in Deep(k - 1) : h[p] = g[p]
    BY <2>2
  <2>4. ASSUME NEW p \in Deep(k)
        PROVE  HashOf(t, g, p) = HashOf(t, h, p)
    <3>1. ASSUME NEW q \in Entries(t, p)
          PROVE  g[q] = h[q]
      <4>1. q \in Nodes(t) /\ Len(q) = Len(p) + 1
        BY DEF Entries
      <4>2. q \in Deep(k - 1)
        BY <1>2, <4>1
      <4> QED
        BY <2>3, <4>2
    <3> HIDE DEF h
    <3> QED
      BY <3>1, HashNeedsEntries
  <2>5. h = [p \in Deep(k) |-> HashOf(t, h, p)]
    <3>1. DOMAIN h = Deep(k) /\ h = [p \in Deep(k) |-> h[p]]
      OBVIOUS
    <3>2. \A p \in Deep(k) : h[p] = HashOf(t, h, p)
      BY <2>4
    <3> HIDE DEF h, Deep
    <3> QED
      BY <3>1, <3>2
  <2> QED
    BY <2>5
<1> HIDE DEF Good
<1>5. 0 \in G /\ \A k \in 1 .. n + 1 : k - 1 \in G => k \in G
  BY <1>3, <1>4
<1>6. n + 1 \in Nat /\ n + 1 \in 0 .. n + 1 /\ \A k \in G : Good(k)
  OBVIOUS
<1> HIDE DEF G
<1>7. Good(n + 1)
  BY <1>5, <1>6, CountingUp
<1>8. Deep(n + 1) = Nodes(t)
  BY <1>2
<1> HIDE DEF Deep
<1> QED
  BY <1>7, <1>8 DEF Good

LEMMA HashEquation ==
  ASSUME NEW t, TreeOK(t)
  PROVE  /\ DOMAIN Hashes(t) = Nodes(t)
         /\ \A p \in t.dirs : Hashes(t)[p] = DirectoryHash(Entries(t, p), Hashes(t))
         /\ \A p \in FilesOf(t) : Hashes(t)[p] = t.files[p]
<1> DEFINE body(h) == [p \in Nodes(t) |-> HashOf(t, h, p)]
<1>1. \E h : h = body(h)
  BY HashesExist
<1>2. Hashes(t) = CHOOSE h : h = body(h)
  BY Zenon DEF Hashes, HashOf
<1> HIDE DEF body
<1>3. Hashes(t) = body(Hashes(t))
  BY <1>1, <1>2
<1>4. DOMAIN Hashes(t) = Nodes(t) /\ \A p \in Nodes(t) : Hashes(t)[p] = HashOf(t, Hashes(t), p)
  BY <1>3 DEF body
<1>5. /\ \A p \in t.dirs : p \in Nodes(t)
      /\ \A p \in FilesOf(t) : p \in Nodes(t) /\ p \notin t.dirs
  BY NodeFacts DEF TreeOK
<1> QED
  BY <1>4, <1>5 DEF HashOf

-----------------------------------------------------------------------------
(* Directories of the same hash hold the same contents.                    *)

\* Files and empty directories.
IsLeaf(t, p) == p \in Nodes(t) /\ Entries(t, p) = {}
LeavesFrom(t, d) == {p \in Nodes(t) : IsPrefix(d, p) /\ IsLeaf(t, p)}
Holdings(t) == [p \in Nodes(t) |-> ContentOf(t, p)]

\* What has a path below it has an entry, and is a directory.
LEMMA OnTheWay ==
  ASSUME NEW t, TreeOK(t), NEW x \in Nodes(t), NEW d \in Above(x)
  PROVE  LET e == SubSeq(x, 1, Len(d) + 1) IN
         e \in Entries(t, d) /\ IsPrefix(e, x) /\ d \in t.dirs
<1>1. x \in Seq(EntryNames) /\ Above(x) \subseteq t.dirs
  BY NodeFacts DEF TreeOK
<1>2. PICK e : e = SubSeq(x, 1, Len(d) + 1)
  OBVIOUS
<1>3. e \in Above(x) \cup {x} /\ Len(e) = Len(d) + 1 /\ IsPrefix(d, e) /\ IsPrefix(e, x)
  BY <1>1, <1>2, NextIsAbove
<1>4. e \in Nodes(t)
  BY <1>1, <1>3 DEF Nodes
<1> QED
  BY <1>1, <1>2, <1>3, <1>4 DEF Entries

\* The leaves at a directory that has entries are those at its entries.
LEMMA LeavesByEntry ==
  ASSUME NEW t, TreeOK(t), NEW d \in t.dirs, Entries(t, d) # {}
  PROVE  /\ \A x \in LeavesFrom(t, d) : SubSeq(x, 1, Len(d) + 1) \in Entries(t, d)
         /\ \A e \in Entries(t, d) : \A x :
              x \in LeavesFrom(t, e) <=> x \in LeavesFrom(t, d) /\ SubSeq(x, 1, Len(d) + 1) = e
<1>1. d \in Seq(EntryNames) /\ Nodes(t) \subseteq Seq(EntryNames)
  BY NodeFacts
<1>2. ASSUME NEW x \in LeavesFrom(t, d)
      PROVE  /\ SubSeq(x, 1, Len(d) + 1) \in Entries(t, d)
             /\ IsPrefix(SubSeq(x, 1, Len(d) + 1), x)
  <2>1. IsPrefix(d, x) /\ x \in Nodes(t) /\ x \in Seq(EntryNames) /\ Entries(t, x) = {}
    BY <1>1 DEF LeavesFrom, IsLeaf
  <2>2. d \in Above(x)
    BY <1>1, <2>1, PrefixOrAbove
  <2> QED
    BY <2>1, <2>2, OnTheWay
<1>3. ASSUME NEW e \in Entries(t, d), NEW x \in LeavesFrom(t, e)
      PROVE  x \in LeavesFrom(t, d) /\ SubSeq(x, 1, Len(d) + 1) = e
  <2>1. x \in Nodes(t) /\ IsLeaf(t, x) /\ IsPrefix(e, x) /\ x \in Seq(EntryNames)
    BY <1>1 DEF LeavesFrom
  <2>2. e \in Seq(EntryNames) /\ Len(e) = Len(d) + 1 /\ IsPrefix(d, e)
    BY <1>1 DEF Entries
  <2>3. IsPrefix(d, x) /\ e = SubSeq(x, 1, Len(d) + 1)
    BY <1>1, <2>1, <2>2, PrefixIsTransitive
  <2> QED
    BY <2>1, <2>3 DEF LeavesFrom
<1>4. ASSUME NEW e \in Entries(t, d), NEW x \in LeavesFrom(t, d), SubSeq(x, 1, Len(d) + 1) = e
      PROVE  x \in LeavesFrom(t, e)
  BY <1>2, <1>4 DEF LeavesFrom
<1> QED
  BY <1>2, <1>3, <1>4

LEMMA LeafAlone ==
  ASSUME NEW t, TreeOK(t), NEW p, IsLeaf(t, p)
  PROVE  LeavesFrom(t, p) = {p}
<1>1. p \in Nodes(t) /\ p \in Seq(EntryNames) /\ Entries(t, p) = {}
  BY NodeFacts DEF IsLeaf
<1>2. IsPrefix(p, p)
  BY <1>1, WholePath, PrefixIsBeginning
<1>3. ASSUME NEW x \in Nodes(t), IsPrefix(p, x)
      PROVE  x = p
  <2>1. x \in Seq(EntryNames)
    BY NodeFacts
  <2>2. p \in Above(x) => Entries(t, p) # {}
    BY OnTheWay
  <2> QED
    BY <1>1, <1>3, <2>1, <2>2, PrefixOrAbove
<1> QED
  BY <1>1, <1>2, <1>3 DEF LeavesFrom, IsLeaf

\* A node without entries has the hash of what it holds; one that has some is
\* no file.
LEMMA LeafFacts ==
  ASSUME NEW t, TreeOK(t), NEW p \in Nodes(t)
  PROVE  /\ Entries(t, p) = {} => Hashes(t)[p] = ContentOf(t, p)
         /\ Entries(t, p) # {} => p \in t.dirs
<1>1. ASSUME Entries(t, p) = {}, p \in t.dirs
      PROVE  Hashes(t)[p] = EmptyBag
  <2>1. Hashes(t)[p] = DirectoryHash({}, Hashes(t))
    BY <1>1, HashEquation
  <2> QED
    BY <2>1 DEF DirectoryHash, EmptyBag, SetToBag
<1>2. ASSUME NEW e \in Entries(t, p)
      PROVE  p \in t.dirs
  <2>1. /\ e \in Nodes(t) /\ e \in Seq(EntryNames) /\ p \in Seq(EntryNames)
        /\ IsPrefix(p, e) /\ Len(e) = Len(p) + 1
    BY NodeFacts DEF Entries
  <2>2. e # p
    BY <2>1
  <2>3. p \in Above(e)
    BY <2>1, <2>2, PrefixOrAbove
  <2> QED
    BY <2>1, <2>3 DEF TreeOK
<1>3. p \notin t.dirs => Hashes(t)[p] = t.files[p]
  BY HashEquation DEF Nodes
<1> QED
  BY <1>1, <1>2, <1>3 DEF ContentOf

\* One level of the tree: entries of the same hashes, what is below them matching.
LEMMA EntriesMatch ==
  ASSUME NEW t, NEW u, TreeOK(t), TreeOK(u), NEW p \in t.dirs, NEW q \in u.dirs,
         Entries(t, p) # {}, Entries(u, q) # {},
         NEW h, NEW g, Matching(Entries(t, p), Entries(u, q), h, g),
         \A d \in Entries(t, p), e \in Entries(u, q) :
           h[d] = g[e] => Matching(LeavesFrom(t, d), LeavesFrom(u, e), Holdings(t), Holdings(u))
  PROVE  Matching(LeavesFrom(t, p), LeavesFrom(u, q), Holdings(t), Holdings(u))
<1> DEFINE K == Entries(t, p)
           A == LeavesFrom(t, p)
           B == LeavesFrom(u, q)
<1>1. PICK f \in Bijection(K, Entries(u, q)) : \A d \in K : g[f[d]] = h[d]
  BY DEF Matching
<1>2. /\ f \in [K -> Entries(u, q)] /\ \A d, e \in K : f[d] = f[e] => d = e
      /\ \A e \in Entries(u, q) : \E d \in K : f[d] = e
  BY <1>1 DEF Bijection, Injection, IsInjective, Surjection
<1> DEFINE ka == [x \in A |-> SubSeq(x, 1, Len(p) + 1)]
           kb == [y \in B |-> CHOOSE d \in K : f[d] = SubSeq(y, 1, Len(q) + 1)]
<1>3. \A x \in A : ka[x] \in K
  BY LeavesByEntry
<1>4. ASSUME NEW y \in B
      PROVE  kb[y] \in K /\ f[kb[y]] = SubSeq(y, 1, Len(q) + 1)
  <2>1. SubSeq(y, 1, Len(q) + 1) \in Entries(u, q)
    BY LeavesByEntry
  <2>2. PICK e : e = SubSeq(y, 1, Len(q) + 1)
    OBVIOUS
  <2>3. \E d \in K : f[d] = e
    BY <1>2, <2>1, <2>2
  <2>4. kb[y] = CHOOSE d \in K : f[d] = e
    BY <2>2
  <2> HIDE DEF K, kb
  <2> QED
    BY <2>2, <2>3, <2>4
<1>5. ASSUME NEW d \in K
      PROVE  Matching(Fiber(A, ka, d), Fiber(B, kb, d), Holdings(t), Holdings(u))
  <2>1. f[d] \in Entries(u, q) /\ h[d] = g[f[d]]
    BY <1>1, <1>2
  <2>2. Matching(LeavesFrom(t, d), LeavesFrom(u, f[d]), Holdings(t), Holdings(u))
    BY <2>1
  <2>3. \A x : x \in LeavesFrom(t, d) <=> x \in A /\ SubSeq(x, 1, Len(p) + 1) = d
    BY LeavesByEntry
  <2>4. \A x : x \in LeavesFrom(u, f[d]) <=> x \in B /\ SubSeq(x, 1, Len(q) + 1) = f[d]
    BY <2>1, LeavesByEntry
  <2>5. LeavesFrom(t, d) = Fiber(A, ka, d)
    <3>1. \A x \in A : ka[x] = SubSeq(x, 1, Len(p) + 1)
      OBVIOUS
    <3> HIDE DEF ka, A
    <3> QED
      BY <2>3, <3>1 DEF Fiber
  <2>6. LeavesFrom(u, f[d]) = Fiber(B, kb, d)
    <3>1. \A y \in B : kb[y] = d <=> SubSeq(y, 1, Len(q) + 1) = f[d]
      <4> HIDE DEF kb
      <4> QED
        BY <1>2, <1>4
    <3> HIDE DEF kb, B
    <3> QED
      BY <2>4, <3>1 DEF Fiber
  <2> QED
    BY <2>2, <2>5, <2>6
<1> HIDE DEF ka, kb, A, B, K
<1>6. Matching(A, B, Holdings(t), Holdings(u))
  BY <1>3, <1>4, <1>5, PartsMatch
<1> QED
  BY <1>6 DEF A, B

\* Neither tree has a file that reads like a directory of the other.
NoLists(t, u) == ~HoldsList(t, u) /\ ~HoldsList(u, t)

\* A leaf and a directory that has entries have different hashes.
LEMMA LeavesStandOut ==
  ASSUME NEW t, NEW u, TreeOK(t), TreeOK(u), ~HoldsList(t, u),
         NEW x \in Nodes(t), NEW y \in Nodes(u), Entries(t, x) = {}, Entries(u, y) # {}
  PROVE  Hashes(t)[x] # Hashes(u)[y]
<1>1. y \in u.dirs /\ Hashes(t)[x] = ContentOf(t, x)
  BY LeafFacts
<1>2. CASE x \in t.dirs
  <2>1. DOMAIN Hashes(u)[y] = {Hashes(u)[p] : p \in Entries(u, y)}
    <3>1. Hashes(u)[y] = DirectoryHash(Entries(u, y), Hashes(u))
      BY <1>1, HashEquation
    <3>2. \A E, h : DOMAIN DirectoryHash(E, h) = {h[p] : p \in E}
      BY DEF DirectoryHash
    <3> QED
      BY <3>1, <3>2
  <2>2. DOMAIN EmptyBag = {}
    BY DEF EmptyBag, SetToBag
  <2> QED
    BY <1>1, <1>2, <2>1, <2>2 DEF ContentOf
<1>3. CASE x \notin t.dirs
  <2>1. x \in FilesOf(t) /\ Hashes(t)[x] = t.files[x]
    BY <1>1, <1>3 DEF Nodes, ContentOf
  <2> QED
    BY <1>1, <2>1 DEF HoldsList
<1> QED
  BY <1>2, <1>3

LEMMA EqualHashesMatch ==
  ASSUME NEW t, NEW u, TreeOK(t), TreeOK(u), NoLists(t, u), NEW p \in Nodes(t), NEW q \in Nodes(u),
         Hashes(t)[p] = Hashes(u)[q]
  PROVE  Matching(LeavesFrom(t, p), LeavesFrom(u, q), Holdings(t), Holdings(u))
<1>1. PICK n \in Nat : \A x \in Nodes(t) : Len(x) <= n
  BY NodeFacts, DepthIsBounded
<1>2. \A x \in Nodes(t) : Len(x) \in 0 .. n
  BY <1>1, NodeFacts
<1> DEFINE Match(x, y) == Matching(LeavesFrom(t, x), LeavesFrom(u, y), Holdings(t), Holdings(u))
           Good(k) == \A x \in Nodes(t), y \in Nodes(u) :
                        Len(x) > n - k /\ Hashes(t)[x] = Hashes(u)[y] => Match(x, y)
           G == {k \in 0 .. n + 1 : Good(k)}
<1>3. Good(0)
  BY <1>2
<1>4. ASSUME NEW k \in 1 .. n + 1, Good(k - 1)
      PROVE  Good(k)
  <2> SUFFICES ASSUME NEW x \in Nodes(t), NEW y \in Nodes(u), Len(x) > n - k,
                      Hashes(t)[x] = Hashes(u)[y]
               PROVE  Match(x, y)
    OBVIOUS
  <2>1. Entries(t, x) = {} <=> Entries(u, y) = {}
    BY LeavesStandOut DEF NoLists
  <2>2. CASE Entries(t, x) # {}
    <3>1. x \in t.dirs /\ y \in u.dirs /\ Entries(u, y) # {}
      BY <2>1, <2>2, LeafFacts
    <3>2. DirectoryHash(Entries(t, x), Hashes(t)) = DirectoryHash(Entries(u, y), Hashes(u))
      BY <3>1, HashEquation
    <3>3. Counts(Entries(t, x), Hashes(t)) = Counts(Entries(u, y), Hashes(u))
      BY <3>2 DEF DirectoryHash, Counts, Fiber
    <3>4. IsFiniteSet(Entries(t, x)) /\ IsFiniteSet(Entries(u, y))
      BY NodeFacts
    <3>5. Matching(Entries(t, x), Entries(u, y), Hashes(t), Hashes(u))
      BY <3>3, <3>4, CountingIsMatching
    <3>6. ASSUME NEW d \in Entries(t, x), NEW e \in Entries(u, y), Hashes(t)[d] = Hashes(u)[e]
          PROVE  Match(d, e)
      <4>1. d \in Nodes(t) /\ e \in Nodes(u) /\ Len(d) = Len(x) + 1
        BY DEF Entries
      <4>2. Len(d) > n - (k - 1)
        BY <1>2, <4>1
      <4> HIDE DEF Match
      <4> QED
        BY <1>4, <3>6, <4>1, <4>2
    <3> QED
      BY <2>2, <3>1, <3>5, <3>6, EntriesMatch
  <2>3. CASE Entries(t, x) = {}
    <3>1. IsLeaf(t, x) /\ IsLeaf(u, y)
      BY <2>1, <2>3 DEF IsLeaf
    <3>2. LeavesFrom(t, x) = {x} /\ LeavesFrom(u, y) = {y}
      BY <3>1, LeafAlone
    <3>3. Holdings(t)[x] = Holdings(u)[y]
      BY <2>1, <2>3, LeafFacts DEF Holdings
    <3> DEFINE f == [z \in {x} |-> y]
    <3>4. f \in Bijection({x}, {y})
      BY DEF Bijection, Injection, Surjection, IsInjective
    <3>5. \A z \in {x} : Holdings(u)[f[z]] = Holdings(t)[z]
      BY <3>3
    <3> QED
      BY <3>2, <3>4, <3>5 DEF Matching
  <2> QED
    BY <2>2, <2>3
<1> HIDE DEF Good
<1>5. 0 \in G /\ \A k \in 1 .. n + 1 : k - 1 \in G => k \in G
  BY <1>3, <1>4
<1>6. n + 1 \in Nat /\ n + 1 \in 0 .. n + 1 /\ \A k \in G : Good(k)
  OBVIOUS
<1> HIDE DEF G
<1>7. Good(n + 1)
  BY <1>5, <1>6, CountingUp
<1>8. Len(p) > n - (n + 1)
  BY <1>2
<1> QED
  BY <1>7, <1>8 DEF Good

LEMMA EqualHashesEqualContents ==
  ASSUME NEW t, NEW u, TreeOK(t), TreeOK(u), NoLists(t, u),
         NEW d, d \in t.dirs, d \in u.dirs, Hashes(t)[d] = Hashes(u)[d]
  PROVE  ContentsBelow(t, d) = ContentsBelow(u, d)
<1> DEFINE Below(v) == {p \in Nodes(v) : d \in Above(p) /\ Entries(v, p) = {}}
<1>1. d \in Nodes(t) /\ d \in Nodes(u) /\ d \in Seq(EntryNames)
  BY NodeFacts
<1>2. Entries(t, d) = {} <=> Entries(u, d) = {}
  BY <1>1, LeavesStandOut DEF NoLists
<1>3. ASSUME NEW v, TreeOK(v), d \in v.dirs, Entries(v, d) = {}
      PROVE  Below(v) = {}
  BY <1>3, OnTheWay
<1>4. ASSUME NEW v, TreeOK(v), d \in v.dirs, Entries(v, d) # {}
      PROVE  Below(v) = LeavesFrom(v, d)
  <2>1. ASSUME NEW p \in Nodes(v), Entries(v, p) = {}
        PROVE  d \in Above(p) <=> IsPrefix(d, p)
    <3>1. p \in Seq(EntryNames) /\ p # d
      BY <1>4, <2>1, NodeFacts
    <3>2. IsPrefix(d, p) => d \in Above(p)
      BY <1>1, <3>1, PrefixOrAbove
    <3>3. d \in Above(p) => IsPrefix(d, p)
      BY <1>1, <3>1, AboveIsPrefix
    <3> QED
      BY <3>2, <3>3
  <2> QED
    BY <2>1 DEF LeavesFrom, IsLeaf
<1>5. ASSUME NEW v
      PROVE  ContentsBelow(v, d) = Counts(Below(v), Holdings(v))
  <2>1. \A p \in Below(v) : Holdings(v)[p] = ContentOf(v, p)
    BY DEF Holdings
  <2>2. ContentsBelow(v, d) = [c \in {ContentOf(v, p) : p \in Below(v)} |->
                                 Cardinality({p \in Below(v) : ContentOf(v, p) = c})]
    BY DEF ContentsBelow
  <2> HIDE DEF Below
  <2>3. {ContentOf(v, p) : p \in Below(v)} = {Holdings(v)[p] : p \in Below(v)}
    BY <2>1
  <2>4. \A c : {p \in Below(v) : ContentOf(v, p) = c} = Fiber(Below(v), Holdings(v), c)
    BY <2>1 DEF Fiber
  <2> QED
    BY <2>2, <2>3, <2>4 DEF Counts
<1>6. Counts(Below(t), Holdings(t)) = Counts(Below(u), Holdings(u))
  <2>1. CASE Entries(t, d) = {}
    <3>1. Below(t) = {} /\ Below(u) = {}
      BY <1>2, <1>3, <2>1
    <3> HIDE DEF Below
    <3> QED
      BY <3>1 DEF Counts
  <2>2. CASE Entries(t, d) # {}
    <3>1. Below(t) = LeavesFrom(t, d) /\ Below(u) = LeavesFrom(u, d)
      BY <1>2, <1>4, <2>2
    <3>2. Matching(LeavesFrom(t, d), LeavesFrom(u, d), Holdings(t), Holdings(u))
      BY <1>1, EqualHashesMatch
    <3>3. LeavesFrom(t, d) \in SUBSET Nodes(t)
      BY DEF LeavesFrom
    <3>4. IsFiniteSet(LeavesFrom(t, d))
      BY <3>3, NodeFacts, FS_Subset
    <3> HIDE DEF Below
    <3> QED
      BY <3>1, <3>2, <3>4, MatchingIsCounting
  <2> QED
    BY <2>1, <2>2
<1> HIDE DEF Below
<1> QED
  BY <1>5, <1>6

-----------------------------------------------------------------------------
(* diff.                                                                   *)

\* The search for a path stopped above it, at a directory of both trees whose
\* hashes are equal.
StoppedAbove(t, u, p) ==
  \E d \in Above(p) : d \in t.dirs /\ d \in u.dirs /\ Hashes(t)[d] = Hashes(u)[d]

\* At equal hashes: a path whose way down is in both trees was not reached.
LEMMA NotReached ==
  ASSUME NEW t, NEW u, TreeOK(t), TreeOK(u), ~HoldsList(t, u),
         NEW p \in FilesOf(u), NEW n \in Above(p) \cup {p},
         Above(n) \subseteq Nodes(t), Above(n) \subseteq u.dirs,
         ~Reached(Hashes(t), Hashes(u), n) \/ ~Reached(Hashes(u), Hashes(t), n)
  PROVE  StoppedAbove(t, u, p)
<1>1. PICK d \in Above(n) : ~(d \in Nodes(t) \cap Nodes(u) /\ Hashes(t)[d] # Hashes(u)[d])
  <2>1. \A d \in Above(n) :
          /\ Differs(Hashes(t), Hashes(u), d) <=> d \in Nodes(t) \cap Nodes(u) /\ Hashes(t)[d] # Hashes(u)[d]
          /\ Differs(Hashes(u), Hashes(t), d) <=> d \in Nodes(t) \cap Nodes(u) /\ Hashes(t)[d] # Hashes(u)[d]
    BY HashEquation DEF Differs
  <2> QED
    BY <2>1 DEF Reached
<1>2. d \in Nodes(t) /\ d \in u.dirs /\ d \in Nodes(u) /\ p \in Nodes(u) /\ p \in Seq(EntryNames)
  BY NodeFacts
<1>3. Hashes(t)[d] = Hashes(u)[d]
  BY <1>1, <1>2
<1>5. d \in Above(p)
  BY <1>2, AboveFacts
<1>4. d \in t.dirs
  <2>1. Entries(u, d) # {}
    BY <1>2, <1>5, OnTheWay
  <2>2. Entries(t, d) # {}
    BY <1>2, <1>3, <2>1, LeavesStandOut
  <2> QED
    BY <1>2, <2>2, LeafFacts
<1> QED
  BY <1>2, <1>3, <1>4, <1>5 DEF StoppedAbove

\* What is only in u and not reported lies below such a directory, or became one.
LEMMA NewIsFound ==
  ASSUME NEW t, NEW u, TreeOK(t), TreeOK(u), ~HoldsList(t, u),
         NEW p \in FilesOf(u), p \notin FilesOf(t),
         p \notin t.dirs,
         p \notin OnlyInSecond(Hashes(t), Hashes(u), u)
  PROVE  StoppedAbove(t, u, p)
<1>1. p \in Seq(EntryNames) /\ Above(p) \subseteq u.dirs /\ p \notin Nodes(t)
  BY NodeFacts DEF TreeOK, Nodes
<1> DEFINE L == {k \in 0 .. Len(p) : SubSeq(p, 1, k) \notin Nodes(t)}
<1>2. Len(p) \in L
  <2>1. SubSeq(p, 1, Len(p)) = p /\ Len(p) \in 0 .. Len(p)
    BY <1>1, WholePath
  <2> QED
    BY <1>1, <2>1
<1>3. PICK k \in L : \A m \in L : k <= m
  <2>1. L \subseteq Nat /\ L # {}
    BY <1>2
  <2> HIDE DEF L
  <2> QED
    BY <2>1, LeastNumber
<1>4. PICK n : n = SubSeq(p, 1, k)
  OBVIOUS
<1>5. /\ k \in 0 .. Len(p) /\ n \notin Nodes(t) /\ Len(p) \in Nat
      /\ n \in Seq(EntryNames) /\ Len(n) = k
      /\ \A m \in 0 .. k : SubSeq(n, 1, m) = SubSeq(p, 1, m)
  BY <1>1, <1>4, Beginnings
<1>6. n \in Above(p) \cup {p}
  <2>1. k = Len(p) => n = p
    BY <1>1, <1>4, WholePath
  <2>2. k # Len(p) => k \in 0 .. Len(p) - 1
    BY <1>5
  <2> QED
    BY <1>4, <2>1, <2>2 DEF Above
<1>7. Above(n) \subseteq Nodes(t)
  <2> SUFFICES ASSUME NEW d \in Above(n) PROVE d \in Nodes(t)
    OBVIOUS
  <2>1. PICK m \in 0 .. k - 1 : d = SubSeq(n, 1, m)
    BY <1>5 DEF Above
  <2>2. m \in 0 .. k /\ m \in 0 .. Len(p) /\ ~(k <= m)
    BY <1>5
  <2>3. m \notin L
    BY <1>3, <2>2
  <2>4. d = SubSeq(p, 1, m)
    BY <1>5, <2>1, <2>2
  <2> QED
    BY <2>2, <2>3, <2>4
<1>8. Above(n) \subseteq u.dirs
  BY <1>1, <1>6, AboveFacts
<1>9. ~Reached(Hashes(t), Hashes(u), n)
  <2>1. n \notin DOMAIN Hashes(t)
    BY <1>5, HashEquation
  <2> QED
    BY <1>6, <2>1 DEF OnlyInSecond
<1> QED
  BY <1>1, <1>6, <1>7, <1>8, <1>9, NotReached

LEMMA ChangeIsFound ==
  ASSUME NEW t, NEW u, TreeOK(t), TreeOK(u), ~HoldsList(t, u),
         NEW p \in FilesOf(t) \cap FilesOf(u), t.files[p] # u.files[p],
         ~(Differs(Hashes(t), Hashes(u), p) /\ Reached(Hashes(t), Hashes(u), p))
  PROVE  StoppedAbove(t, u, p)
<1>1. p \in Seq(EntryNames) /\ Above(p) \subseteq u.dirs /\ Above(p) \subseteq Nodes(t)
  BY NodeFacts DEF TreeOK
<1>2. Differs(Hashes(t), Hashes(u), p)
  <2>1. p \in DOMAIN Hashes(t) \cap DOMAIN Hashes(u)
    BY HashEquation, NodeFacts
  <2>2. Hashes(t)[p] = t.files[p] /\ Hashes(u)[p] = u.files[p]
    BY HashEquation
  <2> QED
    BY <2>1, <2>2 DEF Differs
<1>3. ~Reached(Hashes(t), Hashes(u), p)
  BY <1>2
<1> QED
  BY <1>1, <1>3, NotReached

LEMMA NothingIsInvented ==
  ASSUME NEW t, NEW u, TreeOK(t), TreeOK(u)
  PROVE  /\ OnlyInSecond(Hashes(t), Hashes(u), u) \subseteq FilesOf(u) \ FilesOf(t)
         /\ \A p \in FilesOf(t) \cap FilesOf(u) :
              Differs(Hashes(t), Hashes(u), p) => t.files[p] # u.files[p]
<1>1. ASSUME NEW p \in OnlyInSecond(Hashes(t), Hashes(u), u)
      PROVE  p \in FilesOf(u) /\ p \notin FilesOf(t)
  <2>1. PICK n \in Above(p) \cup {p} : n \notin Nodes(t)
    BY HashEquation DEF OnlyInSecond
  <2>2. p \in FilesOf(t) => Above(p) \cup {p} \subseteq Nodes(t)
    BY NodeFacts DEF TreeOK
  <2> QED
    BY <2>1, <2>2 DEF OnlyInSecond
<1>2. \A p \in FilesOf(t) \cap FilesOf(u) :
        Hashes(t)[p] = t.files[p] /\ Hashes(u)[p] = u.files[p]
  BY HashEquation
<1> QED
  BY <1>1, <1>2 DEF Differs

TreesOK == TreeOK(before) /\ TreeOK(after)

\* The search goes past a change only where the contents below a directory add up.
LEMMA TreesAreCompared == TreesOK => DiffMissesMovesOnly
<1> SUFFICES ASSUME TreesOK PROVE DiffMissesMovesOnly
  OBVIOUS
<1>0. TreeOK(before) /\ TreeOK(after)
  BY DEF TreesOK
<1> DEFINE h == Hashes(before)
           g == Hashes(after)
           diff == Diff(before, after)
           old == FilesOf(before)
           new == FilesOf(after)
           changed == {p \in old \cap new : before.files[p] # after.files[p]}
<1>1. /\ diff.added = OnlyInSecond(h, g, after)
      /\ diff.deleted = OnlyInSecond(g, h, before)
      /\ diff.modified = {p \in old \cap new : Differs(h, g, p) /\ Reached(h, g, p)}
  BY DEF Diff
<1>2. diff.added \subseteq new \ old /\ diff.deleted \subseteq old \ new
  BY <1>0, <1>1, NothingIsInvented
<1>3. diff.modified \subseteq changed
  BY <1>0, <1>1, NothingIsInvented
<1>4. ASSUME NEW p, StoppedAbove(before, after, p) \/ StoppedAbove(after, before, p),
             NoLists(before, after)
      PROVE  Shuffled(p)
  <2>1. PICK d \in Above(p) : /\ d \in before.dirs /\ d \in after.dirs
                              /\ Hashes(before)[d] = Hashes(after)[d]
    BY <1>4 DEF StoppedAbove
  <2>3. ContentsBelow(before, d) = ContentsBelow(after, d)
    BY <1>0, <1>4, <2>1, EqualHashesEqualContents
  <2> QED
    BY <2>1, <2>3 DEF Shuffled
<1>5. ASSUME NEW p \in new \ old, p \notin diff.added, NoLists(before, after)
      PROVE  Reshaped(p) \/ Shuffled(p)
  <2>1. CASE p \in before.dirs
    BY <2>1 DEF Reshaped
  <2>2. CASE p \notin before.dirs
    <3>1. StoppedAbove(before, after, p)
      BY <1>0, <1>1, <1>5, <2>2, NewIsFound DEF NoLists
    <3> QED
      BY <1>4, <1>5, <3>1
  <2> QED
    BY <2>1, <2>2
<1>6. ASSUME NEW p \in old \ new, p \notin diff.deleted, NoLists(before, after)
      PROVE  Reshaped(p) \/ Shuffled(p)
  <2>1. CASE p \in after.dirs
    BY <2>1 DEF Reshaped
  <2>2. CASE p \notin after.dirs
    <3>1. StoppedAbove(after, before, p)
      BY <1>0, <1>1, <1>6, <2>2, NewIsFound DEF NoLists
    <3> QED
      BY <1>4, <1>6, <3>1
  <2> QED
    BY <2>1, <2>2
<1>7. ASSUME NEW p \in changed, p \notin diff.modified, NoLists(before, after)
      PROVE  Shuffled(p)
  <2>1. StoppedAbove(before, after, p)
    BY <1>0, <1>1, <1>7, ChangeIsFound DEF NoLists
  <2> QED
    BY <1>4, <1>7, <2>1
<1> QED
  <2> DEFINE reported == diff.added \cup diff.deleted \cup diff.modified
  <2>1. NoLists(before, after) =>
          \A p \in ((new \ old) \cup (old \ new) \cup changed) \ reported :
            Reshaped(p) \/ Shuffled(p)
    <3> HIDE DEF diff, old, new, changed
    <3> QED
      BY <1>5, <1>6, <1>7
  <2> QED
    BY <1>2, <1>3, <2>1, Zenon DEF DiffMissesMovesOnly, NoLists

LEMMA TreesInitOK == MerkleInit => TreesOK
  BY EmptyTreeOK DEF MerkleInit, TreesOK

LEMMA TreesStepOK == TreesOK /\ [MerkleNext]_merkleVars => TreesOK'
<1> SUFFICES ASSUME TreesOK, [MerkleNext]_merkleVars PROVE TreeOK(before') /\ TreeOK(after')
  BY DEF TreesOK
<1>1. TreeOK(before) /\ TreeOK(after)
  BY DEF TreesOK
<1>2. CASE before' \in Written(before) \cup Removed(before) /\ after' = after
  BY <1>1, <1>2, WrittenOK, RemovedOK
<1>3. CASE after' \in Written(after) \cup Removed(after) /\ before' = before
  BY <1>1, <1>3, WrittenOK, RemovedOK
<1>4. CASE UNCHANGED merkleVars
  BY <1>1, <1>4 DEF merkleVars
<1> QED
  BY <1>2, <1>3, <1>4 DEF MerkleNext

\* What diff reports was added, deleted or changed, and all of it is reported
\* but for contents moved below a directory, where an empty directory counts as
\* an empty file, for paths that changed their kind, and for trees of which one
\* has a file that holds the list of a directory of the other.
THEOREM MovesAloneAreMissed == MerkleSpec => []DiffMissesMovesOnly
<1>1. TreesOK /\ [MerkleNext]_merkleVars => TreesOK'
  BY TreesStepOK
<1> QED
  BY <1>1, TreesInitOK, TreesAreCompared, PTL DEF MerkleSpec
=============================================================================
