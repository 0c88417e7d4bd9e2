----------------------------- MODULE RetryLoop -----------------------------
(***************************************************************************)
(* ManifestStore::exec_with_retry against a database that another process  *)
(* holds for some time: a statement that finds it locked is tried again    *)
(* after a delay that doubles.  Time passes in the delays only.            *)
(***************************************************************************)
EXTENDS Integers

CONSTANTS MaxRetries, InitialDelay, MaxHeld

ASSUME RetryAssumption ==
  MaxRetries \in Nat /\ InitialDelay \in Nat \ {0} /\ MaxHeld \in Nat

VARIABLES
  attempt,      \* number of the attempt, from 0
  delay,        \* delay_ms, which does not overflow for any sensible number of retries
  elapsed,      \* time slept so far
  heldFor,      \* when the lock is released
  execOutcome   \* "none", then how the call ended

retryVars == <<attempt, delay, elapsed, heldFor, execOutcome>>

RetryInit ==
  /\ attempt = 0 /\ delay = InitialDelay /\ elapsed = 0
  /\ heldFor \in 0 .. MaxHeld
  /\ execOutcome = "none"

Locked == elapsed < heldFor

ExecSucceeds ==
  /\ execOutcome = "none" /\ ~Locked
  /\ execOutcome' = "done"
  /\ UNCHANGED <<attempt, delay, elapsed, heldFor>>

\* Fault: the delay stays what it is.
NeverDoubles ==
  /\ execOutcome = "none" /\ Locked /\ attempt < MaxRetries
  /\ attempt' = attempt + 1 /\ elapsed' = elapsed + delay
  /\ UNCHANGED <<delay, heldFor, execOutcome>>

\* Fault: the delay grows too fast.
Quadruples ==
  /\ execOutcome = "none" /\ Locked /\ attempt < MaxRetries
  /\ attempt' = attempt + 1 /\ elapsed' = elapsed + delay /\ delay' = 4 * delay
  /\ UNCHANGED <<heldFor, execOutcome>>

SleepAndRetry ==
  /\ execOutcome = "none" /\ Locked /\ attempt < MaxRetries
  /\ attempt' = attempt + 1 /\ elapsed' = elapsed + delay /\ delay' = 2 * delay
  /\ UNCHANGED <<heldFor, execOutcome>>

GiveUpLocked ==
  /\ execOutcome = "none" /\ Locked /\ attempt = MaxRetries
  /\ execOutcome' = "locked"
  /\ UNCHANGED <<attempt, delay, elapsed, heldFor>>

\* Any other error ends the loop.
ExecThrows ==
  /\ execOutcome = "none"
  /\ execOutcome' = "error"
  /\ UNCHANGED <<attempt, delay, elapsed, heldFor>>

RetryNext == ExecSucceeds \/ SleepAndRetry \/ GiveUpLocked \/ ExecThrows

RetrySpec == RetryInit /\ [][RetryNext]_retryVars

-----------------------------------------------------------------------------
PowerOfTwo[n \in Nat] == IF n = 0 THEN 1 ELSE 2 * PowerOfTwo[n - 1]

\* The lock is blamed only if it was held longer than all delays together.
GivesUpLate ==
  execOutcome = "locked" => heldFor > InitialDelay * (PowerOfTwo[MaxRetries] - 1)

\* A statement waits at most about twice as long as it has to.
WaitsInProportion ==
  execOutcome = "done" => elapsed < 2 * heldFor + InitialDelay
=============================================================================
