--------------------------- MODULE CircuitBreaker ---------------------------
(***************************************************************************)
(* The circuit breaker for external services: services/circuit_breaker.py. *)
(*                                                                         *)
(* Its state, its two counters and the time it opened are four Redis keys, *)
(* read and written one at a time by every process's calls; a call looks   *)
(* at the state before it runs and again when it has ended.                *)
(***************************************************************************)
EXTENDS Naturals

CONSTANTS
    Calls,              \* the calls that may be in progress at the same time
    FailureThreshold,   \* failures that open the circuit
    SuccessThreshold,   \* successes that close it
    RecoveryTimeout,    \* the time before an open circuit lets a call through
    MaxCount            \* bound: how far a counter goes

ASSUME BreakerAssumption ==
    /\ FailureThreshold \in Nat \ {0} /\ SuccessThreshold \in Nat \ {0}
    /\ RecoveryTimeout \in Nat /\ MaxCount \in Nat

VARIABLES
    circuit,     \* the state key; without one the circuit is closed
    failures,    \* the failure counter
    successes,   \* the success counter
    opened,      \* time since opened_at, up to the timeout, or Unset
    call,        \* where each call is
    interrupted, \* history: a call was lost between the two SETs that open the circuit
    swept        \* history: opened_at was deleted for an earlier closing while open

breakerVars == <<circuit, failures, successes, opened, call, interrupted, swept>>

Unset == RecoveryTimeout + 1
CallSteps == {"idle", "refusing", "probe", "forget", "calling", "succeeded", "failed",
              "reset", "count", "close", "tidy", "fail", "open", "stamp",
              "reopen", "restamp", "settle"}

BreakerTypeOK ==
    /\ circuit \in {"closed", "open", "half-open"}
    /\ failures \in Nat /\ successes \in Nat
    /\ opened \in 0..Unset
    /\ call \in [Calls -> CallSteps]
    /\ interrupted \in BOOLEAN /\ swept \in BOOLEAN

BreakerInit ==
    /\ circuit = "closed"
    /\ failures = 0 /\ successes = 0
    /\ opened = Unset
    /\ call = [c \in Calls |-> "idle"]
    /\ interrupted = FALSE /\ swept = FALSE

Leave(c, from, to) == call[c] = from /\ call' = [call EXCEPT ![c] = to]
History == <<interrupted, swept>>

-----------------------------------------------------------------------------
\* call: the state is read; an open circuit is looked at again for its time.
Enter(c) ==
    /\ Leave(c, "idle", IF circuit = "open" THEN "refusing" ELSE "calling")
    /\ UNCHANGED <<circuit, failures, successes, opened, History>>

\* Refused, without a time for ever, or let through as the probe of a recovery.
ReadOpenedAt(c) ==
    /\ Leave(c, "refusing", IF opened = RecoveryTimeout THEN "probe" ELSE "idle")
    /\ UNCHANGED <<circuit, failures, successes, opened, History>>

HalfOpen(c) ==
    /\ Leave(c, "probe", "forget")
    /\ circuit' = "half-open"
    /\ UNCHANGED <<failures, successes, opened, History>>

ForgetSuccesses(c) ==
    /\ Leave(c, "forget", "calling")
    /\ successes' = 0
    /\ UNCHANGED <<circuit, failures, opened, History>>

Return(c) ==
    /\ \E outcome \in {"succeeded", "failed"} : Leave(c, "calling", outcome)
    /\ UNCHANGED <<circuit, failures, successes, opened, History>>

\* _on_success and _on_failure look at the state the circuit has by then.
OnSuccess(c) ==
    /\ Leave(c, "succeeded", CASE circuit = "half-open" -> "count"
                               [] circuit = "closed"    -> "reset"
                               [] circuit = "open"      -> "idle")
    /\ UNCHANGED <<circuit, failures, successes, opened, History>>

OnFailure(c) ==
    /\ Leave(c, "failed", CASE circuit = "half-open" -> "reopen"
                            [] circuit = "closed"    -> "fail"
                            [] circuit = "open"      -> "idle")
    /\ UNCHANGED <<circuit, failures, successes, opened, History>>

ResetFailures(c) ==
    /\ Leave(c, "reset", "idle")
    /\ failures' = 0
    /\ UNCHANGED <<circuit, successes, opened, History>>

CountSuccess(c) ==
    /\ successes < MaxCount
    /\ successes' = successes + 1
    /\ Leave(c, "count", IF successes' >= SuccessThreshold THEN "close" ELSE "idle")
    /\ UNCHANGED <<circuit, failures, opened, History>>

Close(c) ==
    /\ Leave(c, "close", "tidy")
    /\ circuit' = "closed"
    /\ UNCHANGED <<failures, successes, opened, History>>

\* The keys of the time before are deleted, whatever the circuit is by now.
Tidy(c) ==
    /\ Leave(c, "tidy", "idle")
    /\ failures' = 0 /\ successes' = 0
    /\ opened' = Unset
    /\ swept' = (circuit = "open")
    /\ UNCHANGED <<circuit, interrupted>>

CountFailure(c) ==
    /\ failures < MaxCount
    /\ failures' = failures + 1
    /\ Leave(c, "fail", IF failures' >= FailureThreshold THEN "open" ELSE "idle")
    /\ UNCHANGED <<circuit, successes, opened, History>>

\* The state is set first.
Open(c) ==
    /\ Leave(c, "open", "stamp") \/ Leave(c, "reopen", "restamp")
    /\ circuit' = "open"
    /\ UNCHANGED <<failures, successes, opened, History>>

\* Mutant: the time is not set.
StampNever(c) ==
    /\ Leave(c, "stamp", "idle") \/ Leave(c, "restamp", "settle")
    /\ UNCHANGED <<circuit, failures, successes, opened, History>>

Stamp(c) ==
    /\ Leave(c, "stamp", "idle") \/ Leave(c, "restamp", "settle")
    /\ opened' = 0
    /\ interrupted' = FALSE /\ swept' = FALSE
    /\ UNCHANGED <<circuit, failures, successes>>

Settle(c) ==
    /\ Leave(c, "settle", "idle")
    /\ successes' = 0
    /\ UNCHANGED <<circuit, failures, opened, History>>

\* Redis fails while a success is recorded: the call is then recorded as a failure.
RecordAsFailure(c) ==
    /\ call[c] \in {"succeeded", "reset", "count", "close", "tidy"}
    /\ call' = [call EXCEPT ![c] = "failed"]
    /\ UNCHANGED <<circuit, failures, successes, opened, History>>

\* A process is lost, or Redis fails: what the call had yet to write is not written.
LoseCall(c) ==
    /\ call[c] # "idle"
    /\ interrupted' = (interrupted \/ call[c] \in {"stamp", "restamp"})
    /\ call' = [call EXCEPT ![c] = "idle"]
    /\ UNCHANGED <<circuit, failures, successes, opened, swept>>

\* The failure counter's five minutes are over.
ForgetFailures ==
    /\ failures > 0
    /\ failures' = 0
    /\ UNCHANGED <<circuit, successes, opened, call, History>>

Wait ==
    /\ opened < RecoveryTimeout
    /\ opened' = opened + 1
    /\ UNCHANGED <<circuit, failures, successes, call, History>>

BreakerNext ==
    \/ \E c \in Calls :
          \/ Enter(c) \/ ReadOpenedAt(c) \/ HalfOpen(c) \/ ForgetSuccesses(c)
          \/ Return(c) \/ OnSuccess(c) \/ OnFailure(c) \/ ResetFailures(c)
          \/ CountSuccess(c) \/ Close(c) \/ Tidy(c)
          \/ CountFailure(c) \/ Open(c) \/ Stamp(c) \/ Settle(c)
          \/ RecordAsFailure(c) \/ LoseCall(c)
    \/ ForgetFailures
    \/ Wait

BreakerSpec == BreakerInit /\ [][BreakerNext]_breakerVars

-----------------------------------------------------------------------------
(* Properties                                                              *)

\* An open circuit without a time, which refuses every call for ever, is about to get
\* its time, or the call that opened it was lost between its two SETs, or a call that
\* had closed the circuit before deleted the time with the other keys.
StuckOpenExplained ==
    circuit = "open" /\ opened = Unset =>
       interrupted \/ swept \/ \E c \in Calls : call[c] \in {"stamp", "restamp"}
=============================================================================
