-------------------------------- MODULE LlmGuard --------------------------------
(***************************************************************************)
(* GuardedCallFn (extras/llm_guard.py): a call cap and a circuit breaker       *)
(* around the callable that asks a model.  It has no lock, and an engine's     *)
(* worker threads may share it, so a caller's thread may stop after any call   *)
(* it makes: a step goes from one such point to the next.  The hard timeout is *)
(* one way for a call to fail; the thread it abandons touches nothing here.    *)
(***************************************************************************)
EXTENDS Integers, Sequences, FiniteSets

CONSTANTS Caller, None,
          CallCap,       \* max_calls
          Threshold,     \* circuit_breaker_threshold
          Cooldown,      \* circuit_breaker_cooldown_seconds
          MaxTime        \* bound: the clock stops here

VARIABLES time,          \* the injected clock
          attempted,     \* stats.calls_attempted
          streak,        \* _consecutive_failures
          open,          \* stats.circuit_open
          openedAt,      \* _opened_at, or None
          caller,        \* caller -> where its call stands, and the time it has read
          outcomes,      \* the last Threshold outcomes, TRUE for a failure (history)
          tripped,       \* when the circuit last opened or opened again, or None (history)
          since          \* calls dispatched through the open circuit since then (history)

vars == <<time, attempted, streak, open, openedAt, caller, outcomes, tripped, since>>

Idle == [at |-> "idle", read |-> None]

Init == /\ time = 0
        /\ attempted = 0
        /\ streak = 0
        /\ open = FALSE
        /\ openedAt = None
        /\ caller = [c \in Caller |-> Idle]
        /\ outcomes = <<>>
        /\ tripped = None
        /\ since = 0

At(c, a) == caller[c].at = a
Goes(c, a) == caller' = [caller EXCEPT ![c] = [Idle EXCEPT !.at = a]]

--------------------------------------------------------------------------------
\* _check_cap: past it when fewer calls were attempted; a rejected call is over.
CheckCap(c) == /\ At(c, "idle") /\ attempted < CallCap
               /\ Goes(c, "capped")
               /\ UNCHANGED <<time, attempted, streak, open, openedAt, outcomes, tripped, since>>

ReadClock(c) == /\ At(c, "capped")
                /\ caller' = [caller EXCEPT ![c] = [at |-> "timed", read |-> time]]
                /\ UNCHANGED <<time, attempted, streak, open, openedAt, outcomes, tripped, since>>

\* _check_circuit: an open circuit rejects until its cooldown is over.
Rejects(c) == /\ open /\ openedAt # None
              /\ Cooldown - (caller[c].read - openedAt) > 0
CheckCircuit(c) == /\ At(c, "timed")
                   /\ Goes(c, IF Rejects(c) THEN "idle" ELSE "cleared")
                   /\ UNCHANGED <<time, attempted, streak, open, openedAt, outcomes, tripped, since>>

Dispatch(c) == /\ At(c, "cleared")
               /\ attempted' = attempted + 1
               /\ since' = IF open THEN since + 1 ELSE since
               /\ Goes(c, "calling")
               /\ UNCHANGED <<time, streak, open, openedAt, outcomes, tripped>>

Recorded(failure) ==
    LET all == Append(outcomes, failure)
    IN IF Len(all) > Threshold THEN Tail(all) ELSE all

\* _record_failure, up to its call of the clock.
Trips_Later == streak' > Threshold
Trips == streak' >= Threshold
RecordFailure(c) == /\ At(c, "calling")
                    /\ streak' = streak + 1
                    /\ outcomes' = Recorded(TRUE)
                    /\ open' = (open \/ Trips)
                    /\ Goes(c, IF Trips THEN "opening" ELSE "idle")
                    /\ UNCHANGED <<time, attempted, openedAt, tripped, since>>

\* A failure while the circuit is open gives it a fresh cooldown.
SetOpenedAt_Once(c) == /\ At(c, "opening")
                       /\ openedAt' = IF openedAt = None THEN time ELSE openedAt
                       /\ tripped' = time
                       /\ since' = 0
                       /\ Goes(c, "idle")
                       /\ UNCHANGED <<time, attempted, streak, open, outcomes>>
SetOpenedAt(c) == /\ At(c, "opening")
                  /\ openedAt' = time
                  /\ tripped' = time
                  /\ since' = 0
                  /\ Goes(c, "idle")
                  /\ UNCHANGED <<time, attempted, streak, open, outcomes>>

\* _record_success closes the circuit.
RecordSuccess(c) == /\ At(c, "calling")
                    /\ streak' = 0
                    /\ outcomes' = Recorded(FALSE)
                    /\ open' = FALSE
                    /\ openedAt' = IF open THEN None ELSE openedAt
                    /\ tripped' = None
                    /\ Goes(c, "idle")
                    /\ UNCHANGED <<time, attempted, since>>

Pass == /\ time < MaxTime
        /\ time' = time + 1
        /\ UNCHANGED <<attempted, streak, open, openedAt, caller, outcomes, tripped, since>>

Call(c) == \/ CheckCap(c) \/ ReadClock(c) \/ CheckCircuit(c) \/ Dispatch(c)
           \/ RecordFailure(c) \/ SetOpenedAt(c) \/ RecordSuccess(c)

Next == (\E c \in Caller : Call(c)) \/ Pass

Spec == Init /\ [][Next]_vars

\* GuardPolicy.__post_init__
GuardConstants == /\ CallCap \in Nat \ {0} /\ Threshold \in Nat \ {0} /\ Cooldown \in Nat
                  /\ IsFiniteSet(Caller) /\ None \notin Nat

--------------------------------------------------------------------------------
\* A guard that threads share overruns its limits by the calls that were past a
\* check and no more: max_calls by one less than the callers, and an open
\* circuit, opened anew by a failed trial, lets as few through in its cooldown.
OverrunBounded ==
    /\ attempted < CallCap + Cardinality(Caller)
    /\ open /\ tripped # None /\ time - tripped < Cooldown => since < Cardinality(Caller)

\* The circuit is open exactly while the last circuit_breaker_threshold outcomes
\* were failures, in whatever order the callers report them; rejected calls do
\* not count.
OpenOnStreak ==
    open <=> /\ Len(outcomes) = Threshold
             /\ \A i \in 1..Len(outcomes) : outcomes[i]

GuardHolds == OverrunBounded /\ OpenOnStreak

\* "one half-open trial call is admitted" (class comment of GuardedCallFn): it
\* does not hold for callers that find the cooldown over together.
OneTrial == open /\ openedAt # None =>
               Cardinality({c \in Caller : caller[c].at = "calling"}) <= 1
================================================================================
