----------------------------- MODULE ServeLifecycle -----------------------------
(***************************************************************************)
(* The shutdown of a serve loop (adapters/serve_lifecycle.py), once it has been   *)
(* requested: it drains the tasks in flight, cancels those that are late and      *)
(* flushes and closes what the server holds.  A drain and a flush may be         *)
(* cancelled themselves at each await, and called again.                     *)
(*                                                                         *)
(* A task may end by itself, be cancelled, or take a cancellation and go on; how    *)
(* it ends is the same to a drain.                                           *)
(***************************************************************************)
EXTENDS Integers, FiniteSets

CONSTANTS Task,
          Closeables,    \* how many objects a flush is given
          MaxCalls       \* bound: the drains and flushes

VARIABLES running, asked,   \* tasks that have not ended; those that were cancelled
          phase,            \* the await that the controller is in
          given, done,      \* tasks of the current drain; those that wait found ended
          drained, cancelled, errors,     \* the report
          at, method,     \* the object that flush is at, and what it calls
          calls, promised,  \* tasks of all drains that have returned
          owed,             \* how many those drains were given
          released          \* of each object, what the last flush has called

taskVars == <<running, asked>>
reportVars == <<drained, cancelled, errors>>
flushVars == <<at, method, released>>
vars == <<taskVars, phase, given, done, reportVars, flushVars, calls, promised, owed>>

Init == /\ running = Task /\ asked = {}
        /\ phase = "idle" /\ given = {} /\ done = {}
        /\ drained = 0 /\ cancelled = 0 /\ errors = 0
        /\ at = 1 /\ method = "flush" /\ released = [o \in 1..Closeables |-> {}]
        /\ calls = 0 /\ promised = {} /\ owed = 0

--------------------------------------------------------------------------------
(* Draining *)

End(t) == /\ t \in running
          /\ running' = running \ {t}
          /\ UNCHANGED <<asked, phase, given, done, reportVars, flushVars, calls,
                         promised, owed>>

Drain(S) ==
    /\ phase = "idle" /\ calls < MaxCalls /\ S # {}
    /\ calls' = calls + 1
    /\ given' = S /\ done' = {}
    /\ phase' = "waiting"
    /\ UNCHANGED <<taskVars, reportVars, flushVars, promised, owed>>

Return(finished) ==
    /\ phase' = "idle"
    /\ drained' = drained + Cardinality(finished)
    /\ cancelled' = cancelled + Cardinality(given \ finished)
    /\ promised' = promised \cup given
    /\ owed' = owed + Cardinality(given)

\* asyncio.wait ends with the last task or at the timeout: the stragglers are
\* cancelled, and awaited for as long as they take.
Late_Forgotten == {}
Late == given \cap running
Wake == /\ phase = "waiting"
        /\ done' = given \ running
        /\ IF Late = {}
           THEN Return(given \ running) /\ UNCHANGED asked
           ELSE /\ asked' = asked \cup Late
                /\ phase' = "gathering"
                /\ UNCHANGED <<drained, cancelled, promised, owed>>
        /\ UNCHANGED <<running, given, errors, flushVars, calls>>

Gathered == /\ phase \in {"gathering", "leaving"} /\ given \cap running = {}
            /\ IF phase = "gathering"
               THEN Return(done)
               ELSE phase' = "idle" /\ UNCHANGED <<drained, cancelled, promised, owed>>
            /\ UNCHANGED <<taskVars, given, done, errors, flushVars, calls>>

\* The drain is cancelled: while it waits it leaves the tasks running, while it gathers
\* it cancels them once more and leaves when they have ended.  Nothing is counted.
CancelDrain == /\ phase \in {"waiting", "gathering"}
               /\ phase' = (IF phase = "waiting" THEN "idle" ELSE "leaving")
               /\ UNCHANGED <<taskVars, given, done, reportVars, flushVars, calls,
                              promised, owed>>

--------------------------------------------------------------------------------
(* Flushing *)

Flush == /\ phase = "idle" /\ calls < MaxCalls
         /\ calls' = calls + 1
         /\ at' = 1 /\ method' = "flush"
         /\ released' = [o \in 1..Closeables |-> {}]
         /\ phase' = "flushing"
         /\ UNCHANGED <<taskVars, given, done, reportVars, promised, owed>>

\* One call of flush() or close(): it may raise, which is noted down, and the next one
\* is made all the same.
After_Broken(fails) == IF method = "flush" /\ ~fails THEN <<at, "close">> ELSE <<at + 1, "flush">>
After(fails) == IF method = "flush" THEN <<at, "close">> ELSE <<at + 1, "flush">>

Release(fails) ==
    /\ phase = "flushing"
    /\ released' = [released EXCEPT ![at] = @ \cup {method}]
    /\ errors' = errors + (IF fails THEN 1 ELSE 0)
    /\ at' = After(fails)[1]
    /\ method' = After(fails)[2]
    /\ phase' = (IF at' > Closeables THEN "idle" ELSE phase)
    /\ UNCHANGED <<taskVars, given, done, drained, cancelled, calls, promised, owed>>

\* A cancellation is no Exception: it ends the flush where it is.
CancelFlush == /\ phase = "flushing"
               /\ phase' = "idle"
               /\ UNCHANGED <<taskVars, given, done, reportVars, flushVars, calls,
                              promised, owed>>

--------------------------------------------------------------------------------
Await == Wake \/ Gathered \/ \E fails \in BOOLEAN : Release(fails)

Next == \/ \E t \in Task : End(t)
        \/ \E S \in SUBSET Task : Drain(S)
        \/ Await
        \/ CancelDrain \/ Flush \/ CancelFlush

Spec == Init /\ [][Next]_vars

\* The loop resumes what it awaits, and a task that was cancelled ends at last.
FairSpec == Spec /\ WF_vars(Await) /\ \A t \in Task : WF_vars(t \in asked /\ End(t))

--------------------------------------------------------------------------------
TypeOK ==
    /\ running \subseteq Task /\ asked \subseteq Task
    /\ phase \in {"idle", "waiting", "gathering", "leaving", "flushing"}
    /\ given \subseteq Task /\ done \subseteq given
    /\ drained \in Nat /\ cancelled \in Nat /\ errors \in 0..(2 * Closeables * MaxCalls)
    /\ at \in 1..(Closeables + 1) /\ method \in {"flush", "close"}
    /\ released \in [1..Closeables -> SUBSET {"flush", "close"}]
    /\ calls \in 0..MaxCalls /\ promised \subseteq Task /\ owed \in Nat

\* No task outlives a drain that returned, and the report counts each of its tasks
\* once (drain).
Quiet == promised \cap running = {} /\ drained + cancelled = owed

\* A flush that ran to its end has called flush and close of every object, whatever
\* raised before (flush).
AllReleased == phase = "idle" /\ at > Closeables =>
                 \A o \in 1..Closeables : released[o] = {"flush", "close"}

\* A shutdown ends if cancelled tasks do: nothing else keeps an await.
ShutdownEnds == phase # "idle" ~> phase = "idle"
================================================================================
