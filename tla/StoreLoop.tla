------------------------------- MODULE StoreLoop -------------------------------
(***************************************************************************)
(* A synchronous event log behind both bridges: to_async (async_bridge.py)    *)
(* runs each call on a worker thread under an asyncio.Lock, and to_sync       *)
(* (_async_to_sync.py) runs the resulting coroutine on the private loop       *)
(* thread of a ContextManager (_loop_thread.py), whose callers wait for it    *)
(* with a timeout.  Callers are threads; those that build hold _build_lock.   *)
(*                                                                         *)
(* A step is what the caller's thread does, the loop between two awaits, or   *)
(* a worker between two accesses to the log.  An op keeps its number; a       *)
(* caller that gives up leaves its op behind.                               *)
(***************************************************************************)
EXTENDS Integers, Sequences, FiniteSets

CONSTANTS Caller, Id, None,
          Workers,      \* threads of the loop's default executor
          MaxOps        \* bound: calls of run in a behaviour

ASSUME NoneAssumption == None \notin Caller
ASSUME BoundAssumption == Workers \in Nat \ {0} /\ MaxOps \in Nat

VARIABLES op,        \* the coroutines submitted so far, in order
          caller,    \* caller -> the op it waits for, or 0
          failed,    \* the callers whose build an error is leaving
          lock,      \* the op holding the bridge's asyncio.Lock, or 0
          loop,      \* the loop thread
          items,     \* the log: _items
          index,     \* the log: id -> its position, or 0
          builder    \* the caller holding _build_lock, or None

log == <<items, index>>
vars == <<op, caller, failed, lock, loop, items, index, builder>>

Inside == {"checking", "indexing", "adding"}
Ended == {"over", "cancelled"}
Ops == 1..Len(op)

\* An op is live until its task is cancelled under a working thread.  One that
\* has ended keeps nothing else.
NewOp(kind, id) == [at |-> "posted", kind |-> kind, id |-> id, live |-> TRUE]
End(how, live) == [at |-> how, kind |-> None, id |-> None, live |-> live]
Expired_Never(n) == FALSE
Expired(n) == \A c \in Caller : caller[c] # n

Init == /\ op = <<>>
        /\ caller = [c \in Caller |-> 0]
        /\ failed = {}
        /\ lock = 0
        /\ loop = "open"
        /\ items = <<>>
        /\ index = [id \in Id |-> 0]
        /\ builder = None

--------------------------------------------------------------------------------
(* The caller's thread *)

\* An error that a run raises leaves the build.
Fails(c) == failed' = IF builder = c THEN failed \cup {c} ELSE failed

\* run: the coroutine is posted to the loop; a closed loop refuses it.
Run(c, kind, id) ==
    /\ caller[c] = 0 /\ c \notin failed /\ Len(op) < MaxOps
    /\ IF loop = "closed"
       THEN Fails(c) /\ UNCHANGED <<op, caller>>
       ELSE /\ op' = Append(op, NewOp(kind, id))
            /\ caller' = [caller EXCEPT ![c] = Len(op) + 1]
            /\ UNCHANGED failed
    /\ UNCHANGED <<lock, loop, log, builder>>

Return(c) == /\ caller[c] # 0 /\ op[caller[c]].at \in Ended
             /\ IF op[caller[c]].at = "cancelled" THEN Fails(c) ELSE UNCHANGED failed
             /\ caller' = [caller EXCEPT ![c] = 0]
             /\ UNCHANGED <<op, lock, loop, log, builder>>

\* future.result times out; the future is cancelled and the loop will be told.
TimeOut(c) == /\ caller[c] # 0 /\ op[caller[c]].at \notin Ended
              /\ Fails(c)
              /\ caller' = [caller EXCEPT ![c] = 0]
              /\ UNCHANGED <<op, lock, loop, log, builder>>

EnterBuild(c) == /\ builder = None /\ caller[c] = 0
                 /\ builder' = c
                 /\ UNCHANGED <<op, caller, failed, lock, loop, log>>

LeaveBuild(c) == /\ builder = c /\ caller[c] = 0
                 /\ builder' = None
                 /\ failed' = failed \ {c}
                 /\ UNCHANGED <<op, caller, lock, loop, log>>

--------------------------------------------------------------------------------
(* The loop thread *)

\* The lock is handed to the op that has waited longest: tasks start in the order
\* they were posted, so that is the least one.
Heirs_Newest == {m \in Ops : op[m].at = "waiting" /\ \A k \in Ops : k > m => op[k].at # "waiting"}
Heirs == {m \in Ops : op[m].at = "waiting" /\ \A k \in 1..(m - 1) : op[k].at # "waiting"}

\* Op n becomes o, and leaves the lock if it holds it.
Leave(n, o) ==
    IF lock # n THEN op' = [op EXCEPT ![n] = o] /\ UNCHANGED lock
    ELSE \/ Heirs = {} /\ lock' = 0 /\ op' = [op EXCEPT ![n] = o]
         \/ \E m \in Heirs : lock' = m /\ op' = [op EXCEPT ![n] = o, ![m].at = "pooled"]

\* A task runs up to its first await: the lock, or the executor when the lock is free.
Start(n) ==
    /\ loop # "closed"
    /\ op[n].at = "posted" /\ \A m \in 1..(n - 1) : op[m].at # "posted"
    /\ IF lock = 0
       THEN lock' = n /\ op' = [op EXCEPT ![n].at = "pooled"]
       ELSE op' = [op EXCEPT ![n].at = "waiting"] /\ UNCHANGED lock
    /\ UNCHANGED <<caller, failed, loop, log, builder>>

\* The worker's result reaches the task.
Complete(n) == /\ loop # "closed"
               /\ op[n].at = "left"
               /\ Leave(n, End("over", TRUE))
               /\ UNCHANGED <<caller, failed, loop, log, builder>>

\* Cancelling a task leaves nothing of it, unless its worker is in the log: that
\* thread goes on without the task.
GivenUp(o) == IF o.at \in Inside THEN [o EXCEPT !.live = FALSE]
              ELSE End("cancelled", o.live)

\* The loop cancels the task of a call that timed out.
CancelTask(n) == /\ loop # "closed"
                 /\ Expired(n) /\ op[n].live /\ op[n].at \notin Ended
                 /\ Leave(n, GivenUp(op[n]))
                 /\ UNCHANGED <<caller, failed, loop, log, builder>>

\* close: every task is cancelled and awaited, then the loop stops.
Drain == /\ loop = "open"
         /\ loop' = "draining"
         /\ op' = [n \in Ops |-> IF op[n].at \in Ended THEN op[n] ELSE GivenUp(op[n])]
         /\ lock' = 0
         /\ UNCHANGED <<caller, failed, log, builder>>

Stop == /\ loop = "draining"
        /\ loop' = "closed"
        /\ UNCHANGED <<op, caller, failed, lock, log, builder>>

--------------------------------------------------------------------------------
(* A worker thread inside InMemoryEventLog *)

Take(n) == /\ op[n].at = "pooled"
           /\ Cardinality({m \in Ops : op[m].at \in Inside}) < Workers
           /\ op' = [op EXCEPT ![n].at = "checking"]
           /\ UNCHANGED <<caller, failed, lock, loop, log, builder>>

\* Nobody waits for the result of an op that was given up.
Out(n) == op' = [op EXCEPT ![n] = IF op[n].live THEN [op[n] EXCEPT !.at = "left"]
                                  ELSE End("over", FALSE)]

\* append looks for the id; get answers at once.
Check_Once(n) == /\ op[n].at = "checking"
                 /\ IF op[n].kind = "append"
                    THEN op' = [op EXCEPT ![n].at = "indexing"] ELSE Out(n)
                 /\ UNCHANGED <<caller, failed, lock, loop, log, builder>>
Check(n) == /\ op[n].at = "checking"
            /\ IF op[n].kind = "append" /\ index[op[n].id] = 0
               THEN op' = [op EXCEPT ![n].at = "indexing"] ELSE Out(n)
            /\ UNCHANGED <<caller, failed, lock, loop, log, builder>>

SetIndex(n) == /\ op[n].at = "indexing"
               /\ index' = [index EXCEPT ![op[n].id] = Len(items) + 1]
               /\ op' = [op EXCEPT ![n].at = "adding"]
               /\ UNCHANGED <<caller, failed, lock, loop, items, builder>>

AddItem(n) == /\ op[n].at = "adding"
              /\ items' = Append(items, op[n].id)
              /\ Out(n)
              /\ UNCHANGED <<caller, failed, lock, loop, index, builder>>

Call(c) == \/ \E kind \in {"append", "get"}, id \in Id : Run(c, kind, id)
           \/ EnterBuild(c)
Loop(n) == Start(n) \/ Complete(n) \/ CancelTask(n)
Work(n) == Take(n) \/ Check(n) \/ SetIndex(n) \/ AddItem(n)

Next == \/ \E c \in Caller : Call(c) \/ Return(c) \/ TimeOut(c) \/ LeaveBuild(c)
        \/ \E n \in Ops : Loop(n) \/ Work(n)
        \/ Drain \/ Stop

Spec == Init /\ [][Next]_vars

\* Time passes, the loop runs its callbacks and a build goes on; nothing is
\* assumed of the workers, which a stuck backend may keep for ever.
FairSpec == /\ Spec
            /\ \A c \in Caller : WF_vars(Return(c)) /\ WF_vars(TimeOut(c)) /\ WF_vars(LeaveBuild(c))
            /\ \A n \in 1..MaxOps : WF_vars(n \in Ops /\ Loop(n))

--------------------------------------------------------------------------------
Op == [at : {"posted", "waiting", "pooled", "left"} \cup Inside \cup Ended,
       kind : {"append", "get", None}, id : Id \cup {None}, live : BOOLEAN]

TypeOK == /\ op \in Seq(Op) /\ Len(op) <= MaxOps
          /\ caller \in [Caller -> Nat] /\ \A c \in Caller : caller[c] <= Len(op)
          /\ failed \subseteq Caller
          /\ lock \in Nat /\ lock <= Len(op)
          /\ loop \in {"open", "draining", "closed"}
          /\ items \in Seq(Id) /\ index \in [Id -> Nat]
          /\ builder \in Caller \cup {None}

\* Two threads are inside the wrapped store together only if the loop has given
\* one of their calls up (the lock of _BridgeBase._call, async_bridge.py).
LiveAlone == \A m, n \in Ops : m # n /\ op[m].at \in Inside /\ op[n].at \in Inside
                                  => ~op[m].live \/ ~op[n].live

\* Calls enter the store in the order in which run submitted them: none overtakes
\* an earlier one, unless that one was given up (FIFO of loop, lock and executor).
InTurn == \A n \in Ops : op[n].at \in Inside \cup {"left"}
             => \A m \in 1..(n - 1) : op[m].at \in Inside \cup {"left"} \cup Ended

\* The calls that live have the store one at a time, and in their order.
OneAtATime == TypeOK /\ LiveAlone /\ InTurn

\* As long as no call has been given up inside the store, the log is intact
\* whatever timed out or was cancelled elsewhere: positions are right, ids occur
\* once, and a get finds no half-made append (InMemoryEventLog is not thread-safe).
Adding(id) == \E n \in Ops : op[n].at = "adding" /\ op[n].id = id
Intact == /\ \A id \in Id : index[id] # 0 => \/ (index[id] <= Len(items) /\ items[index[id]] = id)
                                           \/ (index[id] = Len(items) + 1 /\ Adding(id))
          /\ \A i, j \in 1..Len(items) : items[i] = items[j] => i = j
          /\ \A n \in Ops : op[n].at = "checking" => \A id \in Id : ~Adding(id)
IntactUnlessGivenUp == (\A n \in Ops : op[n].live) => Intact

\* The class comment of _BridgeBase: awaits on one bridge "can never run the
\* wrapped store from two threads at once".
OneThreadInside == \A m, n \in Ops : op[m].at \in Inside /\ op[n].at \in Inside => m = n

\* A stuck backend call keeps the bridge for no longer than its timeout, although
\* its thread never returns (issue #750, _LoopThread.run).
LockFreed == \A n \in 1..MaxOps : (lock = n) ~> (lock # n \/ loop = "closed")

\* Nor does it keep _build_lock: every build ends and the next may begin.
BuildsEnd == \A c \in Caller : (builder = c) ~> (builder # c)

\* Neither lock outlives the patience of a caller.
NothingHeld == LockFreed /\ BuildsEnd
================================================================================
