---------------------------- MODULE ArtifactStore ----------------------------
(***************************************************************************)
(* What an artifact store promises its callers, whatever backs it: a map    *)
(* from handles to contents that changes only when a submitted put commits *)
(* with exactly the bytes submitted, or when a removal that was begun takes *)
(* effect.  A restart of the process forgets the puts in flight and loses   *)
(* no committed content, except the handles whose removal was in doubt.     *)
(***************************************************************************)
CONSTANTS Handle,       \* the handles callers use
          Content,      \* the byte strings they store
          Thread,       \* the callers
          None          \* "no artifact", "no request"

VARIABLES store,        \* Handle -> Content or None: what is committed
          doubt,        \* handles whose removal was begun and may have failed
          pending       \* Thread -> the put it has submitted, or None

avars == <<store, doubt, pending>>

PutRequest == [handle : Handle, content : Content]

Init == /\ store = [h \in Handle |-> None]
        /\ doubt = {}
        /\ pending = [t \in Thread |-> None]

Submit(t, r) == /\ pending[t] = None
                /\ pending' = [pending EXCEPT ![t] = r]
                /\ UNCHANGED <<store, doubt>>

Commit(t) == /\ pending[t] # None
             /\ store' = [store EXCEPT ![pending[t].handle] = pending[t].content]
             /\ doubt' = doubt \ {pending[t].handle}
             /\ pending' = [pending EXCEPT ![t] = None]

Abort(t) == /\ pending[t] # None
            /\ pending' = [pending EXCEPT ![t] = None]
            /\ UNCHANGED <<store, doubt>>

BeginRemove(h) == /\ store[h] # None
                  /\ doubt' = doubt \cup {h}
                  /\ UNCHANGED <<store, pending>>

Remove(h) == /\ h \in doubt
             /\ store' = [store EXCEPT ![h] = None]
             /\ doubt' = doubt \ {h}
             /\ UNCHANGED pending

Restart == /\ store' = [h \in Handle |-> IF h \in doubt THEN None ELSE store[h]]
           /\ doubt' = {}
           /\ pending' = [t \in Thread |-> None]

Next == \/ \E t \in Thread : \/ \E r \in PutRequest : Submit(t, r)
                             \/ Commit(t)
                             \/ Abort(t)
        \/ \E h \in Handle : BeginRemove(h) \/ Remove(h)
        \/ Restart

Spec == Init /\ [][Next]_avars
=============================================================================
