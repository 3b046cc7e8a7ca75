------------------------- MODULE StoreLoopProofs --------------------------
(***************************************************************************)
(* Calls to stores that are asynchronous: the loop thread that runs them    *)
(* (StoreLoop).                                                            *)
(*                                                                         *)
(* The calls that live have the wrapped store one at a time and in their order, *)
(* and damage to the log takes a call that was given up inside it.         *)
(***************************************************************************)
EXTENDS StoreLoop, SequenceTheorems, FiniteSetTheorems, WellFoundedInduction, TLAPS

--------------------------------------------------------------------------------
(* Types *)

\* The last conjunct of the type invariant that an action needs: an op that has not
\* ended is a call with an id.
Called == \A n \in Ops : op[n].at \notin Ended => op[n].id \in Id

LEMMA OpTypes ==
    /\ \A kind \in {"append", "get"}, id \in Id : NewOp(kind, id) \in Op
    /\ \A how \in Ended, live \in BOOLEAN : End(how, live) \in Op
    /\ \A o \in Op : GivenUp(o) \in Op
BY DEF NewOp, End, GivenUp, Op, Inside, Ended

\* Replacing one op, or one op and moving another, leaves a sequence of ops.
LEMMA OneReplaced ==
    ASSUME op \in Seq(Op), NEW n \in Ops, NEW o \in Op, op' = [op EXCEPT ![n] = o]
    PROVE  /\ op' \in Seq(Op) /\ Len(op') = Len(op) /\ Ops' = Ops
           /\ \A k \in Ops : op'[k] = IF k = n THEN o ELSE op[k]
BY DEF Ops

LEMMA Moved ==
    ASSUME NEW o \in Op, NEW a \in {"posted", "waiting", "pooled", "left"} \cup Inside
    PROVE  [o EXCEPT !.at = a] \in Op
BY DEF Op

LEMMA LeastNatural == ASSUME NEW S \in SUBSET Nat, S # {}
                      PROVE  \E m \in S : \A k \in S : m <= k
<1>1. PICK m \in S : \A k \in S : ~(<<k, m>> \in OpToRel(<, Nat))
  BY NatLessThanWellFounded, WFMin
<1>2. \A k \in S : ~(k < m)
  BY <1>1 DEF OpToRel
<1> QED  BY <1>2

\* Whoever waits, one of those who do is next.
LEMMA HeirWaits == ASSUME Heirs = {} PROVE \A n \in Ops : op[n].at # "waiting"
<1> SUFFICES ASSUME NEW n \in Ops, op[n].at = "waiting" PROVE FALSE
  OBVIOUS
<1> DEFINE W == {k \in Ops : op[k].at = "waiting"}
<1>1. W \in SUBSET Nat /\ W # {}
  BY DEF Ops
<1>2. PICK m \in W : \A k \in W : m <= k
  <2> HIDE DEF W
  <2> QED  BY <1>1, LeastNatural
<1> QED  BY <1>2 DEF Heirs, Ops

\* What Leave does to the ops and the lock: the heir is another op.
LEMMA LeaveEffect ==
    ASSUME op \in Seq(Op), lock \in Nat, NEW n \in Ops, NEW o \in Op,
           lock = n => op[n].at # "waiting", Leave(n, o)
    PROVE  /\ op' \in Seq(Op) /\ Len(op') = Len(op) /\ Ops' = Ops
           /\ \/ /\ (lock' = lock /\ lock # n) \/ (lock' = 0 /\ lock = n /\ Heirs = {})
                 /\ \A k \in Ops : op'[k] = IF k = n THEN o ELSE op[k]
              \/ \E m \in Heirs \ {n} :
                    /\ lock = n /\ lock' = m
                    /\ \A k \in Ops : op'[k] = IF k = m THEN [op[m] EXCEPT !.at = "pooled"]
                                               ELSE IF k = n THEN o ELSE op[k]
<1>1. CASE lock # n
  BY <1>1, OneReplaced DEF Leave
<1>2. CASE lock = n /\ Heirs = {} /\ lock' = 0 /\ op' = [op EXCEPT ![n] = o]
  BY <1>2, OneReplaced
<1>3. CASE lock = n /\ \E m \in Heirs : lock' = m /\ op' = [op EXCEPT ![n] = o, ![m].at = "pooled"]
  <2>1. PICK m \in Heirs : lock' = m /\ op' = [op EXCEPT ![n] = o, ![m].at = "pooled"]
    BY <1>3
  <2>2. m \in Ops \ {n} /\ op[m] \in Op
    BY <1>3 DEF Heirs, Ops
  <2> DEFINE p == [op EXCEPT ![n] = o]
             w == [op[m] EXCEPT !.at = "pooled"]
  <2>3. p \in Seq(Op) /\ Len(p) = Len(op) /\ \A k \in Ops : p[k] = IF k = n THEN o ELSE op[k]
    BY DEF Ops
  <2>4. op' = [p EXCEPT ![m] = w]
    BY <2>1, <2>2 DEF Ops
  <2>5. w \in Op
    BY <2>2, Moved
  <2>6. op' \in Seq(Op) /\ Len(op') = Len(op)
        /\ \A k \in Ops : op'[k] = IF k = m THEN w ELSE p[k]
    <3> HIDE DEF p, w
    <3> QED  BY <2>2, <2>3, <2>4, <2>5 DEF Ops
  <2>7. \A k \in Ops : op'[k] = IF k = m THEN w ELSE IF k = n THEN o ELSE op[k]
    BY <2>2, <2>3, <2>6
  <2> QED  BY <1>3, <2>1, <2>2, <2>6, <2>7 DEF Ops
<1> QED  BY <1>1, <1>2, <1>3 DEF Leave

--------------------------------------------------------------------------------
(* Turns: who holds the lock, and who is behind whom *)

Holding == {"pooled", "left"} \cup Inside

\* The op that has the lock is in the executor and lives.
HolderLives == lock # 0 => op[lock].at \in Holding /\ op[lock].live

\* A live op in the executor has the lock.
OnlyHolder == \A n \in Ops : op[n].at \in Holding /\ op[n].live => lock = n

\* Only a worker's op, and what is left of it, may have been given up.
LiveUntilInside == \A n \in Ops : op[n].at \notin Inside \cup Ended => op[n].live

\* Posted ops are behind those that started, waiting ones behind those that have
\* had the lock, and one that has it behind those that are in the log without it.
PostedBehind == \A m, n \in Ops :
    op[m].at = "posted" /\ op[n].at \in Holding \cup {"waiting"} => n < m
WaitingBehind == \A m, n \in Ops : op[m].at = "waiting" /\ op[n].at \in Holding => n < m
PooledBehind == \A m, n \in Ops : op[m].at = "pooled" /\ op[n].at \in Inside => n < m

\* Nobody waits for a lock that is free.
NoneWaitsFree == lock = 0 => \A n \in Ops : op[n].at # "waiting"

Turns == /\ HolderLives /\ OnlyHolder /\ LiveUntilInside /\ NoneWaitsFree
         /\ PostedBehind /\ WaitingBehind /\ PooledBehind

TypeInv == TypeOK /\ Called

LEMMA InitTypes == Init => TypeInv
BY BoundAssumption DEF Init, TypeInv, TypeOK, Called, Ops

LEMMA InitTurns == Init => Turns
BY DEF Init, Turns, HolderLives, OnlyHolder, LiveUntilInside, NoneWaitsFree, PostedBehind, WaitingBehind,
       PooledBehind, Ops

\* A step of a worker changes one op, and not the lock.
LEMMA WorkEffect ==
    ASSUME TypeInv, NEW n \in Ops, Work(n)
    PROVE  /\ lock' = lock
           /\ op' \in Seq(Op) /\ Len(op') = Len(op) /\ Ops' = Ops
           /\ \A k \in Ops \ {n} : op'[k] = op[k]
           /\ \/ /\ op[n].at = "pooled" /\ op'[n].at = "checking"
                 /\ op'[n].id = op[n].id /\ op'[n].live = op[n].live
              \/ /\ op[n].at \in Inside
                 /\ op'[n].at \in Inside \cup {"left"} /\ (op'[n].at = "left" => op[n].live)
                 /\ op'[n].id = op[n].id /\ op'[n].live = op[n].live
              \/ /\ op[n].at \in Inside /\ ~op[n].live
                 /\ op'[n].at = "over" /\ ~op'[n].live
           /\ Take(n) => op'[n].at = "checking"
           /\ Check(n) => /\ op[n].at = "checking" /\ op'[n].at \in {"indexing", "left", "over"}
                          /\ op'[n].at = "indexing" => index[op[n].id] = 0
           /\ SetIndex(n) => op[n].at = "indexing" /\ op'[n].at = "adding"
           /\ AddItem(n) => op[n].at = "adding" /\ op'[n].at \in {"left", "over"}
<1> DEFINE step(a) == [op[n] EXCEPT !.at = a]
           out == IF op[n].live THEN step("left") ELSE End("over", FALSE)
           o == IF Take(n) THEN step("checking")
                ELSE IF Check(n) /\ op[n].kind = "append" /\ index[op[n].id] = 0 THEN step("indexing")
                ELSE IF SetIndex(n) THEN step("adding")
                ELSE out
<1>1. op[n] \in Op /\ op \in Seq(Op)
  BY DEF TypeInv, TypeOK, Ops
<1>2. \A a \in {"left"} \cup Inside :
        /\ step(a) \in Op /\ step(a).at = a
        /\ step(a).id = op[n].id /\ step(a).live = op[n].live
  BY <1>1 DEF Op
<1>3. End("over", FALSE) \in Op /\ End("over", FALSE).at = "over" /\ ~End("over", FALSE).live
  BY OpTypes DEF End, Ended
<1>4. /\ Take(n) => op[n].at = "pooled"
      /\ Check(n) => op[n].at = "checking"
      /\ SetIndex(n) => op[n].at = "indexing"
      /\ AddItem(n) => op[n].at = "adding"
  BY DEF Take, Check, SetIndex, AddItem
<1>5. op' = [op EXCEPT ![n] = o] /\ lock' = lock
  <2>1. Take(n) => op' = [op EXCEPT ![n] = step("checking")]
    BY DEF Take
  <2>2. Check(n) => op' = [op EXCEPT ![n] = IF op[n].kind = "append" /\ index[op[n].id] = 0
                                            THEN step("indexing") ELSE out]
    BY DEF Check, Out
  <2>3. SetIndex(n) => op' = [op EXCEPT ![n] = step("adding")]
    BY DEF SetIndex
  <2>4. AddItem(n) => op' = [op EXCEPT ![n] = out]
    BY DEF AddItem, Out
  <2>5. lock' = lock
    BY DEF Work, Take, Check, SetIndex, AddItem
  <2> HIDE DEF step, out
  <2> QED  BY <1>4, <2>1, <2>2, <2>3, <2>4, <2>5 DEF Work
<1> HIDE DEF step
<1>6. o \in Op
  BY <1>2, <1>3 DEF Inside
<1>7. /\ op' \in Seq(Op) /\ Len(op') = Len(op) /\ Ops' = Ops
      /\ \A k \in Ops \ {n} : op'[k] = op[k]
      /\ op'[n] = o
  <2> HIDE DEF o
  <2>1. op' = [op EXCEPT ![n] = o]
    BY <1>5
  <2>2. /\ op' \in Seq(Op) /\ Len(op') = Len(op) /\ Ops' = Ops
        /\ \A k \in Ops : op'[k] = IF k = n THEN o ELSE op[k]
    BY <1>1, <1>6, <2>1, OneReplaced
  <2> QED  BY <2>2
<1> DEFINE x == op'[n]
<1>8. CASE Take(n)
  <2>1. x = step("checking") /\ ~Check(n) /\ ~SetIndex(n) /\ ~AddItem(n)
    BY <1>4, <1>7, <1>8
  <2> HIDE DEF x
  <2>2. x.at = "checking" /\ x.id = op[n].id /\ x.live = op[n].live /\ op[n].at = "pooled"
    BY <1>2, <1>4, <1>8, <2>1 DEF Inside
  <2> QED  BY <1>5, <1>7, <2>1, <2>2 DEF x
<1>9. ASSUME op[n].at \in Inside, x = out
      PROVE  \/ x.at = "left" /\ x.id = op[n].id /\ x.live = op[n].live /\ op[n].live
             \/ x.at = "over" /\ ~x.live /\ ~op[n].live
  BY <1>2, <1>3, <1>9
<1>10. CASE Check(n)
  <2>1. /\ ~Take(n) /\ ~SetIndex(n) /\ ~AddItem(n) /\ op[n].at = "checking"
        /\ x = IF op[n].kind = "append" /\ index[op[n].id] = 0 THEN step("indexing") ELSE out
    BY <1>4, <1>7, <1>10
  <2> HIDE DEF x, out
  <2>2. \/ x = step("indexing") /\ index[op[n].id] = 0
        \/ x = out
    BY <2>1
  <2>3. \/ /\ x.at = "indexing" /\ x.id = op[n].id /\ x.live = op[n].live
           /\ index[op[n].id] = 0
        \/ x.at = "left" /\ x.id = op[n].id /\ x.live = op[n].live /\ op[n].live
        \/ x.at = "over" /\ ~x.live /\ ~op[n].live
    BY <1>2, <1>9, <2>1, <2>2 DEF Inside
  <2> QED  BY <1>5, <1>7, <2>1, <2>3 DEF x, Inside
<1>11. CASE SetIndex(n)
  <2>1. ~Take(n) /\ ~Check(n) /\ ~AddItem(n) /\ op[n].at = "indexing" /\ x = step("adding")
    BY <1>4, <1>7, <1>11
  <2> HIDE DEF x
  <2>2. x.at = "adding" /\ x.id = op[n].id /\ x.live = op[n].live
    BY <1>2, <2>1 DEF Inside
  <2> QED  BY <1>5, <1>7, <2>1, <2>2 DEF x, Inside
<1>12. CASE AddItem(n)
  <2>1. ~Take(n) /\ ~Check(n) /\ ~SetIndex(n) /\ op[n].at = "adding" /\ x = out
    BY <1>4, <1>7, <1>12
  <2> HIDE DEF x, out
  <2>2. \/ x.at = "left" /\ x.id = op[n].id /\ x.live = op[n].live /\ op[n].live
        \/ x.at = "over" /\ ~x.live /\ ~op[n].live
    BY <1>9, <2>1 DEF Inside
  <2> QED  BY <1>5, <1>7, <2>1, <2>2 DEF x, Inside
<1> QED  BY <1>8, <1>10, <1>11, <1>12 DEF Work

LEMMA WorkTurns == ASSUME TypeInv, Turns, NEW w \in Ops, Work(w) PROVE Turns'
<1> DEFINE o == op'[w]
<1>1. op[w] \in Op
  BY DEF TypeInv, TypeOK, Ops
<1>2. lock' = lock /\ Ops' = Ops /\ \A k \in Ops : op'[k] = IF k = w THEN o ELSE op[k]
  BY WorkEffect
<1>3. /\ op[w].at = "pooled" \/ op[w].at \in Inside
      /\ o.at \in Inside \cup {"left"} \/ (o.at = "over" /\ ~op[w].live)
      /\ o.at # "over" => o.live = op[w].live
      /\ o.at = "left" => o.live
  BY WorkEffect DEF Inside
<1>4. /\ o.at \in Holding \/ (o.at \in Ended /\ ~op[w].live)
      /\ o.at \in Holding => o.live = op[w].live /\ o.at # "pooled"
      /\ op[w].at \in Holding
      /\ op[w].at = "pooled" \/ op[w].at \in Inside
      /\ o.at = "left" => o.live
  BY <1>3 DEF Inside, Holding, Ended
<1> HIDE DEF o
<1> USE DEF Turns, HolderLives, OnlyHolder, LiveUntilInside, NoneWaitsFree, PostedBehind, WaitingBehind,
            PooledBehind
<1>5. HolderLives'
  <2>1. lock # 0 => lock \in Ops
    BY DEF TypeInv, TypeOK, Ops
  <2> QED  BY <1>2, <1>4, <2>1
<1>9. OnlyHolder' /\ NoneWaitsFree'
  BY <1>2, <1>4 DEF Holding, Inside, Ended
<1>6. LiveUntilInside'
  BY <1>2, <1>4 DEF Holding, Inside, Ended
<1>7. PostedBehind' /\ WaitingBehind'
  BY <1>2, <1>4 DEF Holding, Inside, Ended
<1>8. PooledBehind'
  BY <1>2, <1>3, <1>4 DEF Holding, Inside, Ended, TypeInv, TypeOK, Ops
<1> QED  BY <1>5, <1>9, <1>6, <1>7, <1>8

\* An op leaves the lock: it has ended, or lives no longer.
LEMMA LeaveTurns ==
    ASSUME TypeInv, Turns, NEW x \in Ops, NEW o \in Op, Leave(x, o),
           \/ o.at \in Ended
           \/ o.at \in Inside /\ o.at = op[x].at /\ ~o.live
    PROVE  Turns'
<1> USE DEF Turns
<1>1. /\ lock = x => op[x].at \in Holding /\ op[x].live /\ op[x].at # "waiting"
      /\ op \in Seq(Op) /\ lock \in Nat
  BY DEF HolderLives, TypeInv, TypeOK, Ops, Holding, Inside
<1>2. o.at \in Holding => ~o.live /\ o.at \in Inside /\ op[x].at = o.at
  BY DEF Holding, Inside, Ended
<1>3. o.at \notin {"posted", "waiting", "pooled", "left"}
  BY DEF Inside, Ended
<1>4. Ops' = Ops
  BY <1>1, LeaveEffect
<1>5. CASE /\ (lock' = lock /\ lock # x) \/ (lock' = 0 /\ lock = x /\ Heirs = {})
           /\ \A k \in Ops : op'[k] = IF k = x THEN o ELSE op[k]
  <2>1. HolderLives'
    BY <1>5 DEF HolderLives, TypeInv, TypeOK, Ops
  <2>2. OnlyHolder' /\ LiveUntilInside'
    BY <1>2, <1>3, <1>4, <1>5 DEF OnlyHolder, LiveUntilInside, Op
  <2>3. PostedBehind' /\ WaitingBehind' /\ PooledBehind'
    BY <1>2, <1>3, <1>4, <1>5 DEF PostedBehind, WaitingBehind, PooledBehind, Holding, Inside
  <2>4. NoneWaitsFree'
    BY <1>3, <1>4, <1>5, HeirWaits DEF NoneWaitsFree
  <2> QED  BY <2>1, <2>2, <2>3, <2>4
<1>6. CASE \E m \in Heirs \ {x} :
              /\ lock = x /\ lock' = m
              /\ \A k \in Ops : op'[k] = IF k = m THEN [op[m] EXCEPT !.at = "pooled"]
                                         ELSE IF k = x THEN o ELSE op[k]
  <2>1. PICK m \in Heirs \ {x} :
              /\ lock = x /\ lock' = m
              /\ \A k \in Ops : op'[k] = IF k = m THEN [op[m] EXCEPT !.at = "pooled"]
                                         ELSE IF k = x THEN o ELSE op[k]
    BY <1>6
  <2>2. /\ m \in Ops /\ op[m].at = "waiting" /\ op[m] \in Op
        /\ \A k \in Ops : op[k].at = "waiting" => m <= k
    BY DEF Heirs, TypeInv, TypeOK, Ops
  <2>3. op'[m].at = "pooled" /\ op'[m].live = op[m].live /\ op[m].live
    BY <2>1, <2>2 DEF LiveUntilInside, Op, Inside, Ended
  <2>4. \A k \in Ops \ {m} : op'[k] = IF k = x THEN o ELSE op[k]
    BY <2>1
  <2>5. HolderLives' /\ NoneWaitsFree'
    BY <1>4, <2>1, <2>2, <2>3 DEF HolderLives, NoneWaitsFree, Holding, Ops
  <2>10. LiveUntilInside'
    BY <1>3, <1>4, <2>3, <2>4 DEF LiveUntilInside, Inside, Ended
  <2>6. OnlyHolder'
    BY <1>2, <1>4, <2>1, <2>4 DEF OnlyHolder
  <2>7. PostedBehind'
    BY <1>2, <1>3, <1>4, <2>2, <2>3, <2>4 DEF PostedBehind, Holding, Inside
  <2>8. WaitingBehind'
    <3> SUFFICES ASSUME NEW a \in Ops, NEW b \in Ops, op'[a].at = "waiting", op'[b].at \in Holding
                 PROVE  b < a
      BY <1>4 DEF WaitingBehind
    <3>1. a # m /\ a # x /\ op[a].at = "waiting"
      BY <1>3, <2>3, <2>4
    <3>2. CASE b = m
      BY <2>2, <3>1, <3>2 DEF Ops
    <3>3. CASE b # m
      BY <1>2, <2>4, <3>1, <3>3 DEF WaitingBehind
    <3> QED  BY <3>2, <3>3
  <2>9. PooledBehind'
    <3> SUFFICES ASSUME NEW a \in Ops, NEW b \in Ops, op'[a].at = "pooled", op'[b].at \in Inside
                 PROVE  b < a
      BY <1>4 DEF PooledBehind
    <3>1. b # m /\ op[b].at \in Inside
      BY <1>2, <2>3, <2>4 DEF Holding, Inside
    <3>2. CASE a = m
      BY <2>2, <3>1, <3>2 DEF WaitingBehind, Holding
    <3>3. CASE a # m
      BY <1>3, <2>4, <3>1, <3>3 DEF PooledBehind
    <3> QED  BY <3>2, <3>3
  <2> QED  BY <2>5, <2>6, <2>7, <2>8, <2>9, <2>10
<1> QED  BY <1>1, <1>5, <1>6, LeaveEffect

LEMMA StartTurns == ASSUME TypeInv, Turns, NEW x \in Ops, Start(x) PROVE Turns'
<1> USE DEF Turns
<1> DEFINE a == IF lock = 0 THEN "pooled" ELSE "waiting"
           o == [op[x] EXCEPT !.at = a]
<1>1. op[x] \in Op /\ op[x].at = "posted" /\ \A k \in Ops : op[k].at = "posted" => x <= k
  BY DEF Start, TypeInv, TypeOK, Ops
<1>2. o \in Op /\ o.at = a /\ o.live /\ op[x].live
  BY <1>1 DEF Op, LiveUntilInside, Inside, Ended
<1>3. op' = [op EXCEPT ![x] = o] /\ lock' = IF lock = 0 THEN x ELSE lock
  BY DEF Start
<1>4. Ops' = Ops /\ \A k \in Ops : op'[k] = IF k = x THEN o ELSE op[k]
  BY <1>2, <1>3, OneReplaced DEF TypeInv, TypeOK
<1>5. /\ a = "pooled" \/ a = "waiting"
      /\ lock = 0 <=> a = "pooled"
      /\ lock' = IF a = "pooled" THEN x ELSE lock
  BY <1>3
<1> HIDE DEF a, o
<1>6. HolderLives' /\ OnlyHolder' /\ LiveUntilInside' /\ NoneWaitsFree'
  <2>1. \A k \in Ops : op[k].at \in Holding /\ op[k].live => lock = k /\ lock # 0
    BY DEF OnlyHolder, Ops
  <2>2. lock # 0 => lock # x
    BY <1>1 DEF HolderLives, Holding, Inside
  <2>3. lock # 0 => lock \in Ops
    BY DEF TypeInv, TypeOK, Ops
  <2> QED  BY <1>2, <1>4, <1>5, <2>1, <2>2, <2>3 DEF HolderLives, OnlyHolder, LiveUntilInside, NoneWaitsFree,
                                                           Holding, Inside, Ended, Ops
<1>7. PostedBehind'
  BY <1>1, <1>2, <1>4, <1>5 DEF PostedBehind, Ops
<1>8. WaitingBehind' /\ PooledBehind'
  <2>1. \A k \in Ops : op[k].at \in Holding \cup {"waiting"} => k < x
    BY <1>1 DEF PostedBehind
  <2>2. a = "pooled" => \A k \in Ops : op'[k].at # "waiting"
    BY <1>2, <1>4, <1>5 DEF NoneWaitsFree
  <2>3. \A k \in Ops : op'[k].at \in Inside => k # x /\ op[k].at \in Inside /\ op[k].at \in Holding
    BY <1>2, <1>4, <1>5 DEF Inside, Holding
  <2>4. PooledBehind'
    BY <1>2, <1>4, <1>5, <2>1, <2>3 DEF PooledBehind
  <2>5. WaitingBehind'
    BY <1>2, <1>4, <1>5, <2>1, <2>2 DEF WaitingBehind, Holding, Inside
  <2> QED  BY <2>4, <2>5
<1> QED  BY <1>6, <1>7, <1>8

\* A step that leaves op and lock alone, posts an op, or gives up all of them.
LEMMA RunTurns ==
    ASSUME TypeInv, Turns, NEW c \in Caller, NEW kind \in {"append", "get"}, NEW id \in Id,
           Run(c, kind, id)
    PROVE  Turns'
<1> USE DEF Turns, HolderLives, OnlyHolder, LiveUntilInside, NoneWaitsFree, PostedBehind, WaitingBehind,
            PooledBehind
<1>1. CASE loop = "closed"
  BY <1>1 DEF Run, Ops
<1>2. CASE loop # "closed"
  <2> DEFINE o == NewOp(kind, id)
  <2>1. op' = Append(op, o) /\ lock' = lock
    BY <1>2 DEF Run
  <2>2. /\ Len(op') = Len(op) + 1 /\ Len(op) \in Nat
        /\ \A k \in Ops' : op'[k] = IF k = Len(op) + 1 THEN o ELSE op[k]
        /\ \A k \in Ops' : k \in Ops \/ k = Len(op) + 1
        /\ \A k \in Ops : k \in Ops' /\ k < Len(op) + 1
    BY <2>1 DEF Ops, TypeInv, TypeOK
  <2>3. o.at = "posted" /\ o.live
    BY DEF NewOp
  <2>4. lock # 0 => lock \in Ops
    BY DEF TypeInv, TypeOK, Ops
  <2> HIDE DEF o
  <2>5. OnlyHolder'
    BY <2>1, <2>2, <2>3 DEF Holding, Inside
  <2>9. HolderLives'
    <3>1. lock # 0 => op'[lock] = op[lock]
      BY <2>2, <2>4
    <3> QED  BY <2>1, <3>1
  <2>8. LiveUntilInside' /\ NoneWaitsFree'
    BY <2>1, <2>2, <2>3
  <2>6. PostedBehind'
    BY <2>2, <2>3 DEF Holding, Inside
  <2>7. WaitingBehind' /\ PooledBehind'
    BY <2>2, <2>3 DEF Holding, Inside
  <2> QED  BY <2>5, <2>6, <2>7, <2>8, <2>9
<1> QED  BY <1>1, <1>2

LEMMA DrainTurns == ASSUME TypeInv, Turns, Drain PROVE Turns'
<1>1. lock' = 0 /\ op' = [n \in Ops |-> IF op[n].at \in Ended THEN op[n] ELSE GivenUp(op[n])]
  BY DEF Drain
<1>2. Ops' = Ops
  BY <1>1 DEF Ops, TypeInv, TypeOK
<1>3. \A n \in Ops : \/ op'[n].at \in Ended
                     \/ op'[n].at \in Inside /\ ~op'[n].live
  <2> SUFFICES ASSUME NEW n \in Ops, op[n].at \notin Ended
               PROVE  GivenUp(op[n]).at \in Ended \/ (GivenUp(op[n]).at \in Inside /\ ~GivenUp(op[n]).live)
    BY <1>1
  <2>1. op[n] \in Op
    BY DEF TypeInv, TypeOK, Ops
  <2> QED  BY <2>1 DEF GivenUp, End, Ended, Op
<1> QED  BY <1>1, <1>2, <1>3 DEF Turns, HolderLives, OnlyHolder, LiveUntilInside, NoneWaitsFree, PostedBehind,
                                 WaitingBehind, PooledBehind, Holding, Inside, Ended

LEMMA LoopTurns == ASSUME TypeInv, Turns, NEW n \in Ops, Loop(n) PROVE Turns'
<1>1. op[n] \in Op
  BY DEF TypeInv, TypeOK, Ops
<1>2. CASE Start(n)
  BY <1>2, StartTurns
<1>3. CASE Complete(n)
  <2>1. End("over", TRUE) \in Op /\ End("over", TRUE).at \in Ended
    BY OpTypes DEF End, Ended
  <2> QED  BY <1>3, <2>1, LeaveTurns DEF Complete
<1>4. CASE CancelTask(n)
  <2> DEFINE o == GivenUp(op[n])
  <2>1. o \in Op
    BY <1>1, OpTypes
  <2>2. o.at \in Ended \/ (o.at \in Inside /\ o.at = op[n].at /\ ~o.live)
    BY <1>1 DEF GivenUp, End, Ended, Op
  <2>3. Leave(n, o)
    BY <1>4 DEF CancelTask
  <2> HIDE DEF o
  <2> QED  BY <2>1, <2>2, <2>3, LeaveTurns
<1> QED  BY <1>2, <1>3, <1>4 DEF Loop

LEMMA NextTurns == ASSUME TypeInv, Turns, [Next]_vars PROVE Turns'
<1>1. CASE UNCHANGED <<op, lock>>
  BY <1>1 DEF Turns, HolderLives, OnlyHolder, LiveUntilInside, NoneWaitsFree, PostedBehind, WaitingBehind,
              PooledBehind, Ops
<1>2. CASE \E c \in Caller : Call(c) \/ Return(c) \/ TimeOut(c) \/ LeaveBuild(c)
  BY <1>1, <1>2, RunTurns DEF Call, EnterBuild, Return, TimeOut, LeaveBuild
<1>3. CASE \E n \in Ops : Loop(n) \/ Work(n)
  BY <1>3, LoopTurns, WorkTurns
<1>4. CASE Drain
  BY <1>4, DrainTurns
<1>5. CASE Stop \/ UNCHANGED vars
  BY <1>1, <1>5 DEF Stop, vars
<1> QED  BY <1>2, <1>3, <1>4, <1>5 DEF Next

--------------------------------------------------------------------------------
(* Types are kept *)

\* Replacing ops by ops with ids, or ended ones, keeps the types of the ops.
LEMMA StillCalled ==
    ASSUME Called, Ops' = Ops,
           \A k \in Ops : op'[k].at \in Ended \/ (op[k].at \notin Ended /\ op'[k].id = op[k].id)
    PROVE  Called'
BY DEF Called

LEMMA LoopTypes == ASSUME TypeInv, Turns, NEW n \in Ops, Loop(n) PROVE TypeInv'
<1>1. op[n] \in Op /\ op \in Seq(Op) /\ lock \in Nat
  BY DEF TypeInv, TypeOK, Ops
<1>2. CASE Start(n)
  <2> DEFINE a == IF lock = 0 THEN "pooled" ELSE "waiting"
             o == [op[n] EXCEPT !.at = a]
  <2>1. o \in Op /\ o.id = op[n].id
    BY <1>1 DEF Op
  <2>2. op' = [op EXCEPT ![n] = o] /\ lock' = IF lock = 0 THEN n ELSE lock
    BY <1>2 DEF Start
  <2> HIDE DEF o
  <2>3. op' \in Seq(Op) /\ Len(op') = Len(op) /\ Ops' = Ops
        /\ \A k \in Ops : op'[k] = IF k = n THEN o ELSE op[k]
    BY <2>1, <2>2, OneReplaced DEF TypeInv, TypeOK
  <2>4. Called'
    BY <1>2, <2>1, <2>3, StillCalled DEF TypeInv, Start, Ended
  <2> QED  BY <1>2, <2>2, <2>3, <2>4 DEF TypeInv, TypeOK, Start, log, Ops
<1>3. CASE \E o \in Op : /\ Leave(n, o)
                         /\ o.at \in Ended \/ (op[n].at \notin Ended /\ o.id = op[n].id)
                         /\ UNCHANGED <<caller, failed, loop, log, builder>>
  <2>1. PICK o \in Op : /\ Leave(n, o)
                        /\ o.at \in Ended \/ (op[n].at \notin Ended /\ o.id = op[n].id)
                        /\ UNCHANGED <<caller, failed, loop, log, builder>>
    BY <1>3
  <2>2. lock = n => op[n].at # "waiting"
    BY DEF Turns, HolderLives, Holding, Inside, Ops
  <2>3. /\ op' \in Seq(Op) /\ Len(op') = Len(op) /\ Ops' = Ops
        /\ \/ /\ (lock' = lock /\ lock # n) \/ (lock' = 0 /\ lock = n /\ Heirs = {})
              /\ \A k \in Ops : op'[k] = IF k = n THEN o ELSE op[k]
           \/ \E m \in Heirs \ {n} :
                 /\ lock = n /\ lock' = m
                 /\ \A k \in Ops : op'[k] = IF k = m THEN [op[m] EXCEPT !.at = "pooled"]
                                            ELSE IF k = n THEN o ELSE op[k]
    BY <1>1, <2>1, <2>2, LeaveEffect
  <2>4. lock' \in Nat /\ lock' <= Len(op)
    <3>1. \A m \in Heirs : m \in Nat /\ m <= Len(op)
      BY DEF Heirs, Ops
    <3>2. lock <= Len(op) /\ Len(op) \in Nat
      BY DEF TypeInv, TypeOK
    <3>3. lock' \in Heirs \/ lock' = lock \/ lock' = 0
      BY <2>3
    <3> QED  BY <1>1, <3>1, <3>2, <3>3
  <2>5. \A m \in Heirs : op[m].at \notin Ended /\ [op[m] EXCEPT !.at = "pooled"].id = op[m].id
    BY <1>1 DEF Heirs, Ended, Op, Ops
  <2>6. \A k \in Ops : op'[k].at \in Ended \/ (op[k].at \notin Ended /\ op'[k].id = op[k].id)
                       \/ op'[k] = op[k]
    BY <2>1, <2>3, <2>5
  <2>7. Called'
    BY <2>3, <2>6 DEF Called, TypeInv
  <2> QED  BY <2>1, <2>3, <2>4, <2>7 DEF TypeInv, TypeOK, log
<1>4. CASE Complete(n)
  <2>1. End("over", TRUE) \in Op /\ End("over", TRUE).at \in Ended
    BY OpTypes DEF End, Ended
  <2> QED  BY <1>3, <1>4, <2>1 DEF Complete
<1>5. CASE CancelTask(n)
  <2>1. GivenUp(op[n]) \in Op
    BY <1>1, OpTypes
  <2>2. GivenUp(op[n]).at \in Ended \/ (op[n].at \notin Ended /\ GivenUp(op[n]).id = op[n].id)
    BY <1>1 DEF GivenUp, End, Ended, Inside, Op
  <2> QED  BY <1>3, <1>5, <2>1, <2>2 DEF CancelTask
<1> QED  BY <1>2, <1>4, <1>5 DEF Loop

LEMMA WorkTypes == ASSUME TypeInv, NEW n \in Ops, Work(n) PROVE TypeInv'
<1>1. op[n].at \notin Ended /\ (op'[n].at \in Ended \/ op'[n].id = op[n].id)
  BY WorkEffect DEF Ended, Inside
<1>2. op' \in Seq(Op) /\ Len(op') = Len(op) /\ Ops' = Ops /\ \A k \in Ops \ {n} : op'[k] = op[k]
  BY WorkEffect
<1>3. lock' = lock
  BY WorkEffect
<1>5. Called'
  BY <1>1, <1>2 DEF TypeInv, Called
<1>6. UNCHANGED <<caller, failed, lock, loop, builder>>
  BY DEF Work, Take, Check, SetIndex, AddItem, log
<1>7. items' \in Seq(Id) /\ index' \in [Id -> Nat]
  <2>1. op[n].at \in Inside => op[n].id \in Id
    BY DEF TypeInv, Called, Inside, Ended
  <2>2. CASE Take(n) \/ Check(n)
    BY <2>2 DEF Take, Check, log, TypeInv, TypeOK
  <2>3. CASE SetIndex(n)
    BY <2>1, <2>3 DEF SetIndex, Inside, TypeInv, TypeOK
  <2>4. CASE AddItem(n)
    BY <2>1, <2>4 DEF AddItem, Inside, TypeInv, TypeOK
  <2> QED  BY <2>2, <2>3, <2>4 DEF Work
<1> QED  BY <1>2, <1>5, <1>6, <1>7 DEF TypeInv, TypeOK

LEMMA NextTypes == ASSUME TypeInv, Turns, [Next]_vars PROVE TypeInv'
<1>1. ASSUME NEW c \in Caller, NEW kind \in {"append", "get"}, NEW id \in Id, Run(c, kind, id)
      PROVE  TypeInv'
  <2>1. CASE loop = "closed"
    BY <1>1, <2>1 DEF Run, Fails, TypeInv, TypeOK, Called, log, Ops
  <2>2. CASE loop # "closed"
    <3>1. NewOp(kind, id) \in Op /\ NewOp(kind, id).id = id
      BY OpTypes DEF NewOp
    <3>2. op' = Append(op, NewOp(kind, id)) /\ Len(op) < MaxOps /\ Len(op) \in Nat
      BY <1>1, <2>2 DEF Run, TypeInv, TypeOK
    <3>3. /\ op' \in Seq(Op) /\ Len(op') = Len(op) + 1
          /\ \A k \in Ops' : op'[k] = IF k = Len(op) + 1 THEN NewOp(kind, id) ELSE op[k]
          /\ \A k \in Ops' : k \in Ops \/ k = Len(op) + 1
      BY <3>1, <3>2 DEF TypeInv, TypeOK, Ops
    <3>4. Called'
      BY <3>1, <3>3 DEF TypeInv, Called
    <3>5. Len(op') <= MaxOps /\ lock' \in Nat /\ lock' <= Len(op')
      BY <1>1, <3>2, <3>3, BoundAssumption DEF Run, TypeInv, TypeOK
    <3>6. caller' \in [Caller -> Nat] /\ \A d \in Caller : caller'[d] <= Len(op')
      <4>1. caller \in [Caller -> Nat] /\ \A d \in Caller : caller[d] <= Len(op)
        BY DEF TypeInv, TypeOK
      <4>2. caller' = [caller EXCEPT ![c] = Len(op) + 1]
        BY <1>1, <2>2 DEF Run
      <4> QED  BY <3>2, <3>3, <4>1, <4>2
    <3> QED  BY <1>1, <2>2, <3>3, <3>4, <3>5, <3>6 DEF Run, TypeInv, TypeOK, log
  <2> QED  BY <2>1, <2>2
<1>2. ASSUME NEW c \in Caller, EnterBuild(c) \/ Return(c) \/ TimeOut(c) \/ LeaveBuild(c)
      PROVE  TypeInv'
  <2>1. UNCHANGED <<op, lock, loop, items, index>> /\ Called'
    BY <1>2 DEF EnterBuild, Return, TimeOut, LeaveBuild, log, TypeInv, Called, Ops
  <2>2. failed' \subseteq Caller /\ builder' \in Caller \cup {None}
    BY <1>2 DEF EnterBuild, Return, TimeOut, LeaveBuild, Fails, TypeInv, TypeOK
  <2>3. caller' = caller \/ caller' = [caller EXCEPT ![c] = 0]
    BY <1>2 DEF EnterBuild, Return, TimeOut, LeaveBuild
  <2>4. caller' \in [Caller -> Nat] /\ \A d \in Caller : caller'[d] <= Len(op)
    <3>1. Len(op) \in Nat /\ caller \in [Caller -> Nat] /\ \A d \in Caller : caller[d] <= Len(op)
      BY DEF TypeInv, TypeOK
    <3> QED  BY <2>3, <3>1
  <2> QED  BY <2>1, <2>2, <2>4 DEF TypeInv, TypeOK
<1>3. CASE Drain
  <2>1. /\ op' = [n \in Ops |-> IF op[n].at \in Ended THEN op[n] ELSE GivenUp(op[n])]
        /\ Ops = 1..Len(op) /\ Len(op) \in Nat
    BY <1>3 DEF Drain, TypeInv, TypeOK, Ops
  <2>2. \A n \in Ops : op[n] \in Op /\ GivenUp(op[n]) \in Op
    BY OpTypes DEF TypeInv, TypeOK, Ops
  <2>3. op' \in Seq(Op) /\ Len(op') = Len(op) /\ Ops' = Ops
    BY <2>1, <2>2 DEF Ops
  <2>4. \A n \in Ops : GivenUp(op[n]).at \in Ended \/ GivenUp(op[n]).id = op[n].id
    BY <2>2 DEF GivenUp, End, Ended, Op
  <2>5. Called'
    BY <2>1, <2>3, <2>4 DEF TypeInv, Called
  <2>6. lock' = 0 /\ loop' = "draining" /\ UNCHANGED <<caller, failed, items, index, builder>>
    BY <1>3 DEF Drain, log
  <2> QED  BY <2>1, <2>3, <2>5, <2>6 DEF TypeInv, TypeOK
<1>4. CASE Stop \/ UNCHANGED vars
  BY <1>4 DEF Stop, vars, TypeInv, TypeOK, Called, log, Ops
<1> QED  BY <1>1, <1>2, <1>3, <1>4, LoopTypes, WorkTypes DEF Next, Call

LEMMA TurnsOneAtATime == TypeInv /\ Turns => OneAtATime
<1> SUFFICES ASSUME TypeInv, Turns PROVE LiveAlone /\ InTurn
  BY DEF OneAtATime, TypeInv
<1>1. LiveAlone
  BY DEF LiveAlone, Turns, OnlyHolder, Holding
<1>2. InTurn
  <2> SUFFICES ASSUME NEW n \in Ops, op[n].at \in Inside \cup {"left"}, NEW m \in 1..(n - 1)
               PROVE  op[m].at \in Inside \cup {"left"} \cup Ended
    BY DEF InTurn
  <2>1. m \in Ops /\ m < n /\ op[m] \in Op
    BY DEF Ops, TypeInv, TypeOK
  <2>2. op[m].at # "posted" /\ op[m].at # "waiting"
    BY <2>1 DEF Turns, PostedBehind, WaitingBehind, Holding, Ops
  <2>3. op[m].at = "pooled" /\ op[n].at = "left" => m = n
    BY <2>1 DEF Turns, OnlyHolder, LiveUntilInside, Holding, Inside, Ended
  <2>4. op[m].at # "pooled"
    BY <2>1, <2>3 DEF Turns, PooledBehind, Ops
  <2> QED  BY <2>1, <2>2, <2>4 DEF Op
<1> QED  BY <1>1, <1>2

\* The calls that live have the wrapped store one at a time, and enter it in the order
\* in which run submitted them, whatever times out, is cancelled or is drained
\* (_BridgeBase._call, async_bridge.py).
THEOREM LiveCallsTakeTurns == Spec => []OneAtATime
<1>1. Init => TypeInv /\ Turns
  BY InitTypes, InitTurns
<1>2. TypeInv /\ Turns /\ [Next]_vars => (TypeInv /\ Turns)'
  BY NextTypes, NextTurns
<1> QED  BY <1>1, <1>2, TurnsOneAtATime, PTL DEF Spec

--------------------------------------------------------------------------------
(* The log *)

AllLive == \A n \in Ops : op[n].live

\* An append found its id free, gave it the next position, and adds it there; what is
\* in the log has its position.
Appending == /\ \A n \in Ops : op[n].at = "indexing" => index[op[n].id] = 0
             /\ \A n \in Ops : op[n].at = "adding" => index[op[n].id] = Len(items) + 1
             /\ \A i \in 1..Len(items) : index[items[i]] = i

LogInv == AllLive => Intact /\ Appending

\* Nothing but a worker touches the log, or an op whose worker is in it and lives;
\* what was given up stays so.
LEMMA OutsideWorkers ==
    ASSUME TypeInv, Turns, Next, \A n \in Ops : ~Work(n)
    PROVE  /\ UNCHANGED log
           /\ Ops \subseteq Ops'
           /\ \A k \in Ops : ~op[k].live => ~op'[k].live
           /\ \A k \in Ops : op[k].at \in Inside /\ op'[k].live => op'[k] = op[k]
           /\ \A k \in Ops' : op'[k].at \in Inside => k \in Ops /\ op[k].at \in Inside
<1>1. ASSUME NEW c \in Caller, NEW kind \in {"append", "get"}, NEW id \in Id, Run(c, kind, id), loop # "closed"
      PROVE  /\ Ops \subseteq Ops'
             /\ \A k \in Ops : op'[k] = op[k]
             /\ \A k \in Ops' : op'[k].at \in Inside => k \in Ops
  <2>1. op' = Append(op, NewOp(kind, id)) /\ Len(op) \in Nat
    BY <1>1 DEF Run, TypeInv, TypeOK
  <2>2. NewOp(kind, id).at \notin Inside
    BY DEF NewOp, Inside
  <2> QED  BY <2>1, <2>2 DEF Ops, TypeInv, TypeOK
<1>2. CASE \E c \in Caller : Call(c) \/ Return(c) \/ TimeOut(c) \/ LeaveBuild(c)
  <2>1. UNCHANGED op \/ \E c \in Caller, kind \in {"append", "get"}, id \in Id :
                           Run(c, kind, id) /\ loop # "closed"
    BY <1>2 DEF Call, Run, EnterBuild, Return, TimeOut, LeaveBuild
  <2>2. UNCHANGED log
    BY <1>2 DEF Call, Run, EnterBuild, Return, TimeOut, LeaveBuild
  <2> QED  BY <1>1, <2>1, <2>2 DEF Ops
<1>3. ASSUME NEW n \in Ops, Start(n)
      PROVE  /\ UNCHANGED log /\ Ops' = Ops
             /\ \A k \in Ops : op'[k] = op[k] \/ (op[k].at = "posted" /\ op'[k].live = op[k].live
                                                  /\ op'[k].at \in {"pooled", "waiting"})
  <2>1. op[n] \in Op /\ op \in Seq(Op)
    BY DEF TypeInv, TypeOK, Ops
  <2> QED  BY <1>3, <2>1 DEF Start, Ops, Op
<1>4. ASSUME NEW n \in Ops, NEW o \in Op, Leave(n, o)
      PROVE  /\ Ops' = Ops
             /\ op'[n] = o
             /\ \A k \in Ops \ {n} :
                    op'[k] = op[k] \/ (op[k].at = "waiting" /\ op'[k].live = op[k].live
                                       /\ op'[k].at = "pooled")
  <2>1. op \in Seq(Op) /\ lock \in Nat /\ \A k \in Ops : op[k] \in Op
    BY DEF TypeInv, TypeOK, Ops
  <2>2. lock = n => op[n].at # "waiting"
    BY DEF Turns, HolderLives, Holding, Inside, Ops
  <2>3. \A m \in Heirs : m \in Ops /\ op[m].at = "waiting"
                         /\ [op[m] EXCEPT !.at = "pooled"].at = "pooled"
                         /\ [op[m] EXCEPT !.at = "pooled"].live = op[m].live
    BY <2>1 DEF Heirs, Op
  <2>4. /\ Ops' = Ops
        /\ \/ \A k \in Ops : op'[k] = IF k = n THEN o ELSE op[k]
           \/ \E m \in Heirs \ {n} : \A k \in Ops :
                 op'[k] = IF k = m THEN [op[m] EXCEPT !.at = "pooled"]
                          ELSE IF k = n THEN o ELSE op[k]
    BY <1>4, <2>1, <2>2, LeaveEffect
  <2>5. CASE \A k \in Ops : op'[k] = IF k = n THEN o ELSE op[k]
    BY <2>4, <2>5
  <2>6. ASSUME NEW m \in Heirs \ {n},
               \A k \in Ops : op'[k] = IF k = m THEN [op[m] EXCEPT !.at = "pooled"]
                                       ELSE IF k = n THEN o ELSE op[k]
        PROVE  /\ op'[n] = o
               /\ \A k \in Ops \ {n} :
                      op'[k] = op[k] \/ (op[k].at = "waiting" /\ op'[k].live = op[k].live
                                         /\ op'[k].at = "pooled")
    <3> DEFINE moved == [op[m] EXCEPT !.at = "pooled"]
    <3>1. op[m].at = "waiting" /\ moved.at = "pooled" /\ moved.live = op[m].live /\ m # n
      BY <2>3, <2>6
    <3>2. \A k \in Ops : op'[k] = IF k = m THEN moved ELSE IF k = n THEN o ELSE op[k]
      BY <2>6
    <3> HIDE DEF moved
    <3> QED  BY <3>1, <3>2
  <2> QED  BY <2>4, <2>5, <2>6
<1>5. CASE \E n \in Ops : Complete(n) \/ CancelTask(n)
  <2>1. PICK n \in Ops : Complete(n) \/ CancelTask(n)
    BY <1>5
  <2>2. op[n] \in Op
    BY DEF TypeInv, TypeOK, Ops
  <2>3. CASE Complete(n)
    <3>1. End("over", TRUE) \in Op /\ End("over", TRUE).at \notin Inside
      BY OpTypes DEF End, Inside, Ended
    <3>2. op[n].at = "left" /\ op[n].live /\ Leave(n, End("over", TRUE))
      BY <2>3 DEF Complete, Turns, LiveUntilInside, Inside, Ended
    <3> QED  BY <1>4, <2>3, <3>1, <3>2 DEF Complete, Inside
  <2>4. CASE CancelTask(n)
    <3> DEFINE o == GivenUp(op[n])
    <3>1. o \in Op /\ Leave(n, o) /\ op[n].live
      BY <2>2, <2>4, OpTypes DEF CancelTask
    <3>2. \/ op[n].at \notin Inside /\ o.at \notin Inside
          \/ op[n].at \in Inside /\ ~o.live
      BY <2>2 DEF GivenUp, End, Inside, Op
    <3> HIDE DEF o
    <3> QED  BY <1>4, <2>4, <3>1, <3>2 DEF CancelTask, Inside
  <2> QED  BY <2>1, <2>3, <2>4
<1>6. CASE Drain
  <2>1. op' = [n \in Ops |-> IF op[n].at \in Ended THEN op[n] ELSE GivenUp(op[n])] /\ UNCHANGED log
    BY <1>6 DEF Drain
  <2>2. Ops' = Ops
    BY <2>1 DEF Ops, TypeInv, TypeOK
  <2>3. ASSUME NEW k \in Ops
        PROVE  /\ ~op[k].live => ~op'[k].live
               /\ op[k].at \in Inside => ~op'[k].live
               /\ op'[k].at \in Inside => op[k].at \in Inside
    <3>1. op[k] \in Op
      BY DEF TypeInv, TypeOK, Ops
    <3>2. CASE op[k].at \in Ended
      BY <2>1, <3>2 DEF Inside, Ended
    <3>3. CASE op[k].at \in Inside
      BY <2>1, <3>1, <3>3 DEF Inside, Ended, GivenUp, Op
    <3>4. CASE op[k].at \notin Inside \cup Ended
      BY <2>1, <3>1, <3>4 DEF Inside, Ended, GivenUp, End
    <3> QED  BY <3>2, <3>3, <3>4
  <2> QED  BY <2>1, <2>2, <2>3
<1>7. CASE Stop
  BY <1>7 DEF Stop, Ops
<1>8. CASE \E n \in Ops : Start(n)
  BY <1>3, <1>8 DEF Inside
<1> QED  BY <1>2, <1>5, <1>6, <1>7, <1>8 DEF Next, Loop

LEMMA OutsideLog ==
    ASSUME TypeInv, Turns, LogInv, Next, \A n \in Ops : ~Work(n)
    PROVE  LogInv'
<1> SUFFICES ASSUME AllLive' PROVE Intact' /\ Appending'
  BY DEF LogInv
<1>1. /\ items' = items /\ index' = index
      /\ Ops \subseteq Ops'
      /\ \A k \in Ops : op[k].live
      /\ \A k \in Ops : op[k].at \in Inside => op'[k] = op[k]
      /\ \A k \in Ops' : op'[k].at \in Inside => k \in Ops /\ op'[k] = op[k]
  BY OutsideWorkers DEF AllLive, log
<1>2. Intact /\ Appending
  BY <1>1 DEF LogInv, AllLive
<1>3. \A id : Adding(id)' <=> Adding(id)
  BY <1>1 DEF Adding, Inside
<1>4. Appending'
  BY <1>1, <1>2 DEF Appending, Inside
<1>5. Intact'
  BY <1>1, <1>2, <1>3 DEF Intact, Inside
<1> QED  BY <1>4, <1>5

\* A worker alone in the log keeps it intact.
LEMMA WorkLog ==
    ASSUME TypeInv, Turns, LogInv, NEW n \in Ops, Work(n)
    PROVE  LogInv'
<1> SUFFICES ASSUME AllLive' PROVE Intact' /\ Appending'
  BY DEF LogInv
<1> DEFINE o == op'[n]
<1>1. Ops' = Ops /\ \A k \in Ops : op'[k] = IF k = n THEN o ELSE op[k]
  BY WorkEffect
<1>2. o.live
  BY <1>1 DEF AllLive
<1>3. /\ op[n].at = "pooled" \/ op[n].at \in Inside
      /\ o.live = op[n].live /\ o.at \in Inside \cup {"left"} /\ o.id = op[n].id
      /\ Take(n) => o.at = "checking"
      /\ Check(n) => /\ op[n].at = "checking" /\ o.at \in {"indexing", "left"}
                     /\ o.at = "indexing" => index[op[n].id] = 0
      /\ SetIndex(n) => op[n].at = "indexing" /\ o.at = "adding"
      /\ AddItem(n) => op[n].at = "adding" /\ o.at = "left"
  BY <1>2, WorkEffect DEF Inside
<1> HIDE DEF o
<1>4. AllLive
  BY <1>1, <1>2, <1>3 DEF AllLive
<1>5. Intact /\ Appending
  BY <1>4 DEF LogInv
<1>6. \A k \in Ops : op[k].at \in Inside => k = n
  BY <1>3, <1>4 DEF AllLive, Turns, OnlyHolder, Holding
<1>7. op[n].id \in Id /\ Len(items) \in Nat /\ items \in Seq(Id) /\ index \in [Id -> Nat]
  <2>1. op[n].at \notin Ended
    BY <1>3 DEF Inside, Ended
  <2>2. op[n].id \in Id
    BY <2>1 DEF TypeInv, Called
  <2> QED  BY <2>2 DEF TypeInv, TypeOK
<1>8. \A k \in Ops : op'[k].at \in Inside => k = n
  BY <1>1, <1>6
<1>9. CASE Take(n) \/ Check(n)
  <2>1. items' = items /\ index' = index
    BY <1>9 DEF Take, Check, log
  <2>2. op[n].at \in {"pooled", "checking"} /\ o.at \in {"checking", "indexing", "left"}
    BY <1>3, <1>9 DEF Take
  <2>3. \A id : ~Adding(id) /\ ~Adding(id)'
    BY <1>1, <1>6, <2>2 DEF Adding, Inside
  <2>4. Intact'
    BY <1>1, <1>5, <2>1, <2>3 DEF Intact
  <2>5. o.at = "indexing" => index[o.id] = 0
    BY <1>3, <1>9
  <2>6. Appending'
    BY <1>1, <1>5, <1>8, <2>1, <2>2, <2>5 DEF Appending, Inside
  <2> QED  BY <2>4, <2>6
<1>10. CASE SetIndex(n)
  <2> DEFINE new == op[n].id
  <2>1. /\ op[n].at = "indexing" /\ o.at = "adding" /\ index[new] = 0 /\ items' = items
        /\ index' = [index EXCEPT ![new] = Len(items) + 1]
    BY <1>3, <1>5, <1>10 DEF SetIndex, Appending
  <2>2. \A i \in 1..Len(items) : items[i] # new /\ items[i] \in Id
    BY <1>5, <1>7, <2>1 DEF Appending
  <2>3. \A id : Adding(id)' <=> id = new
    BY <1>1, <1>3, <1>8, <2>1 DEF Adding, Inside
  <2>4. \A id : ~Adding(id)
    BY <1>6, <2>1 DEF Adding, Inside
  <2>5. Appending'
    BY <1>1, <1>3, <1>5, <1>7, <1>8, <2>1, <2>2 DEF Appending, Inside
  <2>6. \A id \in Id : index'[id] # 0 => \/ (index'[id] <= Len(items') /\ items'[index'[id]] = id)
                                         \/ (index'[id] = Len(items') + 1 /\ Adding(id)')
    BY <1>5, <1>7, <2>1, <2>3, <2>4 DEF Intact
  <2>7. \A k \in Ops : op'[k].at # "checking"
    BY <1>1, <1>8, <2>1 DEF Inside
  <2>8. Intact'
    BY <1>1, <1>5, <2>1, <2>6, <2>7 DEF Intact
  <2> QED  BY <2>5, <2>8
<1>11. CASE AddItem(n)
  <2> DEFINE new == op[n].id
  <2>1. /\ op[n].at = "adding" /\ o.at = "left" /\ index[new] = Len(items) + 1
        /\ items' = Append(items, new) /\ index' = index
    BY <1>3, <1>5, <1>11 DEF AddItem, Appending
  <2>2. /\ Len(items') = Len(items) + 1
        /\ \A i \in 1..Len(items) : items'[i] = items[i] /\ items[i] \in Id
        /\ items'[Len(items) + 1] = new
    BY <1>7, <2>1
  <2>3. \A id : (Adding(id) <=> id = new) /\ ~Adding(id)'
    BY <1>1, <1>6, <1>8, <2>1 DEF Adding, Inside
  <2>4. Appending'
    BY <1>1, <1>5, <1>7, <1>8, <2>1, <2>2 DEF Appending, Inside
  <2>5. \A i, j \in 1..Len(items') : items'[i] = items'[j] => i = j
    BY <1>7, <2>1, <2>2, <2>4 DEF Appending
  <2>6. \A id \in Id : index'[id] # 0 => index'[id] <= Len(items') /\ items'[index'[id]] = id
    BY <1>5, <1>7, <2>1, <2>2, <2>3 DEF Intact
  <2>7. \A k \in Ops : op'[k].at # "checking"
    BY <1>1, <1>8, <2>1 DEF Inside
  <2>8. Intact'
    BY <1>1, <2>5, <2>6, <2>7 DEF Intact
  <2> QED  BY <2>4, <2>8
<1> QED  BY <1>9, <1>10, <1>11 DEF Work

LEMMA NextLog == ASSUME TypeInv, Turns, LogInv, [Next]_vars PROVE LogInv'
<1>1. CASE UNCHANGED vars
  <2>1. UNCHANGED <<op, items, index>>
    BY <1>1 DEF vars, log
  <2> QED  BY <2>1 DEF LogInv, AllLive, Intact, Appending, Adding, Ops
<1>2. CASE Next /\ \E n \in Ops : Work(n)
  BY <1>2, WorkLog
<1>3. CASE Next /\ \A n \in Ops : ~Work(n)
  BY <1>3, OutsideLog
<1> QED  BY <1>1, <1>2, <1>3

\* As long as no call was given up inside it, the log is intact whatever timed out, was
\* cancelled elsewhere or was drained (InMemoryEventLog behind _BridgeBase).
THEOREM OnlyGivenUpDamages == Spec => []IntactUnlessGivenUp
<1>1. Init => TypeInv /\ Turns /\ LogInv
  <2>1. Init => LogInv
    BY DEF Init, LogInv, Intact, Appending, Ops
  <2> QED  BY <2>1, InitTypes, InitTurns
<1>2. TypeInv /\ Turns /\ LogInv /\ [Next]_vars => (TypeInv /\ Turns /\ LogInv)'
  BY NextTypes, NextTurns, NextLog
<1>3. LogInv => IntactUnlessGivenUp
  BY DEF LogInv, IntactUnlessGivenUp, AllLive
<1> QED  BY <1>1, <1>2, <1>3, PTL DEF Spec
================================================================================
