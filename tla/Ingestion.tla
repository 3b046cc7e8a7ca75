------------------------------- MODULE Ingestion --------------------------------
(***************************************************************************)
(* What the event log takes of a list of items (adapters/_messages_common.py,   *)
(* store/event_log.py): one after the other, up to the first whose id it has;    *)
(* and how the adapters put items in order again (sorted, insertion order).     *)
(***************************************************************************)
EXTENDS Integers, Sequences, FiniteSets

New(list, i) == \A j \in 1..(i - 1) : list[j].key # list[i].key

\* ingest_into_manager: the log refuses a second item of an id, and raises there.
Ingested(list) == IF \A i \in 1..Len(list) : New(list, i) THEN list
                  ELSE SubSeq(list, 1, (CHOOSE i \in 1..Len(list) :
                          ~New(list, i) /\ \A j \in 1..(i - 1) : New(list, j)) - 1)

\* The members of a finite set one by one; what comes k-th has k - 1 before it.
Ordered(S, before) ==
    [k \in 1..Cardinality(S) |->
        CHOOSE x \in S : Cardinality({y \in S : <<y, x>> \in before}) = k - 1]
InOrder(S) == Ordered(S, {p \in S \X S : p[1] < p[2]})
================================================================================
