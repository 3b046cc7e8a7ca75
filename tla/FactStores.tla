------------------------------- MODULE FactStores -------------------------------
(***************************************************************************)
(* One fact store kept by a memory service (extras/memory), written by        *)
(* several processes: ContextManager.add_fact mints an id, looks whether it    *)
(* is taken and puts the fact; memory_put_fact puts under an id it was given.  *)
(* LangMem upserts by itself.  Zep and Mem0 only add and delete records, so    *)
(* put finds the old record, deletes it and adds the new one; none of their    *)
(* scans answers at the scan limit, and Zep's put then appends.  Every call    *)
(* to the service is a step, and a writer may die before any of them.         *)
(*                                                                         *)
(* Ids are those of one key, fact:{key}:{seq}, by their seq.  The value of a   *)
(* fact is the number of the call that put it, which no other call puts.      *)
(***************************************************************************)
EXTENDS Integers, Sequences, FiniteSets, SequencesExt, FiniteSetsExt

CONSTANTS Writer, None,
          ScanLimit,
          Given,                \* the ids that put and delete are given
          MaxOps, MaxCrashes    \* bounds: calls of add_fact, put and delete; writers that die

VARIABLES service,   \* the memory service in use
          records,   \* what it holds, in scan order
          writer,    \* writer -> the request it is about to send
          seq,       \* writer -> _fact_seq, or None until it is seeded
          ops, crashes,
          latest,    \* history: id -> the value its last completed put left, or None
          muddled,   \* history: ids two writers put at once, or Zep appended at the limit
          minted     \* history: the facts add_fact returned, until put or deleted by id

bounds == <<ops, crashes>>
history == <<latest, muddled, minted>>
vars == <<service, records, writer, seq, bounds, history>>

Ids == 0..MaxOps
Idle == [at |-> "idle", id |-> None, value |-> None, old |-> None, mints |-> FALSE]

Init == /\ service \in {"langmem", "mem0", "zep"}
        /\ records = <<>>
        /\ writer = [w \in Writer |-> Idle]
        /\ seq = [w \in Writer |-> None]
        /\ ops = 0 /\ crashes = 0
        /\ latest = [i \in Ids |-> None]
        /\ muddled = {}
        /\ minted = {}

--------------------------------------------------------------------------------
\* A scan that would fill the limit raises NotImplementedError; LangMem scans only
\* for all, and looks ids up directly.
Scans == Len(records) < ScanLimit
Looks == service = "langmem" \/ Scans
Found(id) == SelectInSeq(records, LAMBDA r : r.id = id)
Values(id) == {r.value : r \in {s \in ToSet(records) : s.id = id}}
Count(id) == Cardinality({k \in DOMAIN records : records[k].id = id})
WithoutValue(v) == RemoveFirstMatch(records, LAMBDA r : r.value = v)
WithoutId(id) == RemoveFirstMatch(records, LAMBDA r : r.id = id)

Goes(w, o) == /\ writer' = [writer EXCEPT ![w] = o]
              /\ UNCHANGED <<service, bounds>>
At(w, p) == writer[w].at = p
PutsNow(w, id) == writer[w].id = id /\ writer[w].at \in {"find", "delete", "add"}
Beside(w, id) == \E v \in Writer \ {w} : PutsNow(v, id)

Begin(w, o) == /\ At(w, "idle") /\ ops < MaxOps
               /\ ops' = ops + 1
               /\ writer' = [writer EXCEPT ![w] = o]
               /\ UNCHANGED <<service, records, crashes>>

\* memory_put_fact
PutFact(w, id) == /\ Begin(w, [Idle EXCEPT !.at = "find", !.id = id, !.value = ops'])
                  /\ muddled' = IF Beside(w, id) THEN muddled \cup {id} ELSE muddled
                  /\ minted' = {m \in minted : m[1] # id}
                  /\ UNCHANGED <<seq, latest>>

\* FactStore.delete removes the first record it finds.
DeleteFact(w, id) ==
    /\ At(w, "idle") /\ ops < MaxOps /\ Looks /\ Found(id) # 0
    /\ ops' = ops + 1
    /\ records' = RemoveAt(records, Found(id))
    /\ latest' = [latest EXCEPT ![id] = None]
    /\ muddled' = IF Beside(w, id) THEN muddled \cup {id} ELSE muddled
    /\ minted' = {m \in minted : m[1] # id}
    /\ UNCHANGED <<service, writer, seq, crashes>>

\* add_fact: the first call seeds the counter past the ids that exist.
AddFact(w) == /\ Begin(w, [Idle EXCEPT !.at = IF seq[w] = None THEN "seed" ELSE "get",
                                       !.id = seq[w], !.value = ops', !.mints = TRUE])
              /\ UNCHANGED <<seq, history>>

Seed(w) ==
    /\ At(w, "seed")
    /\ IF Scans
       THEN LET next == Max({r.id : r \in ToSet(records)} \cup {-1}) + 1
            IN /\ seq' = [seq EXCEPT ![w] = next]
               /\ Goes(w, [writer[w] EXCEPT !.at = "get", !.id = next])
       ELSE Goes(w, Idle) /\ UNCHANGED seq
    /\ UNCHANGED <<records, history>>

\* An id that is taken raises DuplicateItemError and keeps the counter.
Get(w) ==
    /\ At(w, "get")
    /\ LET id == writer[w].id
       IN IF Looks /\ Found(id) = 0
          THEN /\ Goes(w, [writer[w] EXCEPT !.at = "find"])
               /\ muddled' = IF Beside(w, id) THEN muddled \cup {id} ELSE muddled
          ELSE Goes(w, Idle) /\ UNCHANGED muddled
    /\ UNCHANGED <<records, seq, latest, minted>>

--------------------------------------------------------------------------------
(* put *)

\* LangMem replaces the record; the other two look for one to delete.
Find(w) ==
    LET id == writer[w].id
        k == Found(id)
    IN /\ At(w, "find") /\ service # "langmem"
       /\ \/ /\ Scans
             /\ Goes(w, [writer[w] EXCEPT !.at = IF k = 0 THEN "add" ELSE "delete",
                                          !.old = IF k = 0 THEN None ELSE records[k].value])
             /\ UNCHANGED muddled
          \/ /\ ~Scans /\ service = "zep"
             /\ Goes(w, [writer[w] EXCEPT !.at = "add"])
             /\ muddled' = muddled \cup {id}
          \/ /\ ~Scans /\ service = "mem0"
             /\ Goes(w, Idle)
             /\ UNCHANGED muddled
       /\ UNCHANGED <<records, seq, latest, minted>>

DeleteOld_Skipped(w) == /\ At(w, "delete")
                        /\ Goes(w, [writer[w] EXCEPT !.at = "add"])
                        /\ UNCHANGED <<records, seq, history>>
DeleteOld(w) == /\ At(w, "delete")
                /\ records' = WithoutValue(writer[w].old)
                /\ latest' = [latest EXCEPT ![writer[w].id] = None]
                /\ Goes(w, [writer[w] EXCEPT !.at = "add"])
                /\ UNCHANGED <<seq, muddled, minted>>

\* The put is done; add_fact counts it.
Done(w) ==
    LET id == writer[w].id
    IN /\ latest' = [latest EXCEPT ![id] = writer[w].value]
       /\ IF writer[w].mints
          THEN /\ seq' = [seq EXCEPT ![w] = @ + 1]
               /\ minted' = minted \cup {<<id, writer[w].value>>}
          ELSE UNCHANGED <<seq, minted>>
       /\ Goes(w, Idle)
       /\ UNCHANGED muddled

Record(w) == [id |-> writer[w].id, value |-> writer[w].value]

AddNew(w) == /\ At(w, "add")
             /\ records' = Append(records, Record(w))
             /\ Done(w)

Upsert(w) == /\ At(w, "find") /\ service = "langmem"
             /\ records' = Append(WithoutId(writer[w].id), Record(w))
             /\ Done(w)

Crash(w) == /\ ~At(w, "idle") /\ crashes < MaxCrashes
            /\ crashes' = crashes + 1
            /\ writer' = [writer EXCEPT ![w] = Idle]
            /\ seq' = [seq EXCEPT ![w] = None]
            /\ UNCHANGED <<service, records, ops, history>>

Step(w) == \/ AddFact(w) \/ \E id \in Given : PutFact(w, id) \/ DeleteFact(w, id)
           \/ Seed(w) \/ Get(w) \/ Find(w) \/ DeleteOld(w) \/ AddNew(w) \/ Upsert(w)
           \/ Crash(w)

Next == \E w \in Writer : Step(w)

Spec == Init /\ [][Next]_vars

FactConstants == /\ Given \subseteq Nat /\ None \notin Nat
                 /\ ScanLimit \in Nat /\ MaxOps \in Nat /\ MaxCrashes \in Nat

--------------------------------------------------------------------------------
\* put is an upsert although the service has none: with nobody in the middle of it,
\* an id has the one value of its last put, or none if that one died after the
\* delete, unless two writers met on it or Zep was at its limit (put of the stores).
UpsertHolds == \A id \in Ids \ muddled :
    (\A w \in Writer : ~PutsNow(w, id)) =>
        /\ Count(id) <= 1
        /\ Values(id) = {latest[id]} \ {None}

\* A fact that add_fact returned stays what it was until somebody puts or deletes
\* that id on purpose, also when other managers mint ids of the same key, unless
\* two of them looked the id up before either had put it (add_fact).
MintedStays == \A m \in minted : m[1] \notin muddled => Values(m[1]) = {m[2]}

\* What a memory service without upsert holds is what its callers were told.
FactsKept == UpsertHolds /\ MintedStays

\* The docstring of add_fact: the check is a "backstop against a concurrent writer
\* minting the same ID, surfacing the clash loudly".
ClashIsLoud == \A m, n \in minted : m[1] = n[1] => m = n
================================================================================
