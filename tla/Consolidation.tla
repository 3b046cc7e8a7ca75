----------------------------- MODULE Consolidation -----------------------------
(***************************************************************************)
(* Episodic memory and the facts consolidate (context/consolidation.py)       *)
(* distils from it.  Episodes come from ContextManager.add_episode, which     *)
(* appends whatever it is given, and from memory_add_episode of the memory    *)
(* server, which refuses an id it finds.  A consolidation reads the store,    *)
(* then puts one fact after another; it may die in between, or run beside     *)
(* another one.                                                             *)
(*                                                                         *)
(* An episode has an id (its rank in sorted order), a summary (its set of     *)
(* tokens), a session and a sensitivity (its rank).  A fact id, the hash of   *)
(* the sorted episode ids, is their bag.                                     *)
(***************************************************************************)
EXTENDS Integers, Sequences, FiniteSets, SequencesExt, FiniteSetsExt

CONSTANTS Episode,                      \* the episodes that may be added
          Num, Den,                     \* similarity_threshold = Num / Den
          MinOccurrences, MinSessions,
          Runner, None,
          MaxEpisodes, MaxWrites, MaxRuns  \* bounds: episodes at once, writes, consolidations

VARIABLES episodes,  \* the episodic store, in insertion order
          facts,     \* the consolidated facts in the fact store
          run,       \* runner -> the facts it has yet to put, and what it read
          writes, runs,
          unique,    \* history: no two episodes ever had the same id
          applied    \* history: the episodes the last consolidation put the facts of

vars == <<episodes, facts, run, writes, runs, unique, applied>>

EpisodeId == {e.id : e \in Episode}
Summary == {e.summary : e \in Episode}
Quiet == [at |-> "idle", todo |-> {}, read |-> <<>>, alone |-> TRUE, call_fn |-> FALSE]

--------------------------------------------------------------------------------
(* The algorithm, over a list es of episodes *)

Similar(a, b) == /\ a \cup b # {}
                 /\ Cardinality(a \cap b) * Den >= Num * Cardinality(a \cup b)

\* Positions of es by id, those of one id as they were added (sorted is stable).
Before(es, i, j) == es[i].id < es[j].id \/ (es[i].id = es[j].id /\ i < j)
First(es, C) == CHOOSE i \in C : \A j \in C \ {i} : Before(es, i, j)

\* Each episode joins the first cluster whose seed it resembles, or is a seed.
Clusters(es) ==
    LET seed[i \in DOMAIN es] ==
            LET like == {j \in DOMAIN es : /\ Before(es, j, i) /\ seed[j] = j
                                           /\ Similar(es[i].summary, es[j].summary)}
            IN IF like = {} THEN i ELSE First(es, like)
    IN {{i \in DOMAIN es : seed[i] = k} : k \in {seed[i] : i \in DOMAIN es}}

\* The most tokens; then the first of the order.
Canonical(es, C) ==
    LET best == {i \in C : \A j \in C : Cardinality(es[j].summary) <= Cardinality(es[i].summary)}
    IN es[First(es, best)].summary

\* episodes_by_id keeps the last episode of an id.
ById(es, i) == es[Max({j \in DOMAIN es : es[j].id = es[i].id})]

\* What a call_fn may make of the canonical text: any completion without new
\* tokens is accepted, any other one falls back to it.
Refined(es, C) ==
    LET allowed == UNION {ById(es, i).summary : i \in C}
    IN {Canonical(es, C)} \cup {t \in Summary : t # {} /\ t \subseteq allowed}

\* canonical_fact_id
IdOf(es, C) == [id \in {es[i].id : i \in C} |-> Cardinality({i \in C : es[i].id = id})]

FactOf_CanonicalLevel(es, C) ==
    [id |-> IdOf(es, C),
     sensitivity |-> (CHOOSE e \in {es[i] : i \in C} : e.summary = Canonical(es, C)).sensitivity,
     text |-> Canonical(es, C), texts |-> Refined(es, C), from |-> {es[i] : i \in C}]
\* "from" is a history of the episodes clustered.
FactOf(es, C) ==
    [id |-> IdOf(es, C),
     sensitivity |-> Max({ById(es, i).sensitivity : i \in C}),
     text |-> Canonical(es, C), texts |-> Refined(es, C), from |-> {es[i] : i \in C}]

Promoted(es) ==
    {FactOf(es, C) : C \in {D \in Clusters(es) :
        /\ Cardinality(D) >= MinOccurrences
        /\ Cardinality({ById(es, i).session : i \in D}) >= MinSessions}}

--------------------------------------------------------------------------------
Init == /\ episodes = <<>>
        /\ facts = {}
        /\ run = [r \in Runner |-> Quiet]
        /\ writes = 0 /\ runs = 0
        /\ unique = TRUE
        /\ applied = <<>>

Write(es) == /\ writes < MaxWrites
             /\ writes' = writes + 1
             /\ episodes' = es
             /\ UNCHANGED <<facts, run, runs, applied>>

Known(id) == \E i \in DOMAIN episodes : episodes[i].id = id

\* ContextManager.add_episode
AddEpisode(e) == /\ Len(episodes) < MaxEpisodes
                 /\ Write(Append(episodes, e))
                 /\ unique' = (unique /\ ~Known(e.id))

\* memory_add_episode: an id that exists is left as it is.
ServerAdd(e) == /\ Len(episodes) < MaxEpisodes
                /\ ~Known(e.id)
                /\ Write(Append(episodes, e))
                /\ UNCHANGED unique

\* delete removes the earliest episode of the id.
DeleteEpisode(id) == /\ Known(id)
                     /\ Write(RemoveAt(episodes, SelectInSeq(episodes, LAMBDA e : e.id = id)))
                     /\ UNCHANGED unique

--------------------------------------------------------------------------------
(* consolidate(apply=True) *)

Beside(r) == {q \in Runner \ {r} : run[q].at = "putting"}

\* Two consolidations of different episodes may undo each other's facts.
Read(r, call_fn) ==
    LET others == {q \in Beside(r) : run[q].read # episodes}
        mine == [at |-> "putting", todo |-> Promoted(episodes), read |-> episodes,
                 alone |-> others = {}, call_fn |-> call_fn]
    IN /\ run[r].at = "idle" /\ runs < MaxRuns
       /\ runs' = runs + 1
       /\ run' = [q \in Runner |-> IF q = r THEN mine
                                   ELSE IF q \in others THEN [run[q] EXCEPT !.alone = FALSE] ELSE run[q]]
       /\ UNCHANGED <<episodes, facts, writes, unique, applied>>

\* put replaces the fact of the same id.
PutFact_KeepsFirst(r, f) ==
    /\ run[r].at = "putting" /\ f \in run[r].todo
    /\ run' = [run EXCEPT ![r].todo = @ \ {f}]
    /\ facts' = IF \E g \in facts : g.id = f.id THEN facts ELSE facts \cup {f}
    /\ UNCHANGED <<episodes, writes, runs, unique, applied>>
PutFact(r, f) ==
    /\ run[r].at = "putting" /\ f \in run[r].todo
    /\ run' = [run EXCEPT ![r].todo = @ \ {f}]
    /\ \E t \in IF run[r].call_fn THEN f.texts ELSE {f.text} :
           facts' = {g \in facts : g.id # f.id} \cup {[f EXCEPT !.text = t]}
    /\ UNCHANGED <<episodes, writes, runs, unique, applied>>

Finish(r) == /\ run[r].at = "putting" /\ run[r].todo = {}
             /\ run' = [run EXCEPT ![r] = Quiet]
             /\ applied' = IF run[r].alone THEN run[r].read ELSE None
             /\ UNCHANGED <<episodes, facts, writes, runs, unique>>

Crash(r) == /\ run[r].at = "putting"
            /\ run' = [run EXCEPT ![r] = Quiet]
            /\ applied' = IF applied = run[r].read THEN applied ELSE None
            /\ UNCHANGED <<episodes, facts, writes, runs, unique>>

Next == \/ \E e \in Episode : AddEpisode(e) \/ ServerAdd(e)
        \/ \E id \in EpisodeId : DeleteEpisode(id)
        \/ \E r \in Runner : \/ \E call_fn \in BOOLEAN : Read(r, call_fn)
                             \/ \E f \in run[r].todo : PutFact(r, f)
                             \/ Finish(r) \/ Crash(r)

Spec == Init /\ [][Next]_vars

MemoryConstants == /\ \A e \in Episode : e.id \in Nat /\ e.sensitivity \in Nat /\ IsFiniteSet(e.summary)
                   /\ None \notin Seq(Episode)
                   /\ MaxEpisodes \in Nat /\ MaxWrites \in Nat /\ MaxRuns \in Nat

--------------------------------------------------------------------------------
\* As long as ids are unique, every fact was earned by enough episodes of enough
\* sessions, is as sensitive as the most sensitive of them, and says nothing that
\* none of them says, with or without a model (promote_clusters).
FactsEarned == unique => \A f \in facts :
    /\ Cardinality(f.from) >= MinOccurrences
    /\ Cardinality({e.session : e \in f.from}) >= MinSessions
    /\ \A e \in f.from : e.sensitivity <= f.sensitivity
    /\ f.text \subseteq UNION {e.summary : e \in f.from}

\* Once a consolidation has ended, and until the episodes change, the store holds
\* each fact they promote as it is, if no other cluster has the same ids: one that
\* was cut short is made good by the next, and re-running changes nothing
\* ("idempotent upsert", module comment).
Held(C) == \E f \in facts : f.id = C.id /\ f.sensitivity = C.sensitivity /\ f.text \in C.texts
Sole(C, es) == \A D \in Promoted(es) : D.id = C.id => D = C
FactsStand ==
    (applied = episodes /\ \A r \in Runner : run[r].at = "putting" => run[r].read = episodes)
        => \A C \in Promoted(episodes) : Sole(C, episodes) => Held(C)

MemoryWhole == FactsEarned /\ FactsStand

\* The comment of PromotedFact: "Maximum sensitivity of the source episodes
\* (inherited up, never down)".
SensitivityInherited == \A f \in facts : \A e \in f.from : e.sensitivity <= f.sensitivity
================================================================================
