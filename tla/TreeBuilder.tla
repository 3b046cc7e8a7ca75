------------------------------ MODULE TreeBuilder ------------------------------
(***************************************************************************)
(* TreeBuilder.build (routing/tree.py): a catalog becomes a tree of groups     *)
(* with at most max_children children per node.  A call of _build_subtree is a *)
(* job; it depends on its own arguments only, so jobs may run in any order.    *)
(*                                                                         *)
(* Items are numbers in the order of their ids and of their names, words are   *)
(* numbers in string order.  A group is the path of labels to it, so that its   *)
(* parent is its front; the edge to a group and the group are added together.  *)
(***************************************************************************)
EXTENDS Integers, Sequences, FiniteSets, SequencesExt, FiniteSetsExt, Functions

CONSTANTS Item,      \* numbers of items
          Letter,    \* item -> first letter of its name, a word
          Request    \* what builders are asked for: see Requests

Word == Nat
Other == 0   \* "_other", the group of the items with no namespace
Leaf == 1    \* "_leaf", the part of a namespace with no further segment

\* A request: a catalog, as the namespaces of its items, with max_children and
\* target_group_size of the builder.
IsRequest(r) ==
    /\ DOMAIN r = {"ns", "max", "target"}
    /\ r.max \in Nat \ {0} /\ r.target \in Nat \ {0}
    /\ DOMAIN r.ns # {} /\ DOMAIN r.ns \subseteq Item
    /\ \A i \in DOMAIN r.ns : r.ns[i] \in Seq(Word)

ASSUME ItemAssumption == /\ Item \subseteq Nat \ {0} /\ IsFiniteSet(Item)
                         /\ Letter \in [Item -> Word]
ASSUME RequestAssumption == \A r \in Request : IsRequest(r)

VARIABLES req,      \* the request
          groups,   \* group nodes of the graph, the root among them
          leaves,   \* the edges <<group, item>>
          todo      \* calls of _build_subtree to be made

treeVars == <<req, groups, leaves, todo>>

Catalog == DOMAIN req.ns
Root == << >>
Label == [words : Seq(Word), n : Nat]
Jobs == [node : Seq(Label), items : SUBSET Item]

Kids(p) == {g \in groups : g # Root /\ Front(g) = p}
ItemsAt(p) == {i \in Item : <<p, i>> \in leaves}

Plain(words) == [words |-> words, n |-> 0]
Ceil(a, b) == (a + b - 1) \div b

-----------------------------------------------------------------------------
(* Pieces of a set of items, as even as possible: piece j ends at rank End(j). *)
Chunks(S) ==
    LET n == Cardinality(S)
        k == Ceil(n, req.max)
        End(j) == j * (n \div k) + Min({j, n % k})
        Rank(i) == Cardinality({j \in S : j <= i})
    IN  [j \in 1..k |-> {i \in S : End(j - 1) < Rank(i) /\ Rank(i) <= End(j)}]

\* "A-C", or "A"; a label in use already is given a counter.
Alphabetical(S) ==
    LET chunks == Chunks(S)
        Base(j) == LET first == Letter[Min(chunks[j])]
                       last == Letter[Max(chunks[j])]
                   IN  IF first # last THEN <<first, last>> ELSE <<first>>
        Name(j) == [words |-> Base(j), n |-> Cardinality({h \in 1..j - 1 : Base(h) = Base(j)})]
        Index(l) == CHOOSE j \in DOMAIN chunks : Name(j) = l
    IN  [l \in {Name(j) : j \in DOMAIN chunks} |-> chunks[Index(l)]]

\* The items of the namespace that begins with key, split by the next segment.
NextSegments(S, key) ==
    LET Sub(i) == Plain(<<key, IF Len(req.ns[i]) > 1 THEN req.ns[i][2] ELSE Leaf>>)
        subs == {Sub(i) : i \in S}
    IN  IF Cardinality(subs) < 2 THEN Alphabetical(S)
        ELSE [l \in subs |-> {i \in S : Sub(i) = l}]

Key(i) == IF req.ns[i] = << >> THEN Other ELSE Head(req.ns[i])
KeyGroup(S, key) == {i \in S : Key(i) = key}
Outgrown(S) == {key \in {Key(i) : i \in S} : Cardinality(KeyGroup(S, key)) > req.max}

\* Groups by first segment, those too large split again; in one dictionary, in
\* which the group of a later key takes the label of an earlier one.
ByKey(S) ==
    LET Part(key) == IF key \in Outgrown(S) THEN NextSegments(KeyGroup(S, key), key)
                     ELSE [l \in {Plain(<<key>>)} |-> KeyGroup(S, key)]
        keys == {Key(i) : i \in S}
        Latest(l) == Max({key \in keys : l \in DOMAIN Part(key)})
    IN  [l \in UNION {DOMAIN Part(key) : key \in keys} |-> Part(Latest(l))[l]]

ByNamespace(S) ==
    /\ 2 * Cardinality({i \in S : req.ns[i] # << >>}) >= Cardinality(S)
    /\ Cardinality({Key(i) : i \in S}) >= 2
    /\ Cardinality(DOMAIN ByKey(S)) <= req.max

\* The clustering engine partitions S into at most k clusters, or gives none.
Clusterings(S) ==
    LET k == Min({Max({2, Ceil(Cardinality(S), req.target)}), req.max})
    IN  {{}} \cup {{{i \in S : f[i] = j} : j \in 1..k} \ {{}} : f \in [S -> 1..k]}

\* Clusters that are too large are cut; the counter runs over all the pieces.
Rebalanced(clusters) ==
    LET pieces == UNION {IF Cardinality(c) <= req.max THEN {c} ELSE Range(Chunks(c)) : c \in clusters}
        Name(p) == [words |-> << >>, n |-> Cardinality({q \in pieces : Min(q) < Min(p)})]
    IN  [l \in {Name(p) : p \in pieces} |-> CHOOSE p \in pieces : Name(p) = l]

Clustered(S, clusters) ==
    IF Cardinality(DOMAIN Rebalanced(clusters)) >= 2 THEN Rebalanced(clusters) ELSE Alphabetical(S)

\* The three strategies in the order in which they are tried.
Groupings(S) == IF ByNamespace(S) THEN {ByKey(S)}
                ELSE {Clustered(S, clusters) : clusters \in Clusterings(S)}

\* The labels that stay apart: all but the last ones, whatever the order is.
Kept(g) == kSubset(req.max - 1, DOMAIN g)

\* Mutant: the merge is forgotten.
Coalesced_Never(g) == {g}

\* Groups beyond max_children are merged into one, under a label of its own.
Coalesced(g) ==
    LET Merged(kept) == [words |-> << >>, n |-> Cardinality(DOMAIN g)]
    IN  IF Cardinality(DOMAIN g) <= req.max THEN {g}
        ELSE {[l \in kept \cup {Merged(kept)} |->
                 IF l \in kept THEN g[l] ELSE UNION {g[m] : m \in DOMAIN g \ kept}] : kept \in Kept(g)}

-----------------------------------------------------------------------------
BuildInit ==
    /\ req \in Request
    /\ groups = {Root}
    /\ leaves = {}
    /\ todo = {[node |-> Root, items |-> Catalog]}

Attach(job) ==
    /\ Cardinality(job.items) <= req.max
    /\ leaves' = leaves \cup {<<job.node, i>> : i \in job.items}
    /\ todo' = todo \ {job}
    /\ UNCHANGED <<req, groups>>

Split(job) ==
    /\ Cardinality(job.items) > req.max
    /\ \E g \in Groupings(job.items) : \E h \in Coalesced(g) :
          /\ groups' = groups \cup {Append(job.node, l) : l \in DOMAIN h}
          /\ todo' = (todo \ {job}) \cup {[node |-> Append(job.node, l), items |-> h[l]] : l \in DOMAIN h}
    /\ UNCHANGED <<req, leaves>>

Build == \E job \in todo : Attach(job) \/ Split(job)

BuildSpec == BuildInit /\ [][Build]_treeVars

-----------------------------------------------------------------------------
(* No node of the tree has more children than max_children, at any time of    *)
(* the build: "every node has at most max_children children".                  *)
Bounded == \A p \in groups : Cardinality(Kids(p)) + Cardinality(ItemsAt(p)) <= req.max

(* With two children or more, a group is smaller than the group it is split    *)
(* from, so the recursion of _build_subtree ends and the depth of the tree is  *)
(* bounded by the catalog.                                                     *)
GroupsShrink ==
    req.max > 1 => \A job \in todo : Len(job.node) + Cardinality(job.items) <= Cardinality(Catalog)

\* No namespace has the name of a letter, which may label an alphabetical part.
LettersApart == \A i, j \in Catalog : Key(i) # Letter[j]

(* When at most one namespace outgrows a node, the graph has each item of the  *)
(* catalog exactly once, whatever mixture of strategies built it.              *)
Placed ==
    todo = {} /\ Cardinality(Outgrown(Catalog)) <= 1 /\ LettersApart =>
        \A i \in Catalog : Cardinality({p \in groups : <<p, i>> \in leaves}) = 1

(* The tree is bounded, its recursion ends, and it loses no item it may not.     *)
TreeSound == Bounded /\ GroupsShrink /\ Placed

(* "All items reachable - every item in _items must be reachable from root_id": *)
(* what routing.instructions.md and test_all_items_reachable say of a built     *)
(* graph, here of every catalog.                                               *)
AllReachable == todo = {} => \A i \in Catalog : \E p \in groups : <<p, i>> \in leaves
=============================================================================
