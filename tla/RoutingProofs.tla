----------------------------- MODULE RoutingProofs -----------------------------
(***************************************************************************)
(* What a gateway chooses from and answers with, for any catalog: the tree of   *)
(* a catalog (TreeBuilder), a route over it (Router), the graph that is built,   *)
(* saved and loaded (ChoiceGraph), the fitted indices (IndexCache), and         *)
(* resources and prompts (PrimitiveGateway).                                   *)
(*                                                                         *)
(* A tree is bounded whatever the clustering engine answers.  A job's node has  *)
(* no children until the job is taken, nodes of jobs are distinct, and a job    *)
(* gives its node its own items or the labels of a coalesced grouping.         *)
(***************************************************************************)
EXTENDS MCRouting, SequenceTheorems, FiniteSetTheorems, NaturalsInduction,
        WellFoundedInduction, TLAPS

\* A dictionary of groups of S: finitely many labels, no item from elsewhere.
Grouping(g, S) == IsFiniteSet(DOMAIN g) /\ \A l \in DOMAIN g : g[l] \subseteq S

IsPath(p) == \E X : p \in Seq(X)

Distinct == \A j, k \in todo : j.node = k.node => j = k
Unexpanded == \A j \in todo : /\ j.node \in groups /\ j.items \subseteq Catalog
                              /\ Kids(j.node) = {} /\ ItemsAt(j.node) = {}
FewChildren == \A p \in groups : /\ IsPath(p) /\ IsFiniteSet(Kids(p))
                                 /\ Cardinality(Kids(p)) + Cardinality(ItemsAt(p)) <= req.max

Rooted == /\ \A g \in groups : g # Root => Front(g) \in groups
          /\ \A p, i : <<p, i>> \in leaves => p \in groups

IInv == req \in Request /\ Distinct /\ Unexpanded /\ FewChildren /\ Rooted

-----------------------------------------------------------------------------
(* The image of a finite set is finite and no larger. *)
LEMMA Image ==
    ASSUME NEW f, IsFiniteSet(DOMAIN f)
    PROVE  /\ IsFiniteSet({f[x] : x \in DOMAIN f})
           /\ Cardinality({f[x] : x \in DOMAIN f}) <= Cardinality(DOMAIN f)
<1> DEFINE T == {f[x] : x \in DOMAIN f}
           h == [x \in DOMAIN f |-> f[x]]
<1>1. h \in Surjection(DOMAIN f, T)
  BY DEF Surjection
<1>2. QED  BY <1>1, FS_Surjection

(* A set of numbers that is not empty has a least one. *)
LEMMA Least ==
    ASSUME NEW S \in SUBSET Nat, S # {}
    PROVE  \E m \in S : \A k \in S : m <= k
<1>1. PICK m \in S : \A k \in S : ~(<<k, m>> \in OpToRel(<, Nat))
  BY NatLessThanWellFounded, WFMin
<1>2. \A k \in S : ~(k < m)
  BY <1>1 DEF OpToRel
<1> QED  BY <1>2

(* A finite set of numbers that is not empty has a largest one. *)
LEMMA MaxExists ==
    ASSUME NEW K, K \subseteq Nat, IsFiniteSet(K), K # {}
    PROVE  Max(K) \in K
<1> DEFINE Bad == {n \in Nat : \E S \in SUBSET Nat : /\ IsFiniteSet(S) /\ S # {} /\ Cardinality(S) = n
                                                     /\ \A x \in S : \E y \in S : ~(x >= y)}
<1>1. Bad = {}
  <2> SUFFICES ASSUME Bad # {} PROVE FALSE
    OBVIOUS
  <2>1. PICK n \in Bad : \A m \in Bad : ~(<<m, n>> \in OpToRel(<, Nat))
    <3>1. Bad \subseteq Nat
      OBVIOUS
    <3>2. QED  BY <3>1, NatLessThanWellFounded, WFMin
  <2>2. \A m \in Bad : ~(m < n)
    BY <2>1 DEF OpToRel
  <2>3. PICK S \in SUBSET Nat : /\ IsFiniteSet(S) /\ S # {} /\ Cardinality(S) = n
                                /\ \A x \in S : \E y \in S : ~(x >= y)
    BY <2>1
  <2>4. PICK x \in S : TRUE
    BY <2>3
  <2> DEFINE R == S \ {x}
  <2>5. IsFiniteSet(R) /\ Cardinality(R) = n - 1 /\ R \in SUBSET Nat
    BY <2>3, <2>4, FS_RemoveElement
  <2>6. R # {}
    BY <2>3, <2>4
  <2>7. n - 1 \in Nat /\ n - 1 < n
    BY <2>5, FS_CardinalityType
  <2>8. n - 1 \notin Bad
    BY <2>2, <2>7
  <2>9. PICK y \in R : \A z \in R : y >= z
    BY <2>5, <2>6, <2>7, <2>8
  <2>10. x \in Nat /\ y \in Nat /\ y \in S
    BY <2>3, <2>4, <2>5, <2>9
  <2>11. PICK u \in S, v \in S : ~(x >= u) /\ ~(y >= v)
    BY <2>3, <2>4, <2>10
  <2>12. v = x
    BY <2>9, <2>11
  <2>13. u \in R
    BY <2>10, <2>11
  <2>14. y >= u
    BY <2>9, <2>13
  <2>15. u \in Nat
    BY <2>3, <2>11
  <2>16. QED  BY <2>10, <2>11, <2>12, <2>14, <2>15
<1>2. Cardinality(K) \in Nat
  BY FS_CardinalityType
<1>3. ~ \A x \in K : \E y \in K : ~(x >= y)
  BY <1>1, <1>2
<1>4. \E x \in K : \A y \in K : x >= y
  BY <1>3
<1>5. QED  BY <1>4 DEF Max

(* The numbers a request holds are usable ones. *)
LEMMA RequestFacts ==
    ASSUME req \in Request
    PROVE  /\ req.max \in Nat \ {0} /\ Catalog \subseteq Item /\ IsFiniteSet(Catalog)
           /\ \A i \in Catalog : req.ns[i] \in Seq(Word)
<1>1. IsRequest(req)
  BY RequestAssumption
<1>2. Catalog \subseteq Item
  BY <1>1 DEF IsRequest, Catalog
<1>3. IsFiniteSet(Catalog)
  BY <1>2, ItemAssumption, FS_Subset
<1>4. QED  BY <1>1, <1>2, <1>3 DEF IsRequest, Catalog

-----------------------------------------------------------------------------
LEMMA ChunksProper ==
    ASSUME req \in Request, NEW S, IsFiniteSet(S)
    PROVE  Grouping(Chunks(S), S)
<1> DEFINE k == Ceil(Cardinality(S), req.max)
<1>1. Cardinality(S) \in Nat /\ req.max \in Nat \ {0}
  BY RequestFacts, FS_CardinalityType
<1>2. k \in Int
  BY <1>1 DEF Ceil
<1>3. DOMAIN Chunks(S) = 1..k
  BY DEF Chunks
<1>4. IsFiniteSet(1..k)
  BY <1>2, FS_Interval
<1>5. \A j \in DOMAIN Chunks(S) : Chunks(S)[j] \subseteq S
  BY DEF Chunks
<1>6. QED  BY <1>3, <1>4, <1>5 DEF Grouping

LEMMA AlphabeticalProper ==
    ASSUME req \in Request, NEW S, IsFiniteSet(S)
    PROVE  Grouping(Alphabetical(S), S)
<1> DEFINE chunks == Chunks(S)
           Base(j) == LET first == Letter[Min(chunks[j])]
                          last == Letter[Max(chunks[j])]
                      IN  IF first # last THEN <<first, last>> ELSE <<first>>
           Name(j) == [words |-> Base(j), n |-> Cardinality({h \in 1..j - 1 : Base(h) = Base(j)})]
           Index(l) == CHOOSE j \in DOMAIN chunks : Name(j) = l
           names == [j \in DOMAIN chunks |-> Name(j)]
<1>1. Grouping(chunks, S)
  BY ChunksProper
<1> HIDE DEF chunks, Base
<1>2. Alphabetical(S) = [l \in {Name(j) : j \in DOMAIN chunks} |-> chunks[Index(l)]]
  BY DEF Alphabetical, chunks, Base
<1> HIDE DEF Name
<1>3. IsFiniteSet({names[j] : j \in DOMAIN names})
  BY <1>1, Image DEF Grouping
<1>4. {Name(j) : j \in DOMAIN chunks} = {names[j] : j \in DOMAIN names}
  OBVIOUS
<1>5. ASSUME NEW l \in {Name(j) : j \in DOMAIN chunks}
      PROVE  Index(l) \in DOMAIN chunks
  OBVIOUS
<1> HIDE DEF Index, names
<1>6. \A l \in {Name(j) : j \in DOMAIN chunks} : chunks[Index(l)] \subseteq S
  BY <1>1, <1>5 DEF Grouping
<1>7. QED  BY <1>2, <1>3, <1>4, <1>6 DEF Grouping

LEMMA NextSegmentsProper ==
    ASSUME req \in Request, NEW S, IsFiniteSet(S), NEW key
    PROVE  Grouping(NextSegments(S, key), S)
<1> DEFINE Sub(i) == Plain(<<key, IF Len(req.ns[i]) > 1 THEN req.ns[i][2] ELSE Leaf>>)
           subs == {Sub(i) : i \in S}
           f == [i \in S |-> Sub(i)]
<1>1. CASE Cardinality(subs) < 2
  <2>1. NextSegments(S, key) = Alphabetical(S)
    BY <1>1 DEF NextSegments
  <2>2. QED  BY <2>1, AlphabeticalProper
<1>2. CASE ~(Cardinality(subs) < 2)
  <2>1. NextSegments(S, key) = [l \in subs |-> {i \in S : Sub(i) = l}]
    BY <1>2 DEF NextSegments
  <2> HIDE DEF Sub
  <2>2. IsFiniteSet({f[i] : i \in DOMAIN f})
    BY Image
  <2>3. subs = {f[i] : i \in DOMAIN f}
    OBVIOUS
  <2>4. QED  BY <2>1, <2>2, <2>3 DEF Grouping
<1>3. QED  BY <1>1, <1>2

LEMMA ByKeyProper ==
    ASSUME req \in Request, NEW S, S \subseteq Catalog
    PROVE  Grouping(ByKey(S), S)
<1> DEFINE Part(key) == IF key \in Outgrown(S) THEN NextSegments(KeyGroup(S, key), key)
                        ELSE [l \in {Plain(<<key>>)} |-> KeyGroup(S, key)]
           keys == {Key(i) : i \in S}
           Owners(l) == {key \in keys : l \in DOMAIN Part(key)}
           f == [i \in S |-> Key(i)]
           labels == UNION {DOMAIN Part(key) : key \in keys}
           g == [key \in keys |-> DOMAIN Part(key)]
<1>1. IsFiniteSet(S)
  BY RequestFacts, FS_Subset
<1>2. IsFiniteSet({f[i] : i \in DOMAIN f})
  BY <1>1, Image
<1>3. keys = {f[i] : i \in DOMAIN f}
  OBVIOUS
<1>4. keys \subseteq Nat
  <2>1. \A i \in S : req.ns[i] \in Seq(Nat)
    BY RequestFacts DEF Word
  <2>2. \A i \in S : Key(i) \in Nat
    BY <2>1 DEF Key, Other
  <2>3. QED  BY <2>2
<1>5. \A key : Grouping(Part(key), S)
  <2> TAKE key
  <2>1. KeyGroup(S, key) \subseteq S
    BY DEF KeyGroup
  <2>2. IsFiniteSet(KeyGroup(S, key))
    BY <1>1, <2>1, FS_Subset
  <2>3. CASE key \in Outgrown(S)
    <3>1. Grouping(NextSegments(KeyGroup(S, key), key), KeyGroup(S, key))
      BY <2>2, NextSegmentsProper
    <3>2. QED  BY <2>1, <2>3, <3>1 DEF Grouping
  <2>4. CASE key \notin Outgrown(S)
    <3>1. IsFiniteSet({Plain(<<key>>)})
      BY FS_Singleton
    <3>2. QED  BY <2>1, <2>4, <3>1 DEF Grouping
  <2>5. QED  BY <2>3, <2>4
<1>6. ByKey(S) = [l \in labels |-> Part(Max(Owners(l)))[l]]
  BY DEF ByKey
<1> HIDE DEF Part
<1>7. IsFiniteSet(keys)
  BY <1>2, <1>3
<1>8. IsFiniteSet(labels)
  <2>1. IsFiniteSet({g[key] : key \in DOMAIN g})
    BY <1>7, Image
  <2>2. \A T \in {g[key] : key \in DOMAIN g} : IsFiniteSet(T)
    BY <1>5 DEF Grouping
  <2>3. {DOMAIN Part(key) : key \in keys} = {g[key] : key \in DOMAIN g}
    OBVIOUS
  <2>4. QED  BY <2>1, <2>2, <2>3, FS_UNION
<1>9. ASSUME NEW l \in labels
      PROVE  Part(Max(Owners(l)))[l] \subseteq S
  <2>1. Owners(l) # {} /\ Owners(l) \subseteq keys
    OBVIOUS
  <2>2. IsFiniteSet(Owners(l)) /\ Owners(l) \subseteq Nat
    BY <1>4, <1>7, <2>1, FS_Subset
  <2>3. Max(Owners(l)) \in Owners(l)
    BY <2>1, <2>2, MaxExists
  <2>4. l \in DOMAIN Part(Max(Owners(l)))
    BY <2>3
  <2>5. QED  BY <1>5, <2>4 DEF Grouping
<1>10. QED  BY <1>6, <1>8, <1>9 DEF Grouping

LEMMA RebalancedProper ==
    ASSUME req \in Request, NEW S, IsFiniteSet(S), NEW clusters \in Clusterings(S)
    PROVE  Grouping(Rebalanced(clusters), S)
<1> DEFINE Cut(c) == IF Cardinality(c) <= req.max THEN {c} ELSE Range(Chunks(c))
           pieces == UNION {Cut(c) : c \in clusters}
           Name(p) == [words |-> << >>, n |-> Cardinality({q \in pieces : Min(q) < Min(p)})]
           f == [p \in pieces |-> Name(p)]
<1>1. \A c \in clusters : c \subseteq S
  BY DEF Clusterings
<1>2. \A c \in clusters : Cut(c) \subseteq SUBSET S
  <2> TAKE c \in clusters
  <2>1. Grouping(Chunks(c), c)
    BY <1>1, ChunksProper, FS_Subset
  <2>2. Range(Chunks(c)) \subseteq SUBSET S
    BY <1>1, <2>1 DEF Grouping, Range
  <2>3. QED  BY <1>1, <2>2
<1>3. Rebalanced(clusters) = [l \in {Name(p) : p \in pieces} |-> CHOOSE p \in pieces : Name(p) = l]
  BY DEF Rebalanced
<1> HIDE DEF Cut
<1>4. pieces \subseteq SUBSET S
  BY <1>2
<1>5. IsFiniteSet(pieces)
  BY <1>4, FS_SUBSET, FS_Subset
<1> HIDE DEF pieces, Name
<1>6. IsFiniteSet({f[p] : p \in DOMAIN f})
  BY <1>5, Image
<1>7. {Name(p) : p \in pieces} = {f[p] : p \in DOMAIN f}
  OBVIOUS
<1>8. ASSUME NEW l \in {Name(p) : p \in pieces}
      PROVE  (CHOOSE p \in pieces : Name(p) = l) \in pieces
  <2>1. \E p \in pieces : Name(p) = l
    OBVIOUS
  <2>2. QED  BY <2>1
<1>9. DOMAIN Rebalanced(clusters) = {Name(p) : p \in pieces}
  BY <1>3
<1>10. ASSUME NEW l \in DOMAIN Rebalanced(clusters)
       PROVE  Rebalanced(clusters)[l] \in pieces
  <2>1. l \in {Name(p) : p \in pieces}
    BY <1>9
  <2>2. Rebalanced(clusters)[l] = CHOOSE p \in pieces : Name(p) = l
    BY <1>3, <2>1
  <2>3. QED  BY <1>8, <2>1, <2>2
<1>11. IsFiniteSet(DOMAIN Rebalanced(clusters))
  BY <1>6, <1>7, <1>9
<1>12. \A l \in DOMAIN Rebalanced(clusters) : Rebalanced(clusters)[l] \subseteq S
  BY <1>4, <1>10
<1>13. QED  BY <1>11, <1>12 DEF Grouping

(* Whatever strategy is taken, and whatever the engine answers. *)
LEMMA GroupingsProper ==
    ASSUME req \in Request, NEW S, S \subseteq Catalog, NEW g \in Groupings(S)
    PROVE  Grouping(g, S)
<1>1. IsFiniteSet(S)
  BY RequestFacts, FS_Subset
<1>2. Grouping(ByKey(S), S)
  BY ByKeyProper
<1>3. \A clusters \in Clusterings(S) : Grouping(Clustered(S, clusters), S)
  BY <1>1, RebalancedProper, AlphabeticalProper DEF Clustered
<1>4. QED  BY <1>2, <1>3 DEF Groupings

(* Coalescing leaves at most max_children groups of the same items. *)
LEMMA CoalescedProper ==
    ASSUME req \in Request, NEW S, NEW g, Grouping(g, S), NEW h \in Coalesced(g)
    PROVE  Grouping(h, S) /\ Cardinality(DOMAIN h) <= req.max
<1>1. req.max \in Nat \ {0}
  BY RequestFacts
<1>2. CASE Cardinality(DOMAIN g) <= req.max
  BY <1>2 DEF Coalesced
<1>3. CASE ~(Cardinality(DOMAIN g) <= req.max)
  <2> DEFINE m == [words |-> << >>, n |-> Cardinality(DOMAIN g)]
             Merge(kept) == [l \in kept \cup {m} |->
                               IF l \in kept THEN g[l] ELSE UNION {g[o] : o \in DOMAIN g \ kept}]
  <2>1. Coalesced(g) = {Merge(kept) : kept \in Kept(g)}
    BY <1>3 DEF Coalesced
  <2> HIDE DEF m
  <2>2. PICK kept \in Kept(g) : h = Merge(kept)
    BY <2>1
  <2>3. kept \subseteq DOMAIN g /\ Cardinality(kept) = req.max - 1
    BY DEF Kept, kSubset
  <2>4. IsFiniteSet(kept)
    BY <2>3, FS_Subset DEF Grouping
  <2>5. IsFiniteSet(kept \cup {m}) /\ Cardinality(kept \cup {m}) <= req.max
    <3>1. /\ IsFiniteSet(kept \cup {m})
          /\ Cardinality(kept \cup {m}) = IF m \in kept THEN Cardinality(kept) ELSE Cardinality(kept) + 1
      BY <2>4, FS_AddElement
    <3>2. QED  BY <1>1, <2>3, <3>1
  <2>6. DOMAIN h = kept \cup {m}
    BY <2>2
  <2>7. \A l \in DOMAIN h : h[l] \subseteq S
    BY <2>2, <2>3 DEF Grouping
  <2>8. QED  BY <2>5, <2>6, <2>7 DEF Grouping
<1>4. QED  BY <1>2, <1>3

-----------------------------------------------------------------------------
(* The path of a child is a path, and its parent is its front. *)
LEMMA ChildPath ==
    ASSUME NEW p, IsPath(p), NEW l
    PROVE  /\ IsPath(Append(p, l)) /\ Append(p, l) # Root
           /\ Front(Append(p, l)) = p
<1>1. PICK X : p \in Seq(X)
  BY DEF IsPath
<1>2. p \in Seq(X \cup {l})
  BY <1>1
<1> DEFINE Y == X \cup {l}
<1>3. l \in Y /\ p \in Seq(Y)
  BY <1>2
<1> HIDE DEF Y
<1>4. Append(p, l) \in Seq(Y) /\ Len(Append(p, l)) = Len(p) + 1
  BY <1>3
<1>5. Front(Append(p, l)) = SubSeq(Append(p, l), 1, Len(p))
  BY <1>3, <1>4 DEF Front
<1>6. SubSeq(Append(p, l), 1, Len(p)) = p
  BY <1>3
<1>7. Append(p, l) # Root
  <2>1. Len(p) \in Nat /\ Len(Root) = 0
    BY <1>3 DEF Root
  <2>2. Len(Append(p, l)) # Len(Root)
    BY <1>4, <2>1
  <2>3. QED  BY <2>2
<1>8. QED  BY <1>4, <1>5, <1>6, <1>7 DEF IsPath

LEMMA SiblingsDiffer ==
    ASSUME NEW p, IsPath(p), NEW l, NEW m, Append(p, l) = Append(p, m)
    PROVE  l = m
<1>1. PICK X : p \in Seq(X)
  BY DEF IsPath
<1> DEFINE Y == X \cup {l, m}
<1>2. l \in Y /\ m \in Y /\ p \in Seq(Y)
  BY <1>1
<1> HIDE DEF Y
<1>3. Append(p, l)[Len(p) + 1] = l /\ Append(p, m)[Len(p) + 1] = m
  BY <1>2
<1>4. QED  BY <1>3

-----------------------------------------------------------------------------
LEMMA InitIInv == BuildInit => IInv
<1> SUFFICES ASSUME BuildInit PROVE IInv
  OBVIOUS
<1> USE DEF BuildInit
<1>1. Distinct
  BY DEF Distinct
<1>2. Kids(Root) = {} /\ ItemsAt(Root) = {}
  BY DEF Kids, ItemsAt
<1>3. Unexpanded
  BY <1>2 DEF Unexpanded
<1>4. IsPath(Root)
  <2>1. Root \in Seq({})
    BY DEF Root
  <2>2. QED  BY <2>1 DEF IsPath
<1>5. IsFiniteSet({}) /\ Cardinality({}) = 0 /\ req.max \in Nat \ {0}
  BY RequestFacts, FS_EmptySet
<1>6. FewChildren
  BY <1>2, <1>4, <1>5 DEF FewChildren
<1>7. Rooted
  BY DEF Rooted
<1>8. QED  BY <1>1, <1>3, <1>6, <1>7 DEF IInv

(* A job small enough hangs its items on its node, which had no children. *)
LEMMA AttachStep ==
    ASSUME IInv, NEW job \in todo, Attach(job)
    PROVE  IInv'
<1> USE DEF IInv, Attach
<1>1. req' \in Request /\ req' = req /\ groups' = groups /\ Catalog' = Catalog
  BY DEF Catalog
<1>2. \A p : Kids(p)' = Kids(p)
  BY DEF Kids
<1>3. \A p : p # job.node => ItemsAt(p)' = ItemsAt(p)
  BY DEF ItemsAt
<1>4. ItemsAt(job.node)' = job.items
  <2>1. ItemsAt(job.node) = {} /\ job.items \subseteq Item
    BY RequestFacts DEF Unexpanded
  <2>2. QED  BY <2>1 DEF ItemsAt
<1>5. Distinct'
  BY DEF Distinct
<1>6. \A j \in todo' : j \in todo /\ j.node # job.node
  BY DEF Distinct
<1>7. Unexpanded'
  BY <1>1, <1>2, <1>3, <1>6 DEF Unexpanded
<1>8. Kids(job.node) = {} /\ Cardinality(Kids(job.node)) = 0
  BY FS_EmptySet DEF Unexpanded
<1>9. Cardinality(job.items) \in Nat
  <2>1. IsFiniteSet(job.items)
    BY RequestFacts, FS_Subset DEF Unexpanded
  <2>2. QED  BY <2>1, FS_CardinalityType
<1>10. FewChildren'
  <2> SUFFICES ASSUME NEW p \in groups
               PROVE  /\ IsPath(p) /\ IsFiniteSet(Kids(p)')
                      /\ Cardinality(Kids(p)') + Cardinality(ItemsAt(p)') <= req.max
    BY <1>1 DEF FewChildren
  <2>1. IsPath(p) /\ IsFiniteSet(Kids(p)')
    BY <1>2 DEF FewChildren
  <2>2. CASE p = job.node
    <3>1. Kids(p)' = Kids(job.node) /\ ItemsAt(p)' = job.items
      BY <1>2, <1>4, <2>2
    <3>2. Cardinality(Kids(p)') = 0 /\ Cardinality(ItemsAt(p)') = Cardinality(job.items)
      BY <1>8, <3>1
    <3>3. Cardinality(job.items) <= req.max
      OBVIOUS
    <3>4. QED  BY <1>9, <2>1, <3>2, <3>3
  <2>3. CASE p # job.node
    BY <1>2, <1>3, <2>1, <2>3 DEF FewChildren
  <2>4. QED  BY <2>1, <2>2, <2>3
<1>11. Rooted'
  <2>1. \A p, i : <<p, i>> \in leaves' => <<p, i>> \in leaves \/ p = job.node
    OBVIOUS
  <2>2. job.node \in groups
    BY DEF Unexpanded
  <2>3. QED  BY <1>1, <2>1, <2>2 DEF Rooted
<1>12. QED  BY <1>1, <1>5, <1>7, <1>10, <1>11

(* A larger one gets the groups of a coalesced grouping, each with a job. *)
LEMMA SplitStep ==
    ASSUME IInv, NEW job \in todo, Split(job)
    PROVE  IInv'
<1> USE DEF IInv
<1> DEFINE n == job.node
<1> DEFINE Grown(h) ==
             /\ groups' = groups \cup {Append(n, l) : l \in DOMAIN h}
             /\ todo' = (todo \ {job}) \cup {[node |-> Append(n, l), items |-> h[l]] : l \in DOMAIN h}
<1>0. PICK g \in Groupings(job.items) : \E h \in Coalesced(g) : Grown(h)
  BY DEF Split
<1>1. PICK h \in Coalesced(g) : Grown(h)
  BY <1>0
<1>2. req' = req /\ leaves' = leaves /\ Catalog' = Catalog
  BY DEF Split, Catalog
<1>3. /\ n \in groups /\ job.items \subseteq Catalog /\ IsPath(n)
      /\ Kids(n) = {} /\ ItemsAt(n) = {}
  BY DEF Unexpanded, FewChildren
<1>4. Grouping(g, job.items)
  BY <1>3, GroupingsProper
<1>5. Grouping(h, job.items) /\ Cardinality(DOMAIN h) <= req.max
  BY <1>4, CoalescedProper
<1> DEFINE new == {Append(n, l) : l \in DOMAIN h}
           f == [l \in DOMAIN h |-> Append(n, l)]
<1>6. \A c \in new : IsPath(c) /\ c # Root /\ Front(c) = n
  BY <1>3, ChildPath
<1>7. new \cap groups = {}
  BY <1>3, <1>6 DEF Kids
<1>8. \A p : ItemsAt(p)' = ItemsAt(p)
  BY <1>2 DEF ItemsAt
<1>9. \A p : p # n => Kids(p)' = Kids(p)
  BY <1>1, <1>6 DEF Kids
<1>10. Kids(n)' = new
  BY <1>1, <1>3, <1>6 DEF Kids
<1>11. new = {f[l] : l \in DOMAIN f}
  OBVIOUS
<1>12. IsFiniteSet(new) /\ Cardinality(new) <= Cardinality(DOMAIN h)
  <2>1. IsFiniteSet(DOMAIN f) /\ DOMAIN f = DOMAIN h
    BY <1>5 DEF Grouping
  <2> HIDE DEF f, new
  <2>2. QED  BY <1>11, <2>1, Image
<1>13. \A c \in new : Kids(c)' = {} /\ ItemsAt(c)' = {}
  <2> TAKE c \in new
  <2>1. c \notin groups /\ c # n
    BY <1>3, <1>7
  <2>2. \A k \in groups' : k # Root => Front(k) # c
    BY <1>1, <1>6, <2>1 DEF Rooted
  <2>3. ItemsAt(c) = {}
    BY <2>1 DEF Rooted, ItemsAt
  <2>4. QED  BY <1>8, <2>2, <2>3 DEF Kids
<1>14. \A j \in todo' : \/ j \in todo /\ j.node # n /\ j.node \in groups
                        \/ \E l \in DOMAIN h : /\ j = [node |-> Append(n, l), items |-> h[l]]
                                               /\ j.node \in new
  BY <1>1 DEF Distinct, Unexpanded
<1>15. Distinct'
  <2> SUFFICES ASSUME NEW j \in todo', NEW k \in todo', j.node = k.node PROVE j = k
    BY DEF Distinct
  <2>1. CASE j \in todo /\ k \in todo
    BY <2>1 DEF Distinct
  <2>2. CASE j.node \in new /\ k.node \in new
    <3>1. j.node \notin groups
      BY <1>7, <2>2
    <3>2. PICK l \in DOMAIN h : j = [node |-> Append(n, l), items |-> h[l]]
      BY <1>14, <3>1
    <3>3. PICK m \in DOMAIN h : k = [node |-> Append(n, m), items |-> h[m]]
      BY <1>14, <3>1
    <3>4. Append(n, l) = Append(n, m)
      BY <3>2, <3>3
    <3>5. l = m
      BY <1>3, <3>4, SiblingsDiffer
    <3>6. QED  BY <3>2, <3>3, <3>5
  <2>3. QED  BY <1>7, <1>14, <2>1, <2>2
<1>16. Unexpanded'
  <2> SUFFICES ASSUME NEW j \in todo'
               PROVE  /\ j.node \in groups' /\ j.items \subseteq Catalog
                      /\ Kids(j.node)' = {} /\ ItemsAt(j.node)' = {}
    BY <1>2 DEF Unexpanded
  <2>1. CASE j \in todo /\ j.node # n
    BY <1>1, <1>8, <1>9, <2>1 DEF Unexpanded
  <2>2. CASE \E l \in DOMAIN h : j = [node |-> Append(n, l), items |-> h[l]] /\ j.node \in new
    <3>1. PICK l \in DOMAIN h : j = [node |-> Append(n, l), items |-> h[l]] /\ j.node \in new
      BY <2>2
    <3>2. h[l] \subseteq Catalog
      BY <1>3, <1>5 DEF Grouping
    <3>3. QED  BY <1>1, <1>13, <3>1, <3>2
  <2>3. QED  BY <1>14, <2>1, <2>2
<1>17. FewChildren'
  <2> SUFFICES ASSUME NEW p \in groups'
               PROVE  /\ IsPath(p) /\ IsFiniteSet(Kids(p)')
                      /\ Cardinality(Kids(p)') + Cardinality(ItemsAt(p)') <= req.max
    BY <1>2 DEF FewChildren
  <2>1. Cardinality({}) = 0 /\ IsFiniteSet({}) /\ req.max \in Nat
    BY RequestFacts, FS_EmptySet
  <2>2. CASE p = n
    <3>1. Cardinality(new) \in Nat /\ Cardinality(DOMAIN h) \in Nat
      BY <1>5, <1>12, FS_CardinalityType DEF Grouping
    <3>2. Kids(p)' = new /\ ItemsAt(p)' = {}
      BY <1>3, <1>8, <1>10, <2>2
    <3>3. QED  BY <1>3, <1>5, <1>12, <2>1, <2>2, <3>1, <3>2
  <2>3. CASE p \in groups /\ p # n
    BY <1>8, <1>9, <2>3 DEF FewChildren
  <2>4. CASE p \in new
    <3>1. IsPath(p) /\ Kids(p)' = {} /\ ItemsAt(p)' = {}
      BY <1>6, <1>13, <2>4
    <3>2. Cardinality(Kids(p)') = 0 /\ Cardinality(ItemsAt(p)') = 0 /\ 0 + 0 <= req.max
      BY <2>1, <3>1
    <3>3. QED  BY <2>1, <3>1, <3>2
  <2>5. QED  BY <1>1, <2>2, <2>3, <2>4
<1>18. Rooted'
  BY <1>1, <1>2, <1>3, <1>6 DEF Rooted
<1>19. QED  BY <1>2, <1>15, <1>16, <1>17, <1>18

-----------------------------------------------------------------------------
(* IInv is an invariant of the builder. *)
THEOREM BuilderInvariant == BuildSpec => []IInv
<1>1. IInv /\ [Build]_treeVars => IInv'
  <2> SUFFICES ASSUME IInv, [Build]_treeVars PROVE IInv'
    OBVIOUS
  <2>1. CASE Build
    BY <2>1, AttachStep, SplitStep DEF Build
  <2>2. CASE UNCHANGED treeVars
    BY <2>2 DEF treeVars, IInv, Distinct, Unexpanded, FewChildren, Rooted, Kids, ItemsAt, Catalog
  <2>3. QED  BY <2>1, <2>2
<1>2. QED  BY <1>1, InitIInv, PTL DEF BuildSpec

(* No node of a tree has more than max_children children, during the build or  *)
(* after it, for every catalog and every clustering engine.                    *)
THEOREM TreeBounded == BuildSpec => []Bounded
<1>1. IInv => Bounded
  BY DEF IInv, FewChildren, Bounded
<1>2. QED  BY <1>1, BuilderInvariant, PTL

-----------------------------------------------------------------------------
(***************************************************************************)
(* Every strategy gives two groups or more, none empty, without a common item   *)
(* and, unless a label is taken twice, with all items between them.  Chunks are *)
(* cut at ranks, and ranks number a set; so a group is smaller than what it is  *)
(* split from, and an item is in one job or on one leaf at any time.           *)
(***************************************************************************)
\* The rank of an element of a finite set of numbers: how many are no larger.
RankIn(S, i) == Cardinality({j \in S : j <= i})

\* Ranks number a set from 1.
LEMMA Ranks ==
    ASSUME NEW S, S \subseteq Nat, IsFiniteSet(S)
    PROVE  /\ \A i \in S : RankIn(S, i) \in 1..Cardinality(S)
           /\ \A i, j \in S : RankIn(S, i) = RankIn(S, j) => i = j
           /\ \A r \in 1..Cardinality(S) : \E i \in S : RankIn(S, i) = r
<1> DEFINE n == Cardinality(S)
           Upto(i) == {j \in S : j <= i}
           f == [i \in S |-> RankIn(S, i)]
<1>1. n \in Nat
  BY FS_CardinalityType
<1>2. \A i \in S : IsFiniteSet(Upto(i)) /\ Cardinality(Upto(i)) \in Nat /\ Cardinality(Upto(i)) <= n
  BY FS_Subset, FS_CardinalityType
<1>3. \A i \in S : RankIn(S, i) \in 1..n
  <2> TAKE i \in S
  <2>1. i \in Upto(i)
    OBVIOUS
  <2>2. Cardinality(Upto(i)) # 0
    BY <1>2, <2>1, FS_EmptySet
  <2> QED  BY <1>1, <1>2, <2>2 DEF RankIn
<1>4. \A i, j \in S : i < j => RankIn(S, i) < RankIn(S, j)
  <2> SUFFICES ASSUME NEW i \in S, NEW j \in S, i < j PROVE RankIn(S, i) < RankIn(S, j)
    OBVIOUS
  <2>0. i \in Nat /\ j \in Nat /\ \A m \in S : m \in Nat
    OBVIOUS
  <2>1. Upto(i) \in SUBSET Upto(j) /\ j \in Upto(j) /\ j \notin Upto(i)
    <3>1. \A m \in S : m <= i => m <= j
      BY <2>0
    <3>2. j <= j /\ ~(j <= i)
      BY <2>0
    <3> QED  BY <3>1, <3>2
  <2>2. /\ Cardinality(Upto(i)) <= Cardinality(Upto(j))
        /\ Cardinality(Upto(j)) = Cardinality(Upto(i)) => Upto(j) = Upto(i)
    BY <1>2, <2>1, FS_Subset
  <2> QED  BY <1>2, <2>1, <2>2 DEF RankIn
<1>5. \A i, j \in S : RankIn(S, i) = RankIn(S, j) => i = j
  <2> SUFFICES ASSUME NEW i \in S, NEW j \in S, RankIn(S, i) = RankIn(S, j), i # j PROVE FALSE
    OBVIOUS
  <2>1. i \in Nat /\ j \in Nat /\ RankIn(S, i) \in Nat
    BY <1>1, <1>3
  <2> QED  BY <1>4, <2>1
<1>6. f \in Injection(S, 1..n)
  BY <1>3, <1>5 DEF Injection, IsInjective
<1>7. IsFiniteSet(1..n) /\ Cardinality(1..n) = n
  <2>1. 1 \in Int /\ n \in Int
    BY <1>1
  <2> QED  BY <1>1, <2>1, FS_Interval
<1>8. f \in Surjection(S, 1..n)
  BY <1>6, <1>7, FS_Injection
<1> QED  BY <1>3, <1>5, <1>8 DEF Surjection

\* A cover of S by groups without common items.
NoOverlap(g) == \A l, m \in DOMAIN g : l # m => g[l] \cap g[m] = {}
NoneEmpty(g) == \A l \in DOMAIN g : g[l] # {}
Covers(g, S) == \A i \in S : \E l \in DOMAIN g : i \in g[l]

\* Where chunk j of n items in k chunks ends.
ChunkEnd(n, k, j) == j * (n \div k) + Min({j, n % k})

LEMMA MinTwo == ASSUME NEW a \in Int, NEW b \in Int PROVE Min({a, b}) = IF a <= b THEN a ELSE b
BY DEF Min

LEMMA ChunkEnds ==
    ASSUME NEW n \in Nat \ {0}, NEW k \in 1..n
    PROVE  /\ ChunkEnd(n, k, 0) = 0 /\ ChunkEnd(n, k, k) = n
           /\ \A j \in 0..k : ChunkEnd(n, k, j) \in Nat
           /\ \A j \in 1..k : ChunkEnd(n, k, j - 1) < ChunkEnd(n, k, j)
           /\ \A i, j \in 0..k : i <= j => ChunkEnd(n, k, i) <= ChunkEnd(n, k, j)
<1> DEFINE q == n \div k
           r == n % k
<1>1. q \in Nat /\ q >= 1 /\ r \in 0..(k - 1) /\ n = k * q + r
  OBVIOUS
<1> HIDE DEF q, r
<1>2. \A j \in 0..k : /\ ChunkEnd(n, k, j) = j * q + (IF j <= r THEN j ELSE r)
                      /\ j * q \in Nat
  BY <1>1, MinTwo DEF ChunkEnd, q, r
<1>3. \A j \in 1..k : j * q = (j - 1) * q + q
  BY <1>1
<1>4. \A i, j \in 0..k : i <= j => i * q <= j * q
  BY <1>1
<1>5. 0 * q = 0
  BY <1>1
<1>6. /\ ChunkEnd(n, k, 0) = 0 /\ ChunkEnd(n, k, k) = n
      /\ \A j \in 0..k : ChunkEnd(n, k, j) \in Nat
  BY <1>1, <1>2, <1>5
<1>7. \A j \in 1..k : ChunkEnd(n, k, j - 1) < ChunkEnd(n, k, j)
  <2> TAKE j \in 1..k
  <2>1. j - 1 \in 0..k /\ j \in 0..k
    OBVIOUS
  <2> HIDE DEF q
  <2> QED  BY <1>1, <1>2, <1>3, <2>1
<1>8. \A i, j \in 0..k : i <= j => ChunkEnd(n, k, i) <= ChunkEnd(n, k, j)
  BY <1>1, <1>2, <1>4
<1> QED  BY <1>6, <1>7, <1>8

LEMMA ChunksApart ==
    ASSUME req \in Request, NEW S, S \subseteq Catalog, S # {}
    PROVE  /\ DOMAIN Chunks(S) = 1..Ceil(Cardinality(S), req.max)
           /\ Ceil(Cardinality(S), req.max) \in 1..Cardinality(S)
           /\ NoOverlap(Chunks(S)) /\ NoneEmpty(Chunks(S)) /\ Covers(Chunks(S), S)
<1> DEFINE n == Cardinality(S)
           k == Ceil(n, req.max)
           End(j) == ChunkEnd(n, k, j)
<1>1. S \subseteq Nat /\ IsFiniteSet(S) /\ n \in Nat \ {0} /\ req.max \in Nat \ {0}
  <2>1. S \subseteq Item /\ Item \subseteq Nat /\ IsFiniteSet(S)
    BY RequestFacts, FS_Subset, ItemAssumption
  <2> QED  BY <2>1, RequestFacts, FS_CardinalityType, FS_EmptySet
<1>2. k \in 1..n
  BY <1>1 DEF Ceil
<1>3. Chunks(S) = [j \in 1..k |-> {i \in S : End(j - 1) < RankIn(S, i) /\ RankIn(S, i) <= End(j)}]
  BY DEF Chunks, ChunkEnd, RankIn
<1> HIDE DEF n, k
<1>4. /\ End(0) = 0 /\ End(k) = n
      /\ \A j \in 0..k : End(j) \in Nat
      /\ \A j \in 1..k : End(j - 1) < End(j)
      /\ \A i, j \in 0..k : i <= j => End(i) <= End(j)
  BY <1>1, <1>2, ChunkEnds
<1> HIDE DEF End
<1>5. /\ \A i \in S : RankIn(S, i) \in 1..n
      /\ \A r \in 1..n : \E i \in S : RankIn(S, i) = r
  BY <1>1, Ranks DEF n
<1>6. \A j \in 1..k : j \in 0..k /\ j - 1 \in 0..k
  BY <1>1, <1>2
<1>7. NoneEmpty(Chunks(S))
  <2> SUFFICES ASSUME NEW j \in 1..k PROVE Chunks(S)[j] # {}
    BY <1>3 DEF NoneEmpty
  <2>1. k \in 0..k /\ j <= k /\ End(j) \in Nat /\ End(j - 1) \in Nat
    BY <1>1, <1>2, <1>4, <1>6
  <2>2. End(j) \in 1..n
    BY <1>4, <1>6, <2>1
  <2>3. PICK i \in S : RankIn(S, i) = End(j)
    BY <1>5, <2>2
  <2> QED  BY <1>3, <1>4, <2>1, <2>3
<1>8. NoOverlap(Chunks(S))
  <2> SUFFICES ASSUME NEW j \in 1..k, NEW m \in 1..k, j < m, NEW i \in Chunks(S)[j], i \in Chunks(S)[m]
               PROVE  FALSE
    <3>1. \A j, m \in 1..k : j < m => Chunks(S)[j] \cap Chunks(S)[m] = {}
      OBVIOUS
    <3>2. \A j, m \in 1..k : j # m => j < m \/ m < j
      BY <1>2
    <3> QED  BY <1>3, <3>1, <3>2 DEF NoOverlap
  <2>1. j \in 0..k /\ m - 1 \in 0..k /\ j <= m - 1
    BY <1>2, <1>6
  <2>2. End(j) <= End(m - 1) /\ End(j) \in Nat /\ End(m - 1) \in Nat
    BY <1>4, <2>1
  <2>3. i \in S /\ RankIn(S, i) <= End(j) /\ End(m - 1) < RankIn(S, i)
    BY <1>3
  <2>4. RankIn(S, i) \in Nat
    BY <1>5, <2>3
  <2> QED  BY <2>2, <2>3, <2>4
<1>9. Covers(Chunks(S), S)
  <2> SUFFICES ASSUME NEW i \in S PROVE \E j \in 1..k : i \in Chunks(S)[j]
    BY <1>3 DEF Covers
  <2> DEFINE Reach == {j \in 0..k : RankIn(S, i) <= End(j)}
  <2>1. RankIn(S, i) \in 1..n
    BY <1>5
  <2>2. Reach \in SUBSET Nat /\ k \in Reach
    BY <1>1, <1>2, <1>4, <2>1
  <2>3. PICK j \in Reach : \A m \in Reach : j <= m
    BY <2>2, Least
  <2>4. j # 0
    BY <1>4, <2>1, <2>3
  <2>5. j \in 1..k /\ j - 1 \in 0..k /\ j - 1 < j
    BY <1>2, <2>3, <2>4
  <2>6. ~(RankIn(S, i) <= End(j - 1))
    BY <2>3, <2>5
  <2>7. End(j - 1) < RankIn(S, i)
    BY <1>4, <2>1, <2>5, <2>6
  <2> QED  BY <1>3, <2>3, <2>5, <2>7
<1> QED  BY <1>2, <1>3, <1>7, <1>8, <1>9 DEF n, k

\* What a strategy must give: labels that are ones, groups that are not empty and
\* have no item in common, at least two of them, and room for the label of a merge.
Parts(g) == DOMAIN g \subseteq Label /\ NoOverlap(g) /\ NoneEmpty(g)
Several(g) == \E l, m \in DOMAIN g : l # m
MergedFree(g) == [words |-> << >>, n |-> Cardinality(DOMAIN g)] \notin DOMAIN g
Worded(g) == \A l \in DOMAIN g : l.words # << >>
Proper(g) == Parts(g) /\ Several(g) /\ MergedFree(g)

\* A label of one word and no counter has the first letter of an item of S.
Letters(g, S) == \A l \in DOMAIN g : \A k : l = Plain(<<k>>) => \E i \in S : k = Letter[i]

LEMMA MinOf == ASSUME NEW S \in SUBSET Nat, S # {} PROVE Min(S) \in S /\ \A i \in S : Min(S) <= i
BY Least DEF Min

LEMMA TwoOf == ASSUME NEW S, IsFiniteSet(S), Cardinality(S) >= 2 PROVE \E x, y \in S : x # y
<1> SUFFICES ASSUME \A x, y \in S : x = y PROVE FALSE
  OBVIOUS
<1>1. Cardinality(S) \in Nat /\ Cardinality(S) # 0
  BY FS_CardinalityType
<1>2. PICK x \in S : TRUE
  BY <1>1, FS_EmptySet
<1>3. S = {x}
  BY <1>2
<1> QED  BY <1>3, FS_Singleton

LEMMA ItemsOf == ASSUME req \in Request, NEW S, S \subseteq Catalog
                 PROVE  /\ S \in SUBSET Nat /\ IsFiniteSet(S) /\ Cardinality(S) \in Nat
                        /\ req.max \in Nat \ {0} /\ \A i \in S : Letter[i] \in Word
<1>1. S \subseteq Item /\ Item \subseteq Nat /\ IsFiniteSet(S)
  BY RequestFacts, FS_Subset, ItemAssumption
<1> QED  BY <1>1, RequestFacts, FS_CardinalityType, ItemAssumption

LEMMA NoWords == \A g : Worded(g) => MergedFree(g)
<1>1. \A n : [words |-> << >>, n |-> n].words = << >>
  OBVIOUS
<1> QED  BY <1>1 DEF Worded, MergedFree

LEMMA AlphabeticalParts ==
    ASSUME req \in Request, NEW S, S \subseteq Catalog, Cardinality(S) > req.max
    PROVE  /\ Proper(Alphabetical(S)) /\ Worded(Alphabetical(S))
           /\ Covers(Alphabetical(S), S) /\ Letters(Alphabetical(S), S)
<1> DEFINE chunks == Chunks(S)
           k == Ceil(Cardinality(S), req.max)
           first(j) == Letter[Min(chunks[j])]
           last(j) == Letter[Max(chunks[j])]
           Base(j) == IF first(j) # last(j) THEN <<first(j), last(j)>> ELSE <<first(j)>>
           Same(j) == {h \in 1..j - 1 : Base(h) = Base(j)}
           Name(j) == [words |-> Base(j), n |-> Cardinality(Same(j))]
           Index(l) == CHOOSE j \in DOMAIN chunks : Name(j) = l
           g == Alphabetical(S)
<1>1. /\ S \in SUBSET Nat /\ IsFiniteSet(S) /\ Cardinality(S) \in Nat \ {0} /\ req.max \in Nat \ {0}
      /\ S # {} /\ \A i \in S : Letter[i] \in Word
  <2>1. Cardinality(S) # 0
    BY ItemsOf
  <2> QED  BY <2>1, ItemsOf, FS_EmptySet
<1>2. /\ DOMAIN chunks = 1..k /\ k \in 1..Cardinality(S)
      /\ NoOverlap(chunks) /\ NoneEmpty(chunks) /\ Covers(chunks, S)
      /\ \A j \in 1..k : chunks[j] \subseteq S
  <2>1. Grouping(chunks, S)
    BY <1>1, ChunksProper
  <2> QED  BY <1>1, <2>1, ChunksApart DEF Grouping
<1>3. k >= 2
  BY <1>1 DEF Ceil
<1>4. g = [l \in {Name(j) : j \in DOMAIN chunks} |-> chunks[Index(l)]]
  BY DEF Alphabetical
<1> HIDE DEF chunks, k, g
<1>5. \A j \in 1..k : Min(chunks[j]) \in S /\ Max(chunks[j]) \in S
  <2> TAKE j \in 1..k
  <2>1. chunks[j] \in SUBSET Nat /\ chunks[j] # {} /\ IsFiniteSet(chunks[j])
    BY <1>1, <1>2, FS_Subset DEF NoneEmpty
  <2> QED  BY <1>2, <2>1, MinOf, MaxExists
<1>6. \A j \in 1..k : /\ Base(j) \in Seq(Word) /\ Base(j) # << >>
                      /\ \A w : Base(j) = <<w>> => \E i \in S : w = Letter[i]
  <2> TAKE j \in 1..k
  <2>1. first(j) \in Word /\ last(j) \in Word
    BY <1>1, <1>5
  <2>2. \A w : Base(j) = <<w>> => w = first(j)
    BY <2>1
  <2>3. Base(j) \in Seq(Word) /\ Base(j) # << >>
    BY <2>1
  <2> QED  BY <1>5, <2>2, <2>3
<1> HIDE DEF Base
<1>7. \A j \in 1..k : IsFiniteSet(Same(j)) /\ Cardinality(Same(j)) \in Nat
  <2> TAKE j \in 1..k
  <2>1. 1 \in Int /\ j - 1 \in Int
    OBVIOUS
  <2>2. IsFiniteSet(1..(j - 1))
    BY <2>1, FS_Interval
  <2> QED  BY <2>2, FS_Subset, FS_CardinalityType
<1>8. \A i, j \in 1..k : i < j /\ Base(i) = Base(j) => Cardinality(Same(i)) < Cardinality(Same(j))
  <2> SUFFICES ASSUME NEW i \in 1..k, NEW j \in 1..k, i < j, Base(i) = Base(j)
               PROVE  Cardinality(Same(i)) < Cardinality(Same(j))
    OBVIOUS
  <2>1. Same(i) \in SUBSET Same(j) /\ i \in Same(j) /\ i \notin Same(i)
    BY <1>2
  <2>2. /\ Cardinality(Same(i)) <= Cardinality(Same(j))
        /\ Cardinality(Same(j)) = Cardinality(Same(i)) => Same(j) = Same(i)
    BY <1>7, <2>1, FS_Subset
  <2> HIDE DEF Same
  <2> QED  BY <1>7, <2>1, <2>2
<1> HIDE DEF Same
<1>9. \A i, j \in 1..k : Name(i) = Name(j) => i = j
  <2> SUFFICES ASSUME NEW i \in 1..k, NEW j \in 1..k, Name(i) = Name(j), i < j PROVE FALSE
    <3>1. \A i, j \in 1..k : i # j => i < j \/ j < i
      BY <1>2
    <3> QED  BY <3>1
  <2>1. Base(i) = Base(j) /\ Cardinality(Same(i)) = Cardinality(Same(j))
    OBVIOUS
  <2> QED  BY <1>7, <1>8, <2>1
<1>10. \A j \in 1..k : Index(Name(j)) = j
  BY <1>2, <1>9
<1>11. /\ DOMAIN g = {Name(j) : j \in 1..k}
       /\ \A j \in 1..k : g[Name(j)] = chunks[j]
  <2>1. DOMAIN g = {Name(j) : j \in 1..k}
    BY <1>2, <1>4
  <2>2. \A j \in 1..k : g[Name(j)] = chunks[Index(Name(j))]
    BY <1>2, <1>4
  <2> QED  BY <1>10, <2>1, <2>2
<1>12. \A j \in 1..k : Name(j) \in Label
  BY <1>6, <1>7 DEF Label
<1>13. \A j \in 1..k : Name(j).words # << >>
  BY <1>6
<1>14. \A j \in 1..k : \A w : Name(j) = Plain(<<w>>) => Base(j) = <<w>>
  BY DEF Plain
<1> HIDE DEF Name, Index
<1>15. Parts(g)
  <2>1. DOMAIN g \subseteq Label
    BY <1>11, <1>12
  <2>2. NoneEmpty(g)
    BY <1>2, <1>11 DEF NoneEmpty
  <2>3. NoOverlap(g)
    BY <1>2, <1>9, <1>11 DEF NoOverlap
  <2> QED  BY <2>1, <2>2, <2>3 DEF Parts
<1>16. Several(g)
  <2>1. 1 \in 1..k /\ 2 \in 1..k
    BY <1>2, <1>3
  <2> QED  BY <1>9, <1>11, <2>1 DEF Several
<1>17. Worded(g)
  BY <1>11, <1>13 DEF Worded
<1>18. Covers(g, S)
  BY <1>2, <1>11 DEF Covers
<1>19. Letters(g, S)
  BY <1>6, <1>11, <1>14 DEF Letters
<1> QED  BY <1>15, <1>16, <1>17, <1>18, <1>19, NoWords DEF g, Proper

LEMMA NextSegmentsParts ==
    ASSUME req \in Request, NEW S, S \subseteq Catalog, Cardinality(S) > req.max, NEW key \in Word
    PROVE  /\ Proper(NextSegments(S, key)) /\ Worded(NextSegments(S, key))
           /\ Covers(NextSegments(S, key), S) /\ Letters(NextSegments(S, key), S)
<1> DEFINE Next2(i) == IF Len(req.ns[i]) > 1 THEN req.ns[i][2] ELSE Leaf
           Sub(i) == Plain(<<key, Next2(i)>>)
           subs == {Sub(i) : i \in S}
           f == [i \in S |-> Sub(i)]
           g == [l \in subs |-> {i \in S : Sub(i) = l}]
<1>1. CASE Cardinality(subs) < 2
  <2>1. NextSegments(S, key) = Alphabetical(S)
    BY <1>1 DEF NextSegments
  <2> QED  BY <2>1, AlphabeticalParts
<1>2. CASE ~(Cardinality(subs) < 2)
  <2>1. NextSegments(S, key) = g
    BY <1>2 DEF NextSegments
  <2>2. \A i \in S : Next2(i) \in Word
    <3>1. \A i \in S : req.ns[i] \in Seq(Word)
      BY RequestFacts
    <3>2. Leaf \in Word
      BY DEF Leaf, Word
    <3> QED  BY <3>1, <3>2
  <2> HIDE DEF Next2
  <2>3. \A i \in S : Sub(i) \in Label /\ Sub(i).words = <<key, Next2(i)>>
    BY <2>2 DEF Plain, Label
  <2>4. \A i \in S : \A w : Sub(i) # Plain(<<w>>)
    BY DEF Plain
  <2> HIDE DEF Sub
  <2>5. \A i \in S : Sub(i).words # << >>
    <3>1. \A x : <<key, x>> # << >>
      OBVIOUS
    <3> QED  BY <2>3, <3>1
  <2>6. IsFiniteSet(subs) /\ Cardinality(subs) \in Nat
    <3>1. IsFiniteSet({f[i] : i \in DOMAIN f})
      BY ItemsOf, Image
    <3>2. subs = {f[i] : i \in DOMAIN f}
      OBVIOUS
    <3> QED  BY <3>1, <3>2, FS_CardinalityType
  <2>7. Several(g)
    <3> HIDE DEF subs
    <3>1. \E l, m \in subs : l # m
      BY <1>2, <2>6, TwoOf
    <3> QED  BY <3>1 DEF Several
  <2>8. Parts(g)
    BY <2>3 DEF Parts, NoOverlap, NoneEmpty
  <2>9. Worded(g)
    BY <2>5 DEF Worded
  <2>10. Covers(g, S) /\ Letters(g, S)
    BY <2>4 DEF Covers, Letters
  <2> QED  BY <2>1, <2>7, <2>8, <2>9, <2>10, NoWords DEF Proper
<1> QED  BY <1>1, <1>2

LEMMA Keys == ASSUME req \in Request, NEW S, S \subseteq Catalog PROVE \A i \in S : Key(i) \in Word
<1>1. \A i \in S : req.ns[i] \in Seq(Nat)
  BY RequestFacts DEF Word
<1> QED  BY <1>1 DEF Key, Other, Word

LEMMA OneOf == ASSUME NEW S, IsFiniteSet(S), Cardinality(S) <= 1 PROVE \A x, y \in S : x = y
<1> SUFFICES ASSUME NEW x \in S, NEW y \in S, x # y PROVE FALSE
  OBVIOUS
<1>1. {x, y} \in SUBSET S /\ {x} \cup {y} = {x, y}
  OBVIOUS
<1>2. Cardinality({x, y}) <= Cardinality(S) /\ Cardinality(S) \in Nat
  BY <1>1, FS_Subset, FS_CardinalityType
<1>3. IsFiniteSet({x}) /\ Cardinality({x}) = 1
  BY FS_Singleton
<1>4. Cardinality({x} \cup {y}) = 2
  BY <1>3, FS_AddElement
<1> QED  BY <1>1, <1>2, <1>4

\* Groups by namespace: those of one key are apart, and those of two keys have the
\* items of two keys.  Only with two outgrown ones, or with a namespace named like
\* a letter, may a label be taken from a group.
LEMMA ByKeyParts ==
    ASSUME req \in Request, NEW S, S \subseteq Catalog, Cardinality(S) > req.max, ByNamespace(S)
    PROVE  /\ Proper(ByKey(S))
           /\ Cardinality(Outgrown(S)) <= 1 /\ LettersApart => Covers(ByKey(S), S)
<1> DEFINE Part(key) == IF key \in Outgrown(S) THEN NextSegments(KeyGroup(S, key), key)
                        ELSE [l \in {Plain(<<key>>)} |-> KeyGroup(S, key)]
           keys == {Key(i) : i \in S}
           Owners(l) == {key \in keys : l \in DOMAIN Part(key)}
           Latest(l) == Max(Owners(l))
           labels == UNION {DOMAIN Part(key) : key \in keys}
           f == [i \in S |-> Key(i)]
           g == ByKey(S)
<1>1. /\ IsFiniteSet(S) /\ keys \subseteq Nat /\ IsFiniteSet(keys) /\ Cardinality(keys) >= 2
      /\ req.max \in Nat \ {0}
  <2>1. IsFiniteSet(S) /\ req.max \in Nat \ {0}
    BY ItemsOf
  <2>2. IsFiniteSet({f[i] : i \in DOMAIN f})
    BY <2>1, Image
  <2>3. keys = {f[i] : i \in DOMAIN f}
    OBVIOUS
  <2> QED  BY <2>1, <2>2, <2>3, Keys DEF ByNamespace, Word
<1>2. \A key \in keys : /\ KeyGroup(S, key) \subseteq S /\ KeyGroup(S, key) # {}
                        /\ key \in Outgrown(S) => Cardinality(KeyGroup(S, key)) > req.max
  BY DEF KeyGroup, Outgrown
<1>3. \A key \in keys : /\ Parts(Part(key)) /\ Covers(Part(key), KeyGroup(S, key))
                        /\ Worded(Part(key))
                        /\ \A l \in DOMAIN Part(key) : Part(key)[l] \subseteq KeyGroup(S, key)
  <2> TAKE key \in keys
  <2>1. KeyGroup(S, key) \subseteq Catalog /\ key \in Word /\ IsFiniteSet(KeyGroup(S, key))
    BY <1>1, <1>2, FS_Subset DEF Word
  <2>2. CASE key \in Outgrown(S)
    <3>1. Part(key) = NextSegments(KeyGroup(S, key), key)
      BY <2>2
    <3> QED  BY <1>2, <2>1, <2>2, <3>1, NextSegmentsParts, NextSegmentsProper DEF Proper, Grouping
  <2>3. CASE key \notin Outgrown(S)
    <3>1. Part(key) = [l \in {Plain(<<key>>)} |-> KeyGroup(S, key)]
      BY <2>3
    <3>2. Plain(<<key>>) \in Label /\ Plain(<<key>>).words # << >>
      BY <2>1 DEF Plain, Label
    <3> QED  BY <1>2, <3>1, <3>2 DEF Parts, NoOverlap, NoneEmpty, Covers, Worded
  <2> QED  BY <2>2, <2>3
<1>4. g = [l \in labels |-> Part(Latest(l))[l]]
  BY DEF ByKey
<1>5. \A key \in keys : key \in Outgrown(S) => /\ Several(Part(key))
                                               /\ Letters(Part(key), KeyGroup(S, key))
  <2> SUFFICES ASSUME NEW key \in keys, key \in Outgrown(S)
               PROVE  Several(Part(key)) /\ Letters(Part(key), KeyGroup(S, key))
    OBVIOUS
  <2>1. KeyGroup(S, key) \subseteq Catalog /\ key \in Word /\ Cardinality(KeyGroup(S, key)) > req.max
    BY <1>1, <1>2 DEF Word
  <2> QED  BY <2>1, NextSegmentsParts DEF Proper
<1>6. \A key \in keys : key \notin Outgrown(S) => DOMAIN Part(key) = {Plain(<<key>>)}
  OBVIOUS
<1> HIDE DEF Part, g
<1>7. \A l \in labels : Latest(l) \in keys /\ l \in DOMAIN Part(Latest(l))
  <2> TAKE l \in labels
  <2>1. Owners(l) \subseteq Nat /\ IsFiniteSet(Owners(l)) /\ Owners(l) # {}
    BY <1>1, FS_Subset
  <2> QED  BY <2>1, MaxExists
<1>8. \A l, m : Plain(<<l>>) = Plain(<<m>>) => l = m
  <2>1. \A l : Plain(<<l>>).words = <<l>>
    BY DEF Plain
  <2>2. \A l, m : <<l>> = <<m>> => l = m
    OBVIOUS
  <2> QED  BY <2>1, <2>2
<1>9. \A i, j \in keys : i # j => KeyGroup(S, i) \cap KeyGroup(S, j) = {}
  BY DEF KeyGroup
<1>10. Several(g)
  <2>1. CASE Outgrown(S) \cap keys = {}
    <3>1. PICK i \in keys, j \in keys : i # j
      BY <1>1, TwoOf
    <3>2. Plain(<<i>>) \in labels /\ Plain(<<j>>) \in labels /\ Plain(<<i>>) # Plain(<<j>>)
      BY <1>6, <1>8, <2>1, <3>1
    <3> QED  BY <1>4, <3>2 DEF Several
  <2>2. CASE Outgrown(S) \cap keys # {}
    BY <1>4, <1>5, <2>2 DEF Several
  <2> QED  BY <2>1, <2>2
<1>11. \A l \in labels : g[l] = Part(Latest(l))[l] /\ DOMAIN g = labels
  BY <1>4
<1>12. Parts(g) /\ Worded(g)
  <2> HIDE DEF Latest
  <2>1. DOMAIN g \subseteq Label /\ Worded(g)
    BY <1>3, <1>4 DEF Parts, Worded
  <2>2. NoneEmpty(g)
    BY <1>3, <1>4, <1>7 DEF Parts, NoneEmpty
  <2>3. NoOverlap(g)
    <3> SUFFICES ASSUME NEW l \in labels, NEW m \in labels, l # m PROVE g[l] \cap g[m] = {}
      BY <1>4 DEF NoOverlap
    <3>1. CASE Latest(l) = Latest(m)
      BY <1>3, <1>7, <1>11, <3>1 DEF Parts, NoOverlap
    <3>2. CASE Latest(l) # Latest(m)
      <4>1. g[l] \subseteq KeyGroup(S, Latest(l)) /\ g[m] \subseteq KeyGroup(S, Latest(m))
        BY <1>3, <1>7, <1>11
      <4> QED  BY <1>7, <1>9, <3>2, <4>1
    <3> QED  BY <3>1, <3>2
  <2> QED  BY <2>1, <2>2, <2>3 DEF Parts
<1>13. ASSUME Cardinality(Outgrown(S)) <= 1, LettersApart PROVE Covers(g, S)
  <2> SUFFICES ASSUME NEW i \in S PROVE \E l \in DOMAIN g : i \in g[l]
    BY DEF Covers
  <2>1. PICK own \in keys : own = Key(i) /\ i \in KeyGroup(S, own)
    BY DEF KeyGroup
  <2>2. PICK l \in DOMAIN Part(own) : i \in Part(own)[l]
    BY <1>3, <2>1 DEF Covers
  <2>3. l \in labels
    OBVIOUS
  <2> HIDE DEF keys, labels
  <2>4. \A k, j \in keys : k \in Outgrown(S) => Plain(<<j>>) \notin DOMAIN Part(k)
    <3> SUFFICES ASSUME NEW k \in keys, k \in Outgrown(S), NEW j \in keys,
                        Plain(<<j>>) \in DOMAIN Part(k)
                 PROVE  FALSE
      OBVIOUS
    <3>1. PICK a \in S : j = Letter[a]
      BY <1>2, <1>5 DEF Letters
    <3>2. PICK b \in S : j = Key(b)
      BY DEF keys
    <3> QED  BY <1>13, <3>1, <3>2 DEF LettersApart
  <2>5. \A k, j \in keys : k \in Outgrown(S) /\ j \in Outgrown(S) => k = j
    <3>1. Outgrown(S) \subseteq keys
      BY DEF Outgrown, keys
    <3> QED  BY <1>1, <1>13, <3>1, FS_Subset, OneOf
  <2>6. ASSUME NEW key \in keys, l \in DOMAIN Part(key) PROVE key = own
    <3>1. CASE key \notin Outgrown(S) /\ own \notin Outgrown(S)
      <4>1. l = Plain(<<key>>) /\ l = Plain(<<own>>)
        BY <1>6, <2>2, <2>6, <3>1
      <4> QED  BY <1>8, <4>1
    <3>2. CASE key \notin Outgrown(S) /\ own \in Outgrown(S)
      BY <1>6, <2>2, <2>4, <2>6, <3>2
    <3>3. CASE key \in Outgrown(S) /\ own \notin Outgrown(S)
      BY <1>6, <2>2, <2>4, <2>6, <3>3
    <3>4. CASE key \in Outgrown(S) /\ own \in Outgrown(S)
      BY <2>5, <3>4
    <3> QED  BY <3>1, <3>2, <3>3, <3>4
  <2>7. Latest(l) = own
    BY <1>7, <2>3, <2>6
  <2> QED  BY <1>11, <2>2, <2>3, <2>7
<1> QED  BY <1>10, <1>12, <1>13, NoWords DEF g, Proper

\* What the clustering engine answers: nothing, or groups apart that have all of S.
LEMMA ClustersApart ==
    ASSUME NEW S, NEW clusters \in Clusterings(S)
    PROVE  /\ \A c \in clusters : c \subseteq S /\ c # {}
           /\ \A c, d \in clusters : c # d => c \cap d = {}
           /\ clusters # {} => UNION clusters = S
<1> DEFINE k == Min({Max({2, Ceil(Cardinality(S), req.target)}), req.max})
           Class(f, j) == {i \in S : f[i] = j}
<1>1. CASE clusters = {}
  BY <1>1
<1>2. CASE clusters # {}
  <2> HIDE DEF k
  <2>1. Clusterings(S) = {{}} \cup {{Class(f, j) : j \in 1..k} \ {{}} : f \in [S -> 1..k]}
    BY DEF Clusterings, k
  <2>2. PICK f \in [S -> 1..k] : clusters = {Class(f, j) : j \in 1..k} \ {{}}
    BY <1>2, <2>1
  <2>3. \A i \in S : Class(f, f[i]) \in clusters /\ i \in Class(f, f[i])
    BY <2>2
  <2>4. UNION clusters = S
    BY <2>2, <2>3
  <2>5. \A c \in clusters : c \subseteq S /\ c # {}
    BY <2>2
  <2>6. \A c, d \in clusters : c # d => c \cap d = {}
    <3> SUFFICES ASSUME NEW c \in clusters, NEW d \in clusters, NEW i \in c, i \in d PROVE c = d
      OBVIOUS
    <3>1. PICK j \in 1..k : c = Class(f, j)
      BY <2>2
    <3>2. PICK m \in 1..k : d = Class(f, m)
      BY <2>2
    <3> QED  BY <3>1, <3>2
  <2> HIDE DEF Class
  <2> QED  BY <2>4, <2>5, <2>6
<1> QED  BY <1>1, <1>2

LEMMA RebalancedParts ==
    ASSUME req \in Request, NEW S, S \subseteq Catalog, NEW clusters \in Clusterings(S),
           Cardinality(DOMAIN Rebalanced(clusters)) >= 2
    PROVE  Proper(Rebalanced(clusters)) /\ Covers(Rebalanced(clusters), S)
<1> DEFINE Cut(c) == IF Cardinality(c) <= req.max THEN {c} ELSE Range(Chunks(c))
           pieces == UNION {Cut(c) : c \in clusters}
           Less(p) == {q \in pieces : Min(q) < Min(p)}
           Name(p) == [words |-> << >>, n |-> Cardinality(Less(p))]
           g == Rebalanced(clusters)
           f == [p \in pieces |-> Name(p)]
<1>1. /\ S \in SUBSET Nat /\ IsFiniteSet(S)
      /\ \A c \in clusters : c \subseteq S /\ c # {}
      /\ \A c, d \in clusters : c # d => c \cap d = {}
      /\ clusters # {} => UNION clusters = S
  BY ItemsOf, ClustersApart
<1>2. \A c \in clusters : /\ \A p \in Cut(c) : p \subseteq c /\ p # {}
                          /\ \A p, q \in Cut(c) : p # q => p \cap q = {}
                          /\ UNION Cut(c) = c
  <2> TAKE c \in clusters
  <2>1. CASE Cardinality(c) <= req.max
    <3>1. Cut(c) = {c}
      BY <2>1
    <3> QED  BY <1>1, <3>1
  <2>2. CASE ~(Cardinality(c) <= req.max)
    <3>1. Cut(c) = Range(Chunks(c))
      BY <2>2
    <3>2. NoOverlap(Chunks(c)) /\ NoneEmpty(Chunks(c)) /\ Covers(Chunks(c), c)
      BY <1>1, ChunksApart
    <3>3. Grouping(Chunks(c), c)
      BY <1>1, ChunksProper, FS_Subset
    <3> QED  BY <3>1, <3>2, <3>3 DEF Range, NoOverlap, NoneEmpty, Covers, Grouping
  <2> QED  BY <2>1, <2>2
<1>3. g = [l \in {Name(p) : p \in pieces} |-> CHOOSE p \in pieces : Name(p) = l]
  BY DEF Rebalanced
<1> HIDE DEF Cut, g
<1>4. /\ \A p \in pieces : p \in SUBSET S /\ p # {}
      /\ \A p, q \in pieces : p # q => p \cap q = {}
      /\ UNION pieces = UNION clusters
  <2>1. \A p \in pieces : \E c \in clusters : p \in Cut(c) /\ p \subseteq c /\ p # {}
    BY <1>2
  <2>2. \A p, q \in pieces : p # q => p \cap q = {}
    <3> SUFFICES ASSUME NEW p \in pieces, NEW q \in pieces, p # q PROVE p \cap q = {}
      OBVIOUS
    <3>1. PICK c \in clusters : p \in Cut(c) /\ p \subseteq c
      BY <2>1
    <3>2. PICK d \in clusters : q \in Cut(d) /\ q \subseteq d
      BY <2>1
    <3>3. CASE c = d
      BY <1>2, <3>1, <3>2, <3>3
    <3>4. CASE c # d
      <4>1. c \cap d = {}
        BY <1>1, <3>4
      <4> QED  BY <3>1, <3>2, <4>1
    <3> QED  BY <3>3, <3>4
  <2>3. UNION pieces = UNION clusters
    BY <1>2
  <2> QED  BY <1>1, <2>1, <2>2, <2>3
<1>5. IsFiniteSet(pieces) /\ Cardinality(pieces) \in Nat
  <2>1. pieces \in SUBSET SUBSET S
    BY <1>4
  <2> HIDE DEF pieces
  <2> QED  BY <1>1, <2>1, FS_SUBSET, FS_Subset, FS_CardinalityType
<1> HIDE DEF pieces
<1>6. \A p \in pieces : Min(p) \in p /\ Min(p) \in Nat
  <2> TAKE p \in pieces
  <2>1. p \in SUBSET Nat /\ p # {}
    BY <1>1, <1>4
  <2>2. Min(p) \in p
    BY <2>1, MinOf
  <2> QED  BY <2>1, <2>2
<1>7. \A p, q \in pieces : p # q => Min(p) # Min(q)
  BY <1>4, <1>6
<1>8. \A p \in pieces : IsFiniteSet(Less(p)) /\ Cardinality(Less(p)) \in Nat
                        /\ Cardinality(Less(p)) < Cardinality(pieces)
  <2> TAKE p \in pieces
  <2>1. Less(p) \in SUBSET pieces /\ p \notin Less(p)
    BY <1>6
  <2> HIDE DEF Less
  <2>2. Less(p) # pieces
    BY <2>1
  <2> QED  BY <1>5, <2>1, <2>2, FS_Subset, FS_CardinalityType
<1>9. \A p, q \in pieces : Min(p) < Min(q) => Cardinality(Less(p)) < Cardinality(Less(q))
  <2> SUFFICES ASSUME NEW p \in pieces, NEW q \in pieces, Min(p) < Min(q)
               PROVE  Cardinality(Less(p)) < Cardinality(Less(q))
    OBVIOUS
  <2>1. Less(p) \in SUBSET Less(q) /\ p \in Less(q) /\ p \notin Less(p)
    BY <1>6
  <2>2. IsFiniteSet(Less(q)) /\ Cardinality(Less(p)) \in Nat /\ Cardinality(Less(q)) \in Nat
    BY <1>8
  <2> HIDE DEF Less
  <2>3. Less(p) # Less(q)
    BY <2>1
  <2> QED  BY <2>1, <2>2, <2>3, FS_Subset
<1> HIDE DEF Less
<1>10. \A p, q \in pieces : Name(p) = Name(q) => p = q
  <2> SUFFICES ASSUME NEW p \in pieces, NEW q \in pieces, Name(p) = Name(q), p # q PROVE FALSE
    OBVIOUS
  <2>1. Cardinality(Less(p)) = Cardinality(Less(q))
    OBVIOUS
  <2>2. Min(p) < Min(q) \/ Min(q) < Min(p)
    BY <1>6, <1>7
  <2> QED  BY <1>8, <1>9, <2>1, <2>2
<1>11. \A p \in pieces : Name(p) \in Label /\ Name(p).n < Cardinality(pieces)
  BY <1>8 DEF Label
<1>12. \A n : [words |-> << >>, n |-> n].n = n
  OBVIOUS
<1> HIDE DEF Name
<1>13. DOMAIN g = {Name(p) : p \in pieces} /\ \A p \in pieces : g[Name(p)] = p
  BY <1>3, <1>10
<1>14. Cardinality(DOMAIN g) = Cardinality(pieces) /\ IsFiniteSet(DOMAIN g)
  <2>1. f \in Surjection(pieces, DOMAIN g) /\ f \in Injection(pieces, DOMAIN g)
    BY <1>10, <1>13 DEF Surjection, Injection, IsInjective
  <2> HIDE DEF f
  <2> QED  BY <1>5, <2>1, FS_Surjection
<1>15. Several(g)
  BY <1>14, TwoOf DEF Several, g
<1>16. MergedFree(g)
  <2> SUFFICES ASSUME [words |-> << >>, n |-> Cardinality(DOMAIN g)] \in DOMAIN g PROVE FALSE
    BY DEF MergedFree
  <2>1. PICK p \in pieces : Name(p) = [words |-> << >>, n |-> Cardinality(DOMAIN g)]
    BY <1>13
  <2>2. Name(p).n = Cardinality(DOMAIN g)
    BY <2>1, <1>12
  <2> QED  BY <1>5, <1>11, <1>14, <2>2
<1>17. Parts(g)
  BY <1>4, <1>10, <1>11, <1>13 DEF Parts, NoOverlap, NoneEmpty
<1>18. Covers(g, S)
  <2>1. pieces # {}
    <3>1. DOMAIN g # {}
      BY <1>15 DEF Several
    <3> QED  BY <1>13, <3>1
  <2>2. UNION pieces = S
    <3>1. clusters # {}
      BY <1>4, <2>1
    <3> QED  BY <1>1, <1>4, <3>1
  <2> QED  BY <1>13, <2>2 DEF Covers
<1> QED  BY <1>15, <1>16, <1>17, <1>18 DEF g, Proper

\* Whatever strategy is taken, and whatever the engine answers.
LEMMA GroupingsParts ==
    ASSUME req \in Request, NEW S, S \subseteq Catalog, Cardinality(S) > req.max, NEW g \in Groupings(S)
    PROVE  Proper(g) /\ (Cardinality(Outgrown(S)) <= 1 /\ LettersApart => Covers(g, S))
<1>1. CASE ByNamespace(S)
  <2>1. g = ByKey(S)
    BY <1>1 DEF Groupings
  <2> QED  BY <1>1, <2>1, ByKeyParts
<1>2. CASE ~ByNamespace(S)
  <2>1. PICK clusters \in Clusterings(S) : g = Clustered(S, clusters)
    BY <1>2 DEF Groupings
  <2>2. CASE Cardinality(DOMAIN Rebalanced(clusters)) >= 2
    <3>1. g = Rebalanced(clusters)
      BY <2>1, <2>2 DEF Clustered
    <3> QED  BY <2>2, <3>1, RebalancedParts
  <2>3. CASE ~(Cardinality(DOMAIN Rebalanced(clusters)) >= 2)
    <3>1. g = Alphabetical(S)
      BY <2>1, <2>3 DEF Clustered
    <3> QED  BY <3>1, AlphabeticalParts
  <2> QED  BY <2>2, <2>3
<1> QED  BY <1>1, <1>2

\* A merge keeps the groups apart, loses no item, and with two children or more
\* leaves two groups.
LEMMA CoalescedParts ==
    ASSUME req \in Request, NEW S, NEW g, Grouping(g, S), Proper(g), NEW h \in Coalesced(g)
    PROVE  /\ Parts(h)
           /\ req.max > 1 => Several(h)
           /\ Covers(g, S) => Covers(h, S)
<1>1. req.max \in Nat \ {0} /\ IsFiniteSet(DOMAIN g) /\ Cardinality(DOMAIN g) \in Nat
  BY RequestFacts, FS_CardinalityType DEF Grouping
<1>2. CASE Cardinality(DOMAIN g) <= req.max
  BY <1>2 DEF Coalesced, Proper
<1>3. CASE ~(Cardinality(DOMAIN g) <= req.max)
  <2> DEFINE m == [words |-> << >>, n |-> Cardinality(DOMAIN g)]
             Rest(kept) == UNION {g[o] : o \in DOMAIN g \ kept}
             Merge(kept) == [l \in kept \cup {m} |-> IF l \in kept THEN g[l] ELSE Rest(kept)]
  <2>1. Coalesced(g) = {Merge(kept) : kept \in Kept(g)}
    BY <1>3 DEF Coalesced
  <2>2. m \notin DOMAIN g /\ m \in Label
    BY <1>1 DEF Proper, MergedFree, Label
  <2> HIDE DEF m
  <2>3. PICK kept \in Kept(g) : h = Merge(kept)
    BY <2>1
  <2>4. kept \subseteq DOMAIN g /\ Cardinality(kept) = req.max - 1
    BY DEF Kept, kSubset
  <2>5. DOMAIN h = kept \cup {m} /\ h[m] = Rest(kept) /\ m \notin kept /\ \A l \in kept : h[l] = g[l]
    BY <2>2, <2>3, <2>4
  <2>6. PICK o \in DOMAIN g : o \notin kept
    BY <1>1, <1>3, <2>4
  <2>7. NoneEmpty(h)
    BY <2>4, <2>5, <2>6 DEF Proper, Parts, NoneEmpty
  <2>8. NoOverlap(h)
    <3> SUFFICES ASSUME NEW l \in kept \cup {m}, NEW k \in kept \cup {m}, l # k PROVE h[l] \cap h[k] = {}
      BY <2>5 DEF NoOverlap
    <3>1. \A a, b \in DOMAIN g : a # b => g[a] \cap g[b] = {}
      BY DEF Proper, Parts, NoOverlap
    <3>2. \A a \in kept : g[a] \cap Rest(kept) = {}
      BY <2>4, <3>1
    <3> HIDE DEF Rest
    <3> QED  BY <2>4, <2>5, <3>1, <3>2
  <2>9. DOMAIN h \subseteq Label
    BY <2>2, <2>4, <2>5 DEF Proper, Parts
  <2>10. ASSUME req.max > 1 PROVE Several(h)
    <3>1. Cardinality(kept) # 0
      BY <1>1, <2>4, <2>10
    <3>2. kept # {}
      BY <3>1, FS_EmptySet
    <3> QED  BY <2>5, <3>2 DEF Several
  <2>11. ASSUME Covers(g, S) PROVE Covers(h, S)
    <3> SUFFICES ASSUME NEW i \in S PROVE \E l \in DOMAIN h : i \in h[l]
      BY DEF Covers
    <3>1. PICK l \in DOMAIN g : i \in g[l]
      BY <2>11 DEF Covers
    <3> QED  BY <2>5, <3>1
  <2> QED  BY <2>7, <2>8, <2>9, <2>10, <2>11 DEF Parts
<1> QED  BY <1>2, <1>3

LEMMA GroupsSmaller ==
    ASSUME NEW S, IsFiniteSet(S), NEW h, Grouping(h, S), Parts(h), Several(h)
    PROVE  \A l \in DOMAIN h : Cardinality(h[l]) \in Nat /\ Cardinality(h[l]) < Cardinality(S)
<1> TAKE l \in DOMAIN h
<1>1. PICK m \in DOMAIN h : m # l
  BY DEF Several
<1>2. PICK i \in h[m] : i \notin h[l]
  BY <1>1 DEF Parts, NoOverlap, NoneEmpty
<1>3. h[l] \in SUBSET S /\ h[l] # S
  BY <1>2 DEF Grouping
<1> QED  BY <1>3, FS_Subset, FS_CardinalityType

TreeTyped == /\ groups \subseteq Seq(Label) /\ Root \in groups
             /\ leaves \subseteq groups \X Catalog /\ todo \subseteq Jobs
Closed == \A p \in groups : \A k \in 0..Len(p) : SubSeq(p, 1, k) \in groups
Once == /\ \A j, k \in todo : j # k => j.items \cap k.items = {}
        /\ \A j \in todo : \A p, i : <<p, i>> \in leaves => i \notin j.items
        /\ \A p, q, i : <<p, i>> \in leaves /\ <<q, i>> \in leaves => p = q
Somewhere == Cardinality(Outgrown(Catalog)) <= 1 /\ LettersApart =>
                 \A i \in Catalog : (\E j \in todo : i \in j.items) \/ \E p : <<p, i>> \in leaves

TreeInv == IInv /\ TreeTyped /\ Closed /\ GroupsShrink /\ Once /\ Somewhere

LEMMA InitTreeInv == BuildInit => TreeInv
<1> SUFFICES ASSUME BuildInit PROVE TreeInv
  OBVIOUS
<1> USE DEF BuildInit
<1>1. IInv
  BY InitIInv
<1>2. Root \in Seq(Label) /\ Len(Root) = 0
  BY DEF Root
<1>3. TreeTyped
  BY <1>2, RequestFacts DEF TreeTyped, Jobs
<1>4. Closed
  <2>1. \A k \in 0..Len(Root) : SubSeq(Root, 1, k) = Root
    BY <1>2 DEF Root
  <2> QED  BY <2>1 DEF Closed
<1>5. GroupsShrink
  <2>1. Cardinality(Catalog) \in Nat
    BY RequestFacts, FS_CardinalityType
  <2> QED  BY <1>2, <2>1 DEF GroupsShrink
<1>6. Once
  BY DEF Once
<1>7. Somewhere
  BY DEF Somewhere
<1> QED  BY <1>1, <1>3, <1>4, <1>5, <1>6, <1>7 DEF TreeInv

LEMMA AttachTree == ASSUME TreeInv, NEW job \in todo, Attach(job) PROVE TreeInv'
<1> USE DEF TreeInv
<1>1. IInv'
  BY AttachStep
<1>2. /\ req' = req /\ groups' = groups /\ Catalog' = Catalog /\ Outgrown(Catalog)' = Outgrown(Catalog)
      /\ LettersApart' = LettersApart
      /\ leaves' = leaves \cup {<<job.node, i>> : i \in job.items} /\ todo' = todo \ {job}
  BY DEF Attach, Catalog, Outgrown, KeyGroup, Key, LettersApart
<1>3. job.node \in groups /\ job.items \subseteq Catalog
  BY DEF IInv, Unexpanded
<1>4. TreeTyped'
  BY <1>2, <1>3 DEF TreeTyped
<1>5. Closed' /\ GroupsShrink'
  BY <1>2 DEF Closed, GroupsShrink
<1>6. Once'
  BY <1>2 DEF Once
<1>7. Somewhere'
  <2> SUFFICES ASSUME Cardinality(Outgrown(Catalog)) <= 1, LettersApart, NEW i \in Catalog
               PROVE  (\E j \in todo' : i \in j.items) \/ \E p : <<p, i>> \in leaves'
    BY <1>2 DEF Somewhere
  <2>1. (\E j \in todo : i \in j.items) \/ \E p : <<p, i>> \in leaves
    BY DEF Somewhere
  <2>2. i \in job.items => <<job.node, i>> \in leaves'
    BY <1>2
  <2> QED  BY <1>2, <2>1, <2>2
<1> QED  BY <1>1, <1>4, <1>5, <1>6, <1>7

LEMMA OutgrownFewer ==
    ASSUME req \in Request, NEW S, S \subseteq Catalog, Cardinality(Outgrown(Catalog)) <= 1
    PROVE  Cardinality(Outgrown(S)) <= 1
<1>1. /\ IsFiniteSet(S) /\ IsFiniteSet(Catalog) /\ req.max \in Nat
      /\ Cardinality(Outgrown(Catalog)) <= 1
  BY ItemsOf
<1>2. IsFiniteSet(Outgrown(Catalog)) /\ Cardinality(Outgrown(Catalog)) \in Nat
  <2> DEFINE f == [i \in Catalog |-> Key(i)]
  <2>1. IsFiniteSet({f[i] : i \in DOMAIN f})
    BY <1>1, Image
  <2>2. Outgrown(Catalog) \in SUBSET {f[i] : i \in DOMAIN f}
    BY DEF Outgrown
  <2> HIDE DEF f
  <2> QED  BY <2>1, <2>2, FS_Subset, FS_CardinalityType
<1>3. Outgrown(S) \in SUBSET Outgrown(Catalog)
  <2> SUFFICES ASSUME NEW key \in Outgrown(S) PROVE key \in Outgrown(Catalog)
    OBVIOUS
  <2>1. KeyGroup(S, key) \in SUBSET KeyGroup(Catalog, key) /\ KeyGroup(Catalog, key) \in SUBSET Catalog
    BY DEF KeyGroup
  <2>2. Cardinality(KeyGroup(S, key)) <= Cardinality(KeyGroup(Catalog, key))
    BY <1>1, <2>1, FS_Subset
  <2>3. Cardinality(KeyGroup(S, key)) \in Nat /\ Cardinality(KeyGroup(Catalog, key)) \in Nat
    BY <1>1, <2>1, FS_Subset, FS_CardinalityType
  <2> QED  BY <1>1, <2>2, <2>3 DEF Outgrown
<1> QED  BY <1>2, <1>3, FS_Subset, FS_CardinalityType

LEMMA SplitTree == ASSUME TreeInv, NEW job \in todo, Split(job) PROVE TreeInv'
<1> USE DEF TreeInv
<1> DEFINE n == job.node
           S == job.items
           Grown(h) ==
             /\ groups' = groups \cup {Append(n, l) : l \in DOMAIN h}
             /\ todo' = (todo \ {job}) \cup {[node |-> Append(n, l), items |-> h[l]] : l \in DOMAIN h}
<1>1. IInv'
  BY SplitStep
<1>2. PICK g \in Groupings(S) : \E h \in Coalesced(g) : Grown(h)
  BY DEF Split
<1>3. PICK h \in Coalesced(g) : Grown(h)
  BY <1>2
<1>4. /\ req' = req /\ leaves' = leaves /\ Catalog' = Catalog /\ Outgrown(Catalog)' = Outgrown(Catalog)
      /\ LettersApart' = LettersApart
  BY DEF Split, Catalog, Outgrown, KeyGroup, Key, LettersApart
<1>5. /\ n \in groups /\ S \subseteq Catalog /\ req \in Request /\ n \in Seq(Label)
      /\ Cardinality(S) > req.max
  BY DEF IInv, Unexpanded, TreeTyped, Split
<1>6. Grouping(g, S) /\ Proper(g)
  BY <1>5, GroupingsProper, GroupingsParts
<1>7. Grouping(h, S) /\ Parts(h) /\ (req.max > 1 => Several(h))
  BY <1>5, <1>6, CoalescedProper, CoalescedParts
<1>8. Cardinality(Outgrown(Catalog)) <= 1 /\ LettersApart => Covers(h, S)
  BY <1>5, <1>6, OutgrownFewer, GroupingsParts, CoalescedParts
<1>9. /\ DOMAIN h \subseteq Label /\ \A l \in DOMAIN h : h[l] \subseteq S
      /\ \A l, m \in DOMAIN h : l # m => h[l] \cap h[m] = {}
  BY <1>7 DEF Grouping, Parts, NoOverlap
<1>10. \A l \in DOMAIN h : Append(n, l) \in Seq(Label) /\ Len(Append(n, l)) = Len(n) + 1
  BY <1>5, <1>9
<1>11. \A j \in todo' : \/ j \in todo /\ j # job
                        \/ \E l \in DOMAIN h : j = [node |-> Append(n, l), items |-> h[l]]
  BY <1>3
<1>12. TreeTyped'
  <2>1. \A l \in DOMAIN h : [node |-> Append(n, l), items |-> h[l]] \in Jobs
    <3>1. S \subseteq Item
      BY <1>5, RequestFacts
    <3> QED  BY <1>9, <1>10, <3>1 DEF Jobs
  <2>2. todo' \subseteq Jobs
    BY <1>11, <2>1 DEF TreeTyped
  <2> QED  BY <1>3, <1>4, <1>10, <2>2 DEF TreeTyped
<1>13. Closed'
  <2> SUFFICES ASSUME NEW l \in DOMAIN h, NEW k \in 0..Len(Append(n, l))
               PROVE  SubSeq(Append(n, l), 1, k) \in groups'
    BY <1>3 DEF Closed
  <2>1. Len(n) \in Nat
    BY <1>5
  <2>2. CASE k <= Len(n)
    <3>1. SubSeq(Append(n, l), 1, k) = SubSeq(n, 1, k)
      BY <1>5, <1>9, <1>10, <2>1, <2>2
    <3>2. k \in 0..Len(n)
      BY <1>10, <2>1, <2>2
    <3>3. SubSeq(n, 1, k) \in groups
      BY <1>5, <3>2 DEF Closed
    <3> QED  BY <1>3, <3>1, <3>3
  <2>3. CASE k = Len(n) + 1
    <3>1. SubSeq(Append(n, l), 1, k) = Append(n, l)
      BY <1>5, <1>9, <1>10, <2>1, <2>3
    <3> QED  BY <1>3, <3>1
  <2> QED  BY <1>10, <2>1, <2>2, <2>3
<1>14. GroupsShrink'
  <2> SUFFICES ASSUME req.max > 1, NEW j \in todo'
               PROVE  Len(j.node) + Cardinality(j.items) <= Cardinality(Catalog)
    BY <1>4 DEF GroupsShrink
  <2>1. CASE j \in todo
    BY <2>1 DEF GroupsShrink
  <2>2. CASE \E l \in DOMAIN h : j = [node |-> Append(n, l), items |-> h[l]]
    <3>1. PICK l \in DOMAIN h : j = [node |-> Append(n, l), items |-> h[l]]
      BY <2>2
    <3>2. Len(n) + Cardinality(S) <= Cardinality(Catalog) /\ Len(n) \in Nat
      BY <1>5 DEF GroupsShrink
    <3>3. Cardinality(S) \in Nat /\ IsFiniteSet(S) /\ Cardinality(Catalog) \in Nat
      BY <1>5, ItemsOf
    <3>4. Cardinality(h[l]) \in Nat /\ Cardinality(h[l]) < Cardinality(S)
      BY <1>7, <3>3, GroupsSmaller
    <3>5. j.node = Append(n, l) /\ j.items = h[l] /\ Len(Append(n, l)) = Len(n) + 1
      BY <1>10, <3>1
    <3> QED  BY <3>2, <3>3, <3>4, <3>5
  <2> QED  BY <1>11, <2>1, <2>2
<1>15. Once'
  <2>1. ASSUME NEW j \in todo', NEW k \in todo', j # k PROVE j.items \cap k.items = {}
    <3>1. CASE j \in todo /\ k \in todo
      BY <2>1, <3>1 DEF Once
    <3>2. ASSUME NEW a \in todo, a # job, NEW b, NEW l \in DOMAIN h,
                 b = [node |-> Append(n, l), items |-> h[l]]
          PROVE  a.items \cap b.items = {}
      <4>1. a.items \cap S = {} /\ b.items \subseteq S
        BY <1>9, <3>2 DEF Once
      <4> QED  BY <4>1
    <3>3. ASSUME NEW l \in DOMAIN h, j = [node |-> Append(n, l), items |-> h[l]],
                 NEW m \in DOMAIN h, k = [node |-> Append(n, m), items |-> h[m]]
          PROVE  j.items \cap k.items = {}
      <4>1. l # m
        BY <2>1, <3>3
      <4> QED  BY <1>9, <3>3, <4>1
    <3> QED  BY <1>11, <3>1, <3>2, <3>3
  <2>2. ASSUME NEW j \in todo', NEW p, NEW i, <<p, i>> \in leaves PROVE i \notin j.items
    <3>1. i \notin S
      BY <2>2 DEF Once
    <3> QED  BY <1>9, <1>11, <2>2, <3>1 DEF Once
  <2> QED  BY <1>4, <2>1, <2>2 DEF Once
<1>16. Somewhere'
  <2> SUFFICES ASSUME Cardinality(Outgrown(Catalog)) <= 1, LettersApart, NEW i \in Catalog
               PROVE  (\E j \in todo' : i \in j.items) \/ \E p : <<p, i>> \in leaves
    BY <1>4 DEF Somewhere
  <2>1. CASE i \in S
    <3>1. PICK l \in DOMAIN h : i \in h[l]
      BY <1>8, <2>1 DEF Covers
    <3>2. [node |-> Append(n, l), items |-> h[l]] \in todo'
      BY <1>3
    <3> QED  BY <3>1, <3>2
  <2>2. CASE i \notin S
    <3>1. (\E j \in todo : i \in j.items /\ j # job) \/ \E p : <<p, i>> \in leaves
      BY <2>2 DEF Somewhere
    <3> QED  BY <1>3, <3>1
  <2> QED  BY <2>1, <2>2
<1> QED  BY <1>1, <1>12, <1>13, <1>14, <1>15, <1>16

LEMMA BuildTree == TreeInv /\ [Build]_treeVars => TreeInv'
<1> SUFFICES ASSUME TreeInv, [Build]_treeVars PROVE TreeInv'
  OBVIOUS
<1>1. CASE Build
  BY <1>1, AttachTree, SplitTree DEF Build
<1>2. CASE UNCHANGED treeVars
  <2>1. req' = req /\ groups' = groups /\ leaves' = leaves /\ todo' = todo
    BY <1>2 DEF treeVars
  <2>2. IInv'
    BY <2>1 DEF TreeInv, IInv, Distinct, Unexpanded, FewChildren, Rooted, Kids, ItemsAt, Catalog
  <2>3. TreeTyped' /\ Closed' /\ GroupsShrink' /\ Once'
    BY <2>1 DEF TreeInv, TreeTyped, Closed, GroupsShrink, Once, Catalog
  <2>4. Somewhere'
    BY <2>1 DEF TreeInv, Somewhere, Catalog, Outgrown, KeyGroup, Key, LettersApart
  <2> QED  BY <2>2, <2>3, <2>4 DEF TreeInv
<1> QED  BY <1>1, <1>2

LEMMA TreeMeans == TreeInv => TreeSound
<1> SUFFICES ASSUME TreeInv PROVE TreeSound
  OBVIOUS
<1> USE DEF TreeInv
<1>1. Bounded
  BY DEF IInv, FewChildren, Bounded
<1>2. Placed
  <2> SUFFICES ASSUME todo = {}, Cardinality(Outgrown(Catalog)) <= 1, LettersApart, NEW i \in Catalog
               PROVE  Cardinality({p \in groups : <<p, i>> \in leaves}) = 1
    BY DEF Placed
  <2>1. PICK p : <<p, i>> \in leaves
    BY DEF Somewhere
  <2>2. {q \in groups : <<q, i>> \in leaves} = {p}
    BY <2>1 DEF Once, TreeTyped
  <2> QED  BY <2>2, FS_Singleton
<1> QED  BY <1>1, <1>2 DEF TreeSound

-----------------------------------------------------------------------------
(***************************************************************************)
(* A route over the finished tree.  An active item that is not collected waits: *)
(* it or a group above it is in a beam, cut, or unexplored (Sought).  Expanding *)
(* a group passes this on to the child on the way down, which is in the graph   *)
(* because every prefix of a group is a group (Closed), and eligible because    *)
(* the item is below it.  The groups of a beam are of one level (Levels), so    *)
(* what a route leaves in its beam at max_depth has only deeper items below.    *)
(***************************************************************************)
\* Before a route, nothing is known of it.
Unasked == phase = "build" => /\ active = {} /\ depth = 0 /\ beam = {} /\ next = {} /\ unexplored = {}
                              /\ pruned = {} /\ collected = {} /\ pins = {} /\ short = {}

\* The groups of a beam are of one level, which the depth counts.
Levels == /\ \A e \in beam : Len(e.node) = depth
          /\ \A e \in next : Len(e.node) = depth + 1
          /\ phase \in {"back", "fill", "done"} => depth = MaxDepth \/ beam \cup next = {}

Below(e, p) == IsGroup(e) /\ IsPrefix(e.node, p)

\* Where an active item of a leaf edge is while a route looks for it.
Waits(p, i) == \/ \E e \in beam \cup next \cup pruned \cup unexplored : Below(e, p)
               \/ \E e \in unexplored : e.item = i
Sought == phase # "build" =>
              \A p, i : <<p, i>> \in leaves /\ i \in active /\ Len(p) < MaxDepth => i \in collected \/ Waits(p, i)

Enough == phase \in {"fill", "done"} => Cardinality(collected) >= TopK \/ unexplored = {}

Shared == phase \in {"fill", "done"} =>
              /\ pins \cap active \subseteq short
              /\ \A i \in short \ pins : Share(i) <= Quota
              /\ Cardinality(short) <= Max({TopK, Cardinality(pins \cap active)})
Closing == phase = "done" => Full \/ Candidates = {}

RouteInv == /\ TreeInv /\ BeamsLeadSomewhere /\ Unasked /\ Levels /\ Sought /\ Enough
            /\ collected \subseteq active /\ short \subseteq active /\ Shared /\ Closing

LEMMA RouteConstants == /\ BeamWidth \in Nat /\ MaxDepth \in Nat \ {0} /\ TopK \in Nat \ {0} /\ Quota \in Nat \ {0}
                        /\ Scores \subseteq Nat /\ 0 \notin Item
BY BeamAssumption, ItemAssumption

LEMMA BestSubset == ASSUME NEW k, NEW C, NEW sc, NEW K \in Best(k, C, sc) PROVE K \subseteq C
BY DEF Best, kSubset

LEMMA InitRoute == Init => RouteInv
<1> SUFFICES ASSUME Init PROVE RouteInv
  OBVIOUS
<1>1. TreeInv
  BY InitTreeInv DEF Init
<1>2. TypeOK
  BY <1>1, RouteConstants DEF Init, TypeOK, TreeInv, TreeTyped, IInv, Unexpanded
<1>3. BeamsLeadSomewhere /\ Unasked /\ Levels /\ Sought /\ Enough /\ Shared /\ Closing
  BY <1>2 DEF Init, BeamsLeadSomewhere, Unasked, Levels, Sought, Enough, Shared, Closing
<1> QED  BY <1>1, <1>3 DEF Init, RouteInv

\* The tree of a route does not change.
LEMMA TreeFixed ==
    ASSUME RouteInv, UNCHANGED treeVars
    PROVE  /\ TreeInv' /\ Catalog' = Catalog
           /\ groups' = groups /\ leaves' = leaves /\ req' = req /\ todo' = todo
           /\ \A n : ItemsUnder(n)' = ItemsUnder(n)
<1>1. req' = req /\ groups' = groups /\ leaves' = leaves /\ todo' = todo
  BY DEF treeVars
<1>2. TreeInv'
  BY BuildTree DEF RouteInv
<1> QED  BY <1>1, <1>2 DEF Catalog, ItemsUnder

LEMMA BuildRoute == ASSUME RouteInv, phase = "build", Build, UNCHANGED routeVars PROVE RouteInv'
<1>1. TreeInv'
  BY BuildTree DEF RouteInv
<1>2. /\ phase' = phase /\ active' = active /\ depth' = depth /\ beam' = beam /\ next' = next
      /\ unexplored' = unexplored /\ pruned' = pruned /\ collected' = collected /\ pins' = pins /\ short' = short
  BY DEF routeVars
<1>3. /\ active = {} /\ beam = {} /\ next = {} /\ unexplored = {} /\ pruned = {}
      /\ collected = {} /\ pins = {} /\ short = {} /\ depth \in 0..MaxDepth
  BY DEF RouteInv, Unasked, BeamsLeadSomewhere, TypeOK
<1>4. TypeOK'
  <2>1. req' \in Request /\ groups' \subseteq Seq(Label) /\ leaves' \subseteq groups' \X Catalog' /\ todo' \subseteq Jobs
        /\ \A job \in todo' : job.node \in groups' /\ job.items \subseteq Catalog'
    BY <1>1 DEF TreeInv, TreeTyped, IInv, Unexpanded
  <2> QED  BY <1>2, <1>3, <2>1 DEF TypeOK
<1>5. BeamsLeadSomewhere'
  BY <1>2, <1>3, <1>4 DEF BeamsLeadSomewhere
<1>6. Unasked' /\ Levels' /\ Sought' /\ Enough' /\ Shared' /\ Closing'
  <2>1. phase' = "build" /\ depth = 0
    BY <1>2 DEF RouteInv, Unasked
  <2> QED  BY <1>2, <1>3, <2>1 DEF Unasked, Levels, Sought, Enough, Shared, Closing
<1> QED  BY <1>1, <1>2, <1>3, <1>5, <1>6 DEF RouteInv

LEMMA Entries ==
    ASSUME NEW n \in Seq(Label), NEW s \in Nat
    PROVE  /\ Scored(Group(n), s) \in Entry /\ IsGroup(Scored(Group(n), s)) /\ Scored(Group(n), s).node = n
           /\ \A i \in Item : /\ Scored(Child(n, i), s) \in Entry /\ ~IsGroup(Scored(Child(n, i), s))
                              /\ Scored(Child(n, i), s).node = n /\ Scored(Child(n, i), s).item = i
BY RouteConstants DEF Scored, Group, Child, IsGroup, Entry

LEMMA PrefixFacts ==
    ASSUME NEW p \in Seq(Label)
    PROVE  /\ IsPrefix(Root, p) /\ IsPrefix(p, p)
           /\ \A n \in Seq(Label) : IsPrefix(n, p) => Len(n) <= Len(p)
<1>1. \A n \in Seq(Label) : IsPrefix(n, p) => Len(n) <= Len(p)
  BY DEF IsPrefix
<1>2. IsPrefix(p, p)
  BY DEF IsPrefix
<1>3. IsPrefix(Root, p)
  <2>1. Root \in Seq(Label) /\ Len(Root) = 0 /\ Len(p) \in Nat
    BY DEF Root
  <2>2. SubSeq(Root, 1, 0) = << >> /\ SubSeq(p, 1, 0) = << >>
    BY <2>1
  <2> QED  BY <2>1, <2>2 DEF IsPrefix
<1> QED  BY <1>1, <1>2, <1>3

\* The child of n on the way to a path below it.
LEMMA WayDown ==
    ASSUME NEW n \in Seq(Label), NEW p \in Seq(Label), IsPrefix(n, p), p # n
    PROVE  LET c == SubSeq(p, 1, Len(n) + 1)
           IN  /\ Len(n) + 1 \in 0..Len(p) /\ c \in Seq(Label) /\ Len(c) = Len(n) + 1
               /\ c # Root /\ Front(c) = n /\ IsPrefix(c, p)
<1> DEFINE c == SubSeq(p, 1, Len(n) + 1)
<1>1. Len(n) \in Nat /\ Len(p) \in Nat /\ Len(n) <= Len(p) /\ SubSeq(n, 1, Len(n)) = SubSeq(p, 1, Len(n))
  BY DEF IsPrefix
<1>2. SubSeq(n, 1, Len(n)) = n /\ SubSeq(p, 1, Len(p)) = p
  OBVIOUS
<1>3. Len(n) # Len(p)
  BY <1>1, <1>2
<1>4. Len(n) + 1 \in 0..Len(p) /\ Len(n) + 1 <= Len(p)
  BY <1>1, <1>3
<1>5. c \in Seq(Label) /\ Len(c) = Len(n) + 1 /\ \A k \in 1..Len(n) + 1 : c[k] = p[k]
  BY <1>1, <1>4
<1>6. c # Root
  BY <1>1, <1>5 DEF Root
<1>7. Front(c) = n
  <2>1. Front(c) = SubSeq(c, 1, Len(n))
    BY <1>1, <1>5 DEF Front
  <2>2. SubSeq(c, 1, Len(n)) = SubSeq(p, 1, Len(n))
    BY <1>1, <1>4, <1>5
  <2> QED  BY <1>1, <1>2, <2>1, <2>2
<1>8. IsPrefix(c, p)
  <2>1. SubSeq(c, 1, Len(c)) = c
    BY <1>5
  <2> QED  BY <1>1, <1>4, <1>5, <2>1 DEF IsPrefix
<1> QED  BY <1>4, <1>5, <1>6, <1>7, <1>8

LEMMA SubSeqLength ==
    ASSUME NEW T, NEW c \in Seq(T), NEW m \in Nat, m <= Len(c)
    PROVE  Len(SubSeq(c, 1, m)) = m
OBVIOUS

LEMMA KidLength ==
    ASSUME NEW n \in Seq(Label), NEW c \in Seq(Label), c # Root, Front(c) = n
    PROVE  Len(c) = Len(n) + 1
<1>1. Len(c) \in Nat /\ Len(c) # 0
  BY DEF Root
<1>2. Len(c) - 1 \in Nat /\ Len(c) - 1 <= Len(c)
  BY <1>1
<1>3. Len(SubSeq(c, 1, Len(c) - 1)) = Len(c) - 1
  BY <1>2, SubSeqLength
<1> QED  BY <1>1, <1>3 DEF Front

LEMMA AskRoute == ASSUME RouteInv, Ask PROVE RouteInv'
<1>1. PICK A \in Actives : A \cap Catalog # {} /\ active' = A \cap Catalog
  BY DEF Ask
<1>2. /\ phase = "build" /\ phase' = "beam" /\ beam' = {Scored(Group(Root), 0)} /\ depth' = depth /\ next' = next
      /\ unexplored' = unexplored /\ pruned' = pruned /\ collected' = collected /\ pins' = pins /\ short' = short
      /\ UNCHANGED treeVars
  BY DEF Ask
<1>3. /\ next = {} /\ unexplored = {} /\ pruned = {} /\ collected = {} /\ pins = {} /\ short = {}
      /\ depth = 0
  BY <1>2 DEF RouteInv, Unasked
<1>4. /\ TreeInv' /\ Catalog' = Catalog /\ groups' = groups /\ leaves' = leaves /\ req' = req /\ todo' = todo
  BY <1>2, TreeFixed
<1>5. /\ Root \in Seq(Label) /\ Root \in groups /\ Len(Root) = 0
      /\ \A p, i : <<p, i>> \in leaves => p \in Seq(Label)
  BY DEF RouteInv, TreeInv, TreeTyped, Root
<1> DEFINE e == Scored(Group(Root), 0)
<1>6. e \in Entry /\ IsGroup(e) /\ e.node = Root
  <2>1. 0 \in Nat
    OBVIOUS
  <2> QED  BY <1>5, <2>1, Entries
<1> HIDE DEF e
<1>7. TypeOK'
  <2>1. TypeOK
    BY DEF RouteInv, BeamsLeadSomewhere
  <2> QED  BY <1>1, <1>2, <1>3, <1>4, <1>5, <1>6, <2>1 DEF TypeOK, e
<1>8. BeamsLeadSomewhere'
  BY <1>2, <1>3, <1>6, <1>7 DEF BeamsLeadSomewhere, e
<1>9. Levels'
  BY <1>2, <1>3, <1>5, <1>6 DEF Levels, e
<1>10. Sought'
  <2> SUFFICES ASSUME NEW p, NEW i, <<p, i>> \in leaves PROVE Waits(p, i)'
    BY <1>4 DEF Sought
  <2>1. Below(e, p)
    BY <1>5, <1>6, PrefixFacts DEF Below
  <2> QED  BY <1>2, <2>1 DEF Waits, Below, e, IsGroup
<1>11. Unasked' /\ Enough' /\ Shared' /\ Closing'
  BY <1>2 DEF Unasked, Enough, Shared, Closing
<1> QED  BY <1>2, <1>3, <1>4, <1>8, <1>9, <1>10, <1>11 DEF RouteInv

\* What a group has to choose from: groups with an active item below, active items.
LEMMA EligibleFacts ==
    ASSUME RouteInv, NEW n \in groups, NEW c \in EligibleChildren(n)
    PROVE  \/ \E g \in groups : /\ c = Group(g) /\ g # Root /\ Front(g) = n
                                /\ ItemsUnder(g) \cap active # {}
           \/ \E i \in Item \cap active : c = Child(n, i)
BY DEF EligibleChildren, EligibleGroups, Kids, ItemsAt

\* No active item below a group is lost when the group is expanded.
LEMMA EligibleBelow ==
    ASSUME RouteInv, NEW n \in groups, NEW p, NEW i \in active, <<p, i>> \in leaves, IsPrefix(n, p)
    PROVE  \/ Child(n, i) \in EligibleChildren(n)
           \/ \E g \in groups : Group(g) \in EligibleChildren(n) /\ IsPrefix(g, p)
<1>1. /\ n \in Seq(Label) /\ p \in Seq(Label) /\ p \in groups /\ i \in Item
      /\ \A k \in 0..Len(p) : SubSeq(p, 1, k) \in groups
  <2>1. TreeTyped /\ Closed /\ req \in Request
    BY DEF RouteInv, TreeInv, IInv
  <2> QED  BY <2>1, RequestFacts DEF TreeTyped, Closed
<1>2. CASE p = n
  BY <1>1, <1>2 DEF EligibleChildren, ItemsAt
<1>3. CASE p # n
  <2> DEFINE g == SubSeq(p, 1, Len(n) + 1)
  <2>1. g \in groups /\ g # Root /\ Front(g) = n /\ IsPrefix(g, p)
    BY <1>1, <1>3, WayDown
  <2> HIDE DEF g
  <2>2. i \in ItemsUnder(g)
    BY <1>1, <2>1 DEF ItemsUnder
  <2> QED  BY <2>1, <2>2 DEF EligibleChildren, EligibleGroups, Kids
<1> QED  BY <1>2, <1>3

LEMMA ExpandRoute == ASSUME RouteInv, NEW b \in beam, Expand(b) PROVE RouteInv'
<1> DEFINE n == b.node
           C == EligibleChildren(n)
           Took(sc, K) ==
             /\ collected' = collected \cup {c.item : c \in {k \in K : ~IsGroup(k)}}
             /\ next' = next \cup {Scored(c, b.score + sc[c]) : c \in {k \in K : IsGroup(k)}}
             /\ unexplored' = unexplored \cup Later(b, C, K, sc)
<1>1. PICK sc \in [C -> Scores] : \E K \in Best(Width(C, sc), C, sc) : Took(sc, K)
  BY DEF Expand
<1>2. PICK K \in Best(Width(C, sc), C, sc) : Took(sc, K)
  BY <1>1
<1>3. /\ phase = "beam" /\ phase' = "beam" /\ beam' = beam \ {b} /\ active' = active /\ depth' = depth
      /\ pruned' = pruned /\ pins' = pins /\ short' = short /\ UNCHANGED treeVars
      /\ depth < MaxDepth
  BY DEF Expand
<1>4. /\ TreeInv' /\ Catalog' = Catalog /\ groups' = groups /\ leaves' = leaves /\ req' = req /\ todo' = todo
      /\ \A m : ItemsUnder(m)' = ItemsUnder(m)
  BY <1>3, TreeFixed
<1>5. K \subseteq C
  BY BestSubset
<1>6. /\ TypeOK /\ groups \subseteq Seq(Label) /\ b \in Entry /\ IsGroup(b) /\ n \in groups /\ n \in Seq(Label)
      /\ b.score \in Nat /\ Len(n) = depth /\ active \subseteq Catalog /\ active \subseteq Item
  <2>1. TypeOK /\ Len(n) = depth /\ Catalog \subseteq Item
    BY RequestFacts DEF RouteInv, BeamsLeadSomewhere, Levels, TreeInv, IInv
  <2> QED  BY <2>1 DEF TypeOK, Entry
<1>7. \A c \in C : b.score + sc[c] \in Nat
  <2>1. \A c \in C : sc[c] \in Nat
    BY RouteConstants
  <2> QED  BY <1>6, <2>1
<1> HIDE DEF C
<1>8. \A c \in C : \/ \E g \in groups : /\ c = Group(g) /\ IsGroup(c) /\ g # Root /\ ItemsUnder(g) \cap active # {}
                                        /\ Len(g) = depth + 1
                   \/ \E i \in active : c = Child(n, i) /\ c.item = i /\ ~IsGroup(c)
  <2> TAKE c \in C
  <2>1. CASE \E g \in groups : c = Group(g) /\ g # Root /\ Front(g) = n /\ ItemsUnder(g) \cap active # {}
    <3>1. PICK g \in groups : c = Group(g) /\ g # Root /\ Front(g) = n /\ ItemsUnder(g) \cap active # {}
      BY <2>1
    <3>2. Len(g) = depth + 1
      BY <1>6, <3>1, KidLength
    <3> QED  BY <3>1, <3>2 DEF Group, IsGroup
  <2>2. CASE \E i \in Item \cap active : c = Child(n, i)
    BY <2>2, RouteConstants DEF Child, IsGroup
  <2> QED  BY <1>6, <2>1, <2>2, EligibleFacts DEF C
<1>9. \A c \in C : LET e == Scored(c, b.score + sc[c])
                   IN  /\ e \in Entry /\ e.node \in groups /\ e.item = c.item /\ e.node = c.node
                       /\ IsGroup(e) <=> IsGroup(c)
                       /\ IsGroup(c) => e.node # Root /\ ItemsUnder(e.node) \cap active # {} /\ Len(e.node) = depth + 1
                       /\ ~IsGroup(c) => e.item \in active
  <2> TAKE c \in C
  <2>1. CASE \E g \in groups : /\ c = Group(g) /\ IsGroup(c) /\ g # Root /\ ItemsUnder(g) \cap active # {}
                               /\ Len(g) = depth + 1
    <3>1. PICK g \in groups : /\ c = Group(g) /\ IsGroup(c) /\ g # Root /\ ItemsUnder(g) \cap active # {}
                              /\ Len(g) = depth + 1
      BY <2>1
    <3>2. Scored(c, b.score + sc[c]) \in Entry
      BY <1>6, <1>7, <3>1, Entries
    <3> QED  BY <3>1, <3>2 DEF Scored, Group, IsGroup
  <2>2. CASE \E i \in active : c = Child(n, i) /\ c.item = i /\ ~IsGroup(c)
    <3>1. PICK i \in active : c = Child(n, i) /\ c.item = i /\ ~IsGroup(c)
      BY <2>2
    <3>2. Scored(c, b.score + sc[c]) \in Entry
      BY <1>6, <1>7, <3>1, Entries
    <3> QED  BY <1>6, <3>1, <3>2 DEF Scored, Child, IsGroup
  <2> QED  BY <1>8, <2>1, <2>2
<1>10. collected' \subseteq active
  BY <1>2, <1>5, <1>9 DEF RouteInv
<1>11. \A e \in next' : e \in next \/ \E c \in K : e = Scored(c, b.score + sc[c]) /\ IsGroup(c)
  BY <1>2
<1>12. \A e \in unexplored' : e \in unexplored \/ \E c \in C : e = Scored(c, b.score + sc[c])
  BY <1>2 DEF Later
<1>13. TypeOK'
  <2>1. \A e \in next' : e \in Entry /\ IsGroup(e) /\ e.node \in groups
    BY <1>5, <1>6, <1>9, <1>11 DEF TypeOK
  <2>2. \A e \in unexplored' : e \in Entry /\ e.node \in groups
    BY <1>6, <1>9, <1>12 DEF TypeOK
  <2> QED  BY <1>3, <1>4, <1>6, <1>10, <2>1, <2>2 DEF TypeOK
<1>14. BeamsLeadSomewhere'
  <2>1. \A e \in beam' \cup next' \cup unexplored' :
           IF IsGroup(e) THEN e.node # Root => ItemsUnder(e.node) \cap active # {} ELSE e.item \in active
    BY <1>3, <1>5, <1>9, <1>11, <1>12 DEF RouteInv, BeamsLeadSomewhere
  <2> QED  BY <1>3, <1>4, <1>13, <2>1 DEF BeamsLeadSomewhere
<1>15. Levels'
  BY <1>3, <1>5, <1>9, <1>11 DEF RouteInv, Levels
<1>16. Sought'
  <2> SUFFICES ASSUME NEW p, NEW i, <<p, i>> \in leaves, i \in active, Len(p) < MaxDepth, i \notin collected'
               PROVE  Waits(p, i)'
    BY <1>3, <1>4 DEF Sought
  <2>1. Waits(p, i) /\ i \notin collected
    BY <1>2, <1>3 DEF RouteInv, Sought
  <2>2. CASE \E e \in (beam \ {b}) \cup next \cup pruned \cup unexplored : Below(e, p)
    BY <1>2, <1>3, <2>2 DEF Waits, Below, IsGroup
  <2>3. CASE \E e \in unexplored : e.item = i
    BY <1>2, <2>3 DEF Waits
  <2>4. CASE Below(b, p)
    <3>1. IsPrefix(n, p)
      BY <2>4 DEF Below
    <3>2. CASE Child(n, i) \in C
      <4> DEFINE c == Child(n, i)
      <4>1. c.item = i /\ ~IsGroup(c)
        BY <1>6, RouteConstants DEF Child, IsGroup
      <4> HIDE DEF c
      <4>2. c \notin K
        BY <1>2, <4>1
      <4>3. Scored(c, b.score + sc[c]) \in unexplored'
        BY <1>2, <3>2, <4>2 DEF Later, c
      <4> QED  BY <1>9, <3>2, <4>1, <4>3 DEF Waits, c
    <3>3. CASE \E g \in groups : Group(g) \in C /\ IsPrefix(g, p)
      <4>1. PICK g \in groups : Group(g) \in C /\ IsPrefix(g, p)
        BY <3>3
      <4>2. PICK c \in C : c = Group(g) /\ IsGroup(c) /\ c.node = g
        BY <4>1 DEF Group, IsGroup
      <4>3. PICK e : e = Scored(c, b.score + sc[c]) /\ IsGroup(e) /\ e.node = g
        BY <1>9, <4>2
      <4>4. Below(e, p) /\ IsGroup(e)'
        BY <4>1, <4>3 DEF Below, IsGroup
      <4>5. e \in next' \cup unexplored'
        BY <1>2, <4>2, <4>3 DEF Later
      <4> QED  BY <4>4, <4>5 DEF Waits, Below, IsGroup
    <3> QED  BY <1>6, <3>1, <3>2, <3>3, EligibleBelow DEF C
  <2> QED  BY <2>1, <2>2, <2>3, <2>4 DEF Waits
<1>17. Unasked' /\ Enough' /\ Shared' /\ Closing'
  BY <1>3 DEF Unasked, Enough, Shared, Closing
<1> QED  BY <1>3, <1>4, <1>10, <1>14, <1>15, <1>16, <1>17 DEF RouteInv

LEMMA NextLevelRoute == ASSUME RouteInv, NextLevel PROVE RouteInv'
<1>1. /\ phase = "beam" /\ phase' = "beam" /\ beam = {} /\ next' = {} /\ depth' = depth + 1 /\ depth < MaxDepth
      /\ pruned' = pruned \cup (next \ beam') /\ UNCHANGED treeVars
      /\ active' = active /\ unexplored' = unexplored /\ collected' = collected /\ pins' = pins /\ short' = short
      /\ beam' \in Best(BeamWidth, next, [c \in next |-> c.score])
  BY DEF NextLevel
<1>2. beam' \subseteq next
  BY <1>1, BestSubset
<1>3. /\ TreeInv' /\ Catalog' = Catalog /\ groups' = groups /\ leaves' = leaves /\ req' = req /\ todo' = todo
      /\ \A m : ItemsUnder(m)' = ItemsUnder(m)
  BY <1>1, TreeFixed
<1>4. TypeOK'
  <2>1. TypeOK /\ depth \in Nat /\ MaxDepth \in Nat /\ depth + 1 \in 0..MaxDepth
    BY <1>1, RouteConstants DEF RouteInv, BeamsLeadSomewhere, TypeOK
  <2>2. \A e \in beam' \cup next' \cup pruned' : e \in beam \cup next \cup pruned
    BY <1>1, <1>2
  <2> QED  BY <1>1, <1>3, <2>1, <2>2 DEF TypeOK
<1>5. BeamsLeadSomewhere'
  BY <1>1, <1>2, <1>3, <1>4 DEF RouteInv, BeamsLeadSomewhere
<1>6. Levels'
  BY <1>1, <1>2 DEF RouteInv, Levels
<1>7. Sought'
  <2> SUFFICES ASSUME NEW p, NEW i, <<p, i>> \in leaves, i \in active, Len(p) < MaxDepth, i \notin collected
               PROVE  Waits(p, i)'
    BY <1>1, <1>3 DEF Sought
  <2>1. Waits(p, i)
    BY <1>1 DEF RouteInv, Sought
  <2> QED  BY <1>1, <2>1 DEF Waits
<1>8. Unasked' /\ Enough' /\ Shared' /\ Closing'
  BY <1>1 DEF Unasked, Enough, Shared, Closing
<1> QED  BY <1>1, <1>3, <1>5, <1>6, <1>7, <1>8 DEF RouteInv

\* What only moves the phase on or adds to the shortlist.
LEMMA SearchKept ==
    ASSUME RouteInv, phase # "build", phase' \in {"back", "fill", "done"},
           UNCHANGED <<treeVars, active, depth, beam, next, unexplored, pruned, collected>>,
           pins' \in PinSets \cup {{}}, short' \subseteq active,
           phase \in {"back", "fill", "done"} \/ depth = MaxDepth \/ beam \cup next = {}
    PROVE  TreeInv' /\ BeamsLeadSomewhere' /\ Levels' /\ Sought' /\ Unasked'
<1>1. /\ TreeInv' /\ Catalog' = Catalog /\ groups' = groups /\ leaves' = leaves /\ req' = req /\ todo' = todo
      /\ \A m : ItemsUnder(m)' = ItemsUnder(m)
  BY TreeFixed
<1>2. TypeOK'
  <2>1. TypeOK
    BY DEF RouteInv, BeamsLeadSomewhere
  <2> QED  BY <1>1, <2>1 DEF TypeOK
<1>3. BeamsLeadSomewhere'
  BY <1>1, <1>2 DEF RouteInv, BeamsLeadSomewhere
<1>4. Levels'
  BY DEF RouteInv, Levels
<1>5. Sought'
  BY <1>1 DEF RouteInv, Sought, Waits
<1>6. Unasked'
  BY DEF Unasked
<1> QED  BY <1>1, <1>3, <1>4, <1>5, <1>6

LEMMA LeaveBeamRoute == ASSUME RouteInv, LeaveBeam PROVE RouteInv'
<1>1. /\ phase = "beam" /\ phase' = "back" /\ pins' = pins /\ short' = short
      /\ UNCHANGED <<treeVars, active, depth, beam, next, unexplored, pruned, collected>>
      /\ depth = MaxDepth \/ beam \cup next = {}
  BY DEF LeaveBeam
<1>2. pins \in PinSets \cup {{}}
  BY DEF RouteInv, BeamsLeadSomewhere, TypeOK
<1>3. TreeInv' /\ BeamsLeadSomewhere' /\ Levels' /\ Sought' /\ Unasked'
  BY <1>1, <1>2, SearchKept DEF RouteInv
<1>4. Enough' /\ Shared' /\ Closing'
  BY <1>1 DEF Enough, Shared, Closing
<1> QED  BY <1>1, <1>3, <1>4 DEF RouteInv

LEMMA BacktrackRoute == ASSUME RouteInv, Backtrack PROVE RouteInv'
<1>1. PICK u \in unexplored : /\ unexplored' = unexplored \ {u}
                              /\ collected' = collected \cup (IF IsGroup(u) THEN Expanded(u.node) ELSE {u.item})
  BY DEF Backtrack
<1>2. /\ phase = "back" /\ phase' = "back" /\ UNCHANGED treeVars /\ active' = active /\ depth' = depth
      /\ beam' = beam /\ next' = next /\ pruned' = pruned /\ pins' = pins /\ short' = short
  BY DEF Backtrack
<1>3. /\ TreeInv' /\ Catalog' = Catalog /\ groups' = groups /\ leaves' = leaves /\ req' = req /\ todo' = todo
      /\ \A m : ItemsUnder(m)' = ItemsUnder(m)
  BY <1>2, TreeFixed
<1>4. collected' \subseteq active
  <2>1. Expanded(u.node) \subseteq active
    BY DEF Expanded
  <2>2. ~IsGroup(u) => u.item \in active
    BY DEF RouteInv, BeamsLeadSomewhere
  <2> QED  BY <1>1, <2>1, <2>2 DEF RouteInv
<1>5. TypeOK'
  <2>1. TypeOK
    BY DEF RouteInv, BeamsLeadSomewhere
  <2> QED  BY <1>1, <1>2, <1>3, <1>4, <2>1 DEF TypeOK
<1>6. BeamsLeadSomewhere'
  BY <1>1, <1>2, <1>3, <1>5 DEF RouteInv, BeamsLeadSomewhere
<1>7. Levels'
  BY <1>2 DEF RouteInv, Levels
<1>8. Sought'
  <2> SUFFICES ASSUME NEW p, NEW i, <<p, i>> \in leaves, i \in active, Len(p) < MaxDepth, i \notin collected'
               PROVE  Waits(p, i)'
    BY <1>2, <1>3 DEF Sought
  <2>1. Waits(p, i) /\ i \notin collected
    BY <1>1, <1>2 DEF RouteInv, Sought
  <2>2. p \in groups /\ i # 0
    BY RequestFacts, RouteConstants DEF RouteInv, TreeInv, TreeTyped, IInv
  <2>3. ~Below(u, p)
    <3> SUFFICES ASSUME Below(u, p) PROVE FALSE
      OBVIOUS
    <3>1. i \in Expanded(u.node)
      BY <2>2 DEF Expanded, Below
    <3> QED  BY <1>1, <3>1 DEF Below
  <2>4. u.item # i
    BY <1>1, <2>2 DEF IsGroup
  <2> QED  BY <1>1, <1>2, <2>1, <2>3, <2>4 DEF Waits
<1>9. Unasked' /\ Enough' /\ Shared' /\ Closing'
  BY <1>2 DEF Unasked, Enough, Shared, Closing
<1> QED  BY <1>2, <1>3, <1>4, <1>6, <1>7, <1>8, <1>9 DEF RouteInv

LEMMA MaxTwo == ASSUME NEW a \in Int, NEW b \in Int PROVE Max({a, b}) = IF a >= b THEN a ELSE b
BY DEF Max

\* Sets of items of a route are finite.
LEMMA RouteCounts ==
    ASSUME RouteInv, NEW S, S \subseteq active
    PROVE  IsFiniteSet(S) /\ Cardinality(S) \in Nat
<1>1. IsFiniteSet(Catalog) /\ active \subseteq Catalog
  BY RequestFacts DEF RouteInv, TreeInv, IInv, BeamsLeadSomewhere, TypeOK
<1> QED  BY <1>1, FS_Subset, FS_CardinalityType

LEMMA PinnedRoute == ASSUME RouteInv, Pinned PROVE RouteInv'
<1>1. /\ phase = "back" /\ phase' = "fill" /\ pins' \in PinSets /\ short' = pins' \cap active
      /\ UNCHANGED <<treeVars, active, depth, beam, next, unexplored, pruned, collected>>
      /\ Cardinality(collected) >= TopK \/ unexplored = {}
  BY DEF Pinned
<1>2. TreeInv' /\ BeamsLeadSomewhere' /\ Levels' /\ Sought' /\ Unasked'
  BY <1>1, SearchKept
<1>3. Enough' /\ Closing'
  BY <1>1 DEF Enough, Closing
<1>4. Shared'
  <2>1. short' \ pins' = {} /\ short' \subseteq active
    BY <1>1
  <2>2. Cardinality(short') \in Nat /\ TopK \in Nat
    BY <2>1, RouteCounts, RouteConstants
  <2>3. Cardinality(short') <= Max({TopK, Cardinality(short')})
    BY <2>2, MaxTwo
  <2> QED  BY <1>1, <2>1, <2>3 DEF Shared
<1> QED  BY <1>1, <1>2, <1>3, <1>4 DEF RouteInv

\* A candidate takes a slot of its namespace and one of the shortlist.
LEMMA FillRoute == ASSUME RouteInv, Fill PROVE RouteInv'
<1>1. PICK i \in Candidates : short' = short \cup {i}
  BY DEF Fill
<1>2. /\ phase = "fill" /\ phase' = "fill" /\ ~Full /\ pins' = pins
      /\ UNCHANGED <<treeVars, active, depth, beam, next, unexplored, pruned, collected>>
  BY DEF Fill
<1>3. i \in collected /\ i \notin short /\ Share(i) < Quota /\ i \in active /\ short' \subseteq active
  BY <1>1 DEF Candidates, RouteInv
<1>4. pins \in PinSets \cup {{}}
  BY DEF RouteInv, BeamsLeadSomewhere, TypeOK
<1>5. TreeInv' /\ BeamsLeadSomewhere' /\ Levels' /\ Sought' /\ Unasked'
  BY <1>2, <1>3, <1>4, SearchKept
<1>6. Enough' /\ Closing'
  BY <1>2 DEF Enough, Closing, RouteInv
<1>7. /\ pins \cap active \subseteq short /\ short \subseteq active
      /\ \A j \in short \ pins : Share(j) <= Quota
  BY <1>2 DEF RouteInv, Shared
<1>8. i \notin pins
  BY <1>3, <1>7
<1> DEFINE Of(j) == {m \in short \ pins : req.ns[m] = req.ns[j]}
<1>9. \A j : Share(j) = Cardinality(Of(j)) /\ IsFiniteSet(Of(j)) /\ Cardinality(Of(j)) \in Nat
  <2> TAKE j
  <2>1. Of(j) \subseteq active
    BY <1>7
  <2> HIDE DEF Of
  <2>2. IsFiniteSet(Of(j)) /\ Cardinality(Of(j)) \in Nat
    BY <2>1, RouteCounts
  <2> QED  BY <2>2 DEF Share, Of
<1>10. \A j : Share(j)' = IF req.ns[j] = req.ns[i] THEN Cardinality(Of(i) \cup {i}) ELSE Share(j)
  <2> TAKE j
  <2>1. req' = req
    BY <1>2 DEF treeVars
  <2>2. CASE req.ns[j] = req.ns[i]
    <3>1. {m \in short' \ pins : req.ns[m] = req.ns[j]} = Of(i) \cup {i}
      BY <1>1, <1>8, <2>2
    <3> QED  BY <1>2, <2>1, <2>2, <3>1 DEF Share
  <2>3. CASE req.ns[j] # req.ns[i]
    <3>1. {m \in short' \ pins : req.ns[m] = req.ns[j]} = Of(j)
      BY <1>1, <2>3
    <3> QED  BY <1>2, <1>9, <2>1, <2>3, <3>1 DEF Share
  <2> QED  BY <2>2, <2>3
<1>11. Cardinality(Of(i) \cup {i}) = Share(i) + 1
  <2>1. i \notin Of(i)
    BY <1>3
  <2> HIDE DEF Of
  <2> QED  BY <1>9, <2>1, FS_AddElement
<1>12. \A j \in short' \ pins : Share(j)' <= Quota
  <2> TAKE j \in short' \ pins
  <2>1. CASE req.ns[j] = req.ns[i]
    <3>1. Share(j)' = Share(i) + 1
      BY <1>10, <1>11, <2>1
    <3>2. Share(i) \in Nat /\ Quota \in Nat
      BY <1>9, RouteConstants
    <3> QED  BY <1>3, <3>1, <3>2
  <2>2. CASE req.ns[j] # req.ns[i]
    BY <1>1, <1>7, <1>10, <2>2
  <2> QED  BY <2>1, <2>2
<1>13. Cardinality(short') <= Max({TopK, Cardinality(pins \cap active)})
  <2>1. /\ IsFiniteSet(short) /\ Cardinality(short) \in Nat /\ Cardinality(pins \cap active) \in Nat
        /\ TopK \in Nat
    BY <1>7, RouteCounts, RouteConstants
  <2>2. Cardinality(short') = Cardinality(short) + 1
    BY <1>1, <1>3, <2>1, FS_AddElement
  <2>3. Cardinality(short) < TopK
    BY <1>2, <2>1 DEF Full
  <2>4. Max({TopK, Cardinality(pins \cap active)}) \in Nat /\ Max({TopK, Cardinality(pins \cap active)}) >= TopK
    <3> DEFINE a == TopK
               b == Cardinality(pins \cap active)
    <3>1. a \in Nat /\ b \in Nat
      BY <2>1
    <3> HIDE DEF a, b
    <3>2. Max({a, b}) = IF a >= b THEN a ELSE b
      BY <3>1, MaxTwo
    <3>3. Max({a, b}) \in Nat /\ Max({a, b}) >= a
      BY <3>1, <3>2
    <3> QED  BY <3>3 DEF a, b
  <2> QED  BY <2>1, <2>2, <2>3, <2>4
<1>14. Shared'
  BY <1>1, <1>2, <1>7, <1>12, <1>13 DEF Shared
<1> QED  BY <1>2, <1>3, <1>5, <1>6, <1>14 DEF RouteInv

LEMMA FinishRoute == ASSUME RouteInv, Finish PROVE RouteInv'
<1>1. /\ phase = "fill" /\ phase' = "done" /\ pins' = pins /\ short' = short /\ (Full \/ Candidates = {})
      /\ UNCHANGED <<treeVars, active, depth, beam, next, unexplored, pruned, collected>> /\ req' = req
  BY DEF Finish, treeVars
<1>2. pins \in PinSets \cup {{}} /\ short \subseteq active
  BY DEF RouteInv, BeamsLeadSomewhere, TypeOK
<1>3. TreeInv' /\ BeamsLeadSomewhere' /\ Levels' /\ Sought' /\ Unasked'
  BY <1>1, <1>2, SearchKept
<1>4. Enough' /\ Closing' /\ Shared'
  BY <1>1 DEF Enough, Closing, Shared, RouteInv, Full, Candidates, Share
<1> QED  BY <1>1, <1>2, <1>3, <1>4 DEF RouteInv

LEMMA StutterRoute == ASSUME RouteInv, UNCHANGED vars PROVE RouteInv'
<1>1. /\ UNCHANGED treeVars /\ UNCHANGED routeVars
      /\ phase' = phase /\ active' = active /\ depth' = depth /\ beam' = beam /\ next' = next
      /\ unexplored' = unexplored /\ pruned' = pruned /\ collected' = collected /\ pins' = pins /\ short' = short
  BY DEF vars, routeVars
<1>2. /\ TreeInv' /\ Catalog' = Catalog /\ groups' = groups /\ leaves' = leaves /\ req' = req /\ todo' = todo
      /\ \A m : ItemsUnder(m)' = ItemsUnder(m)
  BY <1>1, TreeFixed
<1>3. BeamsLeadSomewhere'
  <2>1. TypeOK'
    BY <1>1, <1>2 DEF RouteInv, BeamsLeadSomewhere, TypeOK
  <2> QED  BY <1>1, <1>2, <2>1 DEF RouteInv, BeamsLeadSomewhere
<1>4. Unasked' /\ Levels' /\ Sought' /\ Enough'
  BY <1>1, <1>2 DEF RouteInv, Unasked, Levels, Sought, Waits, Enough
<1>5. Shared' /\ Closing'
  BY <1>1, <1>2 DEF RouteInv, Shared, Closing, Full, Candidates, Share
<1> QED  BY <1>1, <1>2, <1>3, <1>4, <1>5 DEF RouteInv

LEMMA NextRoute == RouteInv /\ [Next]_vars => RouteInv'
<1> SUFFICES ASSUME RouteInv, [Next]_vars PROVE RouteInv'
  OBVIOUS
<1>1. CASE UNCHANGED vars
  BY <1>1, StutterRoute
<1>2. CASE phase = "build" /\ Build /\ UNCHANGED routeVars
  BY <1>2, BuildRoute
<1>3. CASE \E b \in beam : Expand(b)
  BY <1>3, ExpandRoute
<1>4. CASE Ask \/ NextLevel \/ LeaveBeam \/ Backtrack
  BY <1>4, AskRoute, NextLevelRoute, LeaveBeamRoute, BacktrackRoute
<1>5. CASE Pinned \/ Fill \/ Finish
  BY <1>5, PinnedRoute, FillRoute, FinishRoute
<1> QED  BY <1>1, <1>2, <1>3, <1>4, <1>5 DEF Next

LEMMA RouteMeans == RouteInv => BeamsLeadSomewhere /\ FilledOrPruned /\ ShortlistFair
<1> SUFFICES ASSUME RouteInv PROVE FilledOrPruned /\ ShortlistFair
  BY DEF RouteInv
<1>1. FilledOrPruned
  <2> SUFFICES ASSUME phase \in {"fill", "done"}, Cardinality(collected) < TopK, NEW l \in leaves,
                      l[2] \notin collected \cup (Catalog \ active), ~(Len(l[1]) >= MaxDepth)
               PROVE  \E e \in pruned : IsPrefix(e.node, l[1])
    BY DEF FilledOrPruned
  <2>1. PICK p, i : /\ l = <<p, i>> /\ <<p, i>> \in leaves /\ p \in Seq(Label) /\ i \in active
                    /\ i \notin collected /\ Len(p) \in Nat /\ Len(p) < MaxDepth
    <3>1. PICK p \in groups, i \in Catalog : l = <<p, i>> /\ p \in Seq(Label)
      BY DEF RouteInv, TreeInv, TreeTyped
    <3>2. l[1] = p /\ l[2] = i /\ <<p, i>> \in leaves
      BY <3>1
    <3>3. i \in active /\ i \notin collected
      BY <3>1, <3>2
    <3>4. Len(p) \in Nat /\ MaxDepth \in Nat /\ ~(Len(p) >= MaxDepth)
      BY <3>1, <3>2, RouteConstants
    <3>5. Len(p) < MaxDepth
      BY <3>4
    <3> QED  BY <3>1, <3>2, <3>3, <3>4, <3>5
  <2>2. Waits(p, i)
    BY <2>1 DEF RouteInv, Sought
  <2>3. Cardinality(collected) \in Nat /\ TopK \in Nat
    BY RouteCounts, RouteConstants DEF RouteInv
  <2>4. unexplored = {}
    BY <2>3 DEF RouteInv, Enough
  <2>5. ASSUME NEW e \in beam \cup next PROVE ~Below(e, p)
    <3>1. e.node \in Seq(Label) /\ depth = MaxDepth /\ Len(e.node) >= depth
      <4>1. depth \in Nat /\ e \in Entry
        BY DEF RouteInv, BeamsLeadSomewhere, TypeOK
      <4> QED  BY <2>5, <4>1 DEF RouteInv, Levels, Entry
    <3>2. IsPrefix(e.node, p) => Len(e.node) <= Len(p)
      BY <2>1, <3>1, PrefixFacts
    <3>3. Len(e.node) \in Nat /\ MaxDepth \in Nat
      BY <3>1, RouteConstants
    <3> QED  BY <2>1, <3>1, <3>2, <3>3 DEF Below
  <2> QED  BY <2>1, <2>2, <2>4, <2>5 DEF Waits, Below
<1>2. ShortlistFair
  <2> SUFFICES ASSUME phase = "done", Cardinality(short) < TopK, NEW i \in collected \ short
               PROVE  Share(i) >= Quota
    BY DEF RouteInv, Shared, ShortlistFair
  <2>1. {m \in short \ pins : req.ns[m] = req.ns[i]} \subseteq active
    BY DEF RouteInv
  <2>2. Share(i) \in Nat /\ Quota \in Nat /\ Cardinality(short) \in Nat /\ TopK \in Nat
    BY <2>1, RouteCounts, RouteConstants DEF Share, RouteInv
  <2>3. Candidates = {}
    BY <2>2 DEF RouteInv, Closing, Full
  <2> QED  BY <2>2, <2>3 DEF Candidates
<1> QED  BY <1>1, <1>2

LEMMA RouterComponent == Spec => [](TreeSound /\ BeamsLeadSomewhere /\ FilledOrPruned /\ ShortlistFair)
<1>1. RouteInv => TreeSound /\ BeamsLeadSomewhere /\ FilledOrPruned /\ ShortlistFair
  BY RouteMeans, TreeMeans DEF RouteInv
<1> QED  BY <1>1, InitRoute, NextRoute, PTL DEF Spec

LEMMA RouterPart == SpecParts => Spec
<1>1. InitParts => Init
  BY DEF InitParts
<1>2. [NextPart]_allVars => [Next]_vars
  BY DEF NextPart, allVars
<1> QED  BY <1>1, <1>2, PTL DEF SpecParts, Spec

\* Every node of a tree has at most max_children children; with two or more, a group
\* is smaller than what it is split from, so _build_subtree ends; and when at most one
\* namespace outgrows a node, each item hangs on the graph once (TreeBuilder.build).
THEOREM TreesAreSound == SpecParts => []TreeSound
BY RouterPart, RouterComponent, PTL

\* Whatever the scores: below the root, what waits in a beam or for the backtracking is
\* an active item or has one below it (BeamSearchNavigator).
THEOREM BeamsAreSpentWell == SpecParts => []BeamsLeadSomewhere
BY RouterPart, RouterComponent, PTL

\* A route with fewer than top_k candidates has every active item of the graph but those
\* below a beam that was cut and those beyond max_depth (BeamSearchNavigator.navigate).
THEOREM RoutesMissNothingElse == SpecParts => []FilledOrPruned
BY RouterPart, RouterComponent, PTL

\* A shortlist has nothing that was filtered out, every active pin, no namespace over its
\* quota, at most top_k entries unless there are more pins, and leaves no candidate out
\* while there is room for it (compose_shortlist).
THEOREM ShortlistsAreFair == SpecParts => []ShortlistFair
BY RouterPart, RouterComponent, PTL

--------------------------------------------------------------------------------
(***************************************************************************)
(* The choice graph, for any finite set of node ids.  An edge is accepted when a*)
(* search from its target can end without its source: the nodes that the search*)
(* has seen are a closed set S.  A set of nodes has a node without successor in it*)
(* before the edge; if the set meets S that of its part in S is still one, since*)
(* the edge starts outside S, and otherwise its own is, since the edge ends in S*)
(* (AcceptedIsAcyclic).                                                    *)
(***************************************************************************)
LEMMA GraphCounts ==
    \A S : /\ Graph!Cardinality(S) = Cardinality(S)
           /\ Graph!IsFiniteSet(S) <=> IsFiniteSet(S)
  BY DEF Graph!Cardinality, Cardinality, Graph!IsFiniteSet, IsFiniteSet

\* An edge that is accepted closes no cycle.
LEMMA AcceptedIsAcyclic ==
    ASSUME NEW E \in SUBSET Graph!Edge, NEW e \in Graph!Edge, Graph!Acyclic(E), ~Graph!Closes(e, E)
    PROVE  Graph!Acyclic(E \cup {e})
<1>1. PICK S \in SUBSET Node : e[2] \in S /\ Graph!Closed(S, E \cup {e}) /\ e[1] \notin S
  BY DEF Graph!Closes, Graph!Reaches
<1>2. e = <<e[1], e[2]>>
  BY DEF Graph!Edge
<1> SUFFICES ASSUME NEW C \in SUBSET Node, C # {}
             PROVE  \E n \in C : \A m \in C : <<n, m>> \notin E \cup {e}
  BY DEF Graph!Acyclic
<1>3. CASE C \cap S # {}
  <2>1. PICK n \in C \cap S : \A m \in C \cap S : <<n, m>> \notin E
    BY <1>3 DEF Graph!Acyclic
  <2>2. ASSUME NEW m \in C, <<n, m>> \in E \cup {e}
        PROVE  FALSE
    <3>1. <<n, m>>[1] = n /\ <<n, m>>[2] = m
      OBVIOUS
    <3>2. m \in S
      BY <1>1, <2>1, <2>2, <3>1 DEF Graph!Closed
    <3>3. <<n, m>> = e
      BY <2>1, <2>2, <3>2
    <3> QED  BY <1>1, <2>1, <3>1, <3>3
  <2> QED  BY <2>1, <2>2
<1>4. CASE C \cap S = {}
  <2>1. PICK n \in C : \A m \in C : <<n, m>> \notin E
    BY DEF Graph!Acyclic
  <2>2. ASSUME NEW m \in C, <<n, m>> = e
        PROVE  FALSE
    BY <1>1, <1>2, <1>4, <2>2
  <2> QED  BY <2>1, <2>2
<1> QED  BY <1>3, <1>4

\* Who reaches b in one step or more does so through a successor.
LEMMA NextReaches ==
    ASSUME NEW E \in SUBSET Graph!Edge, NEW n \in Node, NEW b \in Node, Graph!Reaches(n, b, E), n # b
    PROVE  \E m \in Node : <<n, m>> \in E /\ Graph!Reaches(m, b, E)
<1> SUFFICES ASSUME \A m \in Node : <<n, m>> \in E => ~Graph!Reaches(m, b, E)
             PROVE  FALSE
  OBVIOUS
<1> DEFINE Away == {m \in Node : ~Graph!Reaches(m, b, E)}
           S == Away \cup {n}
<1>1. ASSUME NEW f \in E, f[1] \in S
      PROVE  f[2] \in S
  <2>1. f[1] \in Node /\ f[2] \in Node /\ f = <<f[1], f[2]>>
    BY DEF Graph!Edge
  <2>2. CASE f[1] = n
    BY <2>1, <2>2
  <2>3. CASE f[1] \in Away
    <3>1. PICK T \in SUBSET Node : f[1] \in T /\ Graph!Closed(T, E) /\ b \notin T
      BY <2>3 DEF Graph!Reaches
    <3>2. f[2] \in T
      BY <3>1 DEF Graph!Closed
    <3> QED  BY <2>1, <3>1, <3>2 DEF Graph!Reaches
  <2> QED  BY <1>1, <2>2, <2>3
<1>2. S \in SUBSET Node /\ n \in S /\ Graph!Closed(S, E)
  BY <1>1 DEF Graph!Closed
<1>3. b \in S
  BY <1>2 DEF Graph!Reaches
<1>4. Graph!Reaches(b, b, E)
  BY DEF Graph!Reaches
<1> QED  BY <1>3, <1>4

\* An edge that is refused does close a cycle: all nodes that reach its source
\* have a successor among them.
LEMMA RefusedIsCyclic ==
    ASSUME NEW E \in SUBSET Graph!Edge, NEW e \in Graph!Edge, Graph!Closes(e, E)
    PROVE  ~Graph!Acyclic(E \cup {e})
<1> DEFINE F == E \cup {e}
           C == {n \in Node : Graph!Reaches(n, e[1], F)}
<1>1. e[1] \in Node /\ e[2] \in Node /\ e = <<e[1], e[2]>> /\ F \in SUBSET Graph!Edge
  BY DEF Graph!Edge
<1>2. e[2] \in C
  BY <1>1 DEF Graph!Closes
<1>3. ASSUME NEW n \in C
      PROVE  \E m \in C : <<n, m>> \in F
  <2>1. CASE n = e[1]
    BY <1>1, <1>2, <2>1
  <2>2. CASE n # e[1]
    <3>1. PICK m \in Node : <<n, m>> \in F /\ Graph!Reaches(m, e[1], F)
      BY <1>1, <2>2, NextReaches
    <3> QED  BY <3>1
  <2> QED  BY <2>1, <2>2
<1>4. C \in SUBSET Node /\ C # {}
  BY <1>2
<1> HIDE DEF C
<1> QED  BY <1>3, <1>4 DEF Graph!Acyclic

\* More edges do not undo a cycle.
LEMMA CyclesStay ==
    ASSUME NEW E, NEW F, E \subseteq F, ~Graph!Acyclic(E)
    PROVE  ~Graph!Acyclic(F)
  BY DEF Graph!Acyclic

LEMMA NoEdges == Graph!Acyclic({})
  BY DEF Graph!Acyclic

--------------------------------------------------------------------------------
\* What a load has made and has still to make is what the file lists.
Reading == loading # None =>
    /\ loading.made \in SUBSET Graph!Edge /\ loading.todo \in SUBSET Graph!Edge
    /\ file.edges = loading.made \cup loading.todo

Deserved == refused # None => ~Graph!Acyclic(edges \cup {refused})

GraphIInv == edges \in SUBSET Graph!Edge /\ Graph!NoCycles /\ Reading /\ Deserved

LEMMA GraphInitIInv == Graph!Init => GraphIInv
  BY NoEdges DEF Graph!Init, GraphIInv, Graph!NoCycles, Reading, Deserved

LEMMA GraphNextIInv == GraphIInv /\ [Graph!Next]_Graph!vars => GraphIInv'
<1> SUFFICES ASSUME GraphIInv, [Graph!Next]_Graph!vars
             PROVE  GraphIInv'
  OBVIOUS
<1>0. edges \in SUBSET Graph!Edge /\ Graph!Acyclic(edges)
  BY DEF GraphIInv, Graph!NoCycles
<1>1. ASSUME NEW n \in Node, Graph!AddNode(n) \/ Graph!AddItem(n)
      PROVE  GraphIInv'
  BY <1>1 DEF Graph!AddNode, Graph!AddItem, Graph!Goes, Graph!Still, GraphIInv, Graph!NoCycles, Reading, Deserved
<1>2. ASSUME NEW e \in Graph!Edge, Graph!AddEdge(e)
      PROVE  GraphIInv'
  <2>1. loading = None /\ loading' = None
    BY <1>2 DEF Graph!AddEdge, Graph!Goes, Graph!Still
  <2>2. CASE Graph!Closes(e, edges)
    <3>1. refused' = e /\ edges' = edges
      BY <1>2, <2>2 DEF Graph!AddEdge
    <3>2. ~Graph!Acyclic(edges \cup {e})
      BY <1>0, <2>2, RefusedIsCyclic
    <3> QED  BY <1>0, <2>1, <3>1, <3>2 DEF GraphIInv, Graph!NoCycles, Reading, Deserved
  <2>3. CASE ~Graph!Closes(e, edges)
    <3>1. refused' = refused /\ edges' = edges \cup {e}
      BY <1>2, <2>3 DEF Graph!AddEdge
    <3>2. Graph!Acyclic(edges \cup {e})
      BY <1>0, <2>3, AcceptedIsAcyclic
    <3>3. refused # None => ~Graph!Acyclic(edges \cup {e} \cup {refused})
      BY CyclesStay DEF GraphIInv, Deserved
    <3> QED  BY <1>0, <2>1, <3>1, <3>2, <3>3 DEF GraphIInv, Graph!NoCycles, Reading, Deserved
  <2> QED  BY <2>2, <2>3
<1>3. ASSUME NEW f, f.edges \in SUBSET Graph!Edge, Graph!Open(f)
      PROVE  GraphIInv'
  BY <1>0, <1>3, NoEdges DEF Graph!Open, GraphIInv, Graph!NoCycles, Reading, Deserved
<1>4. CASE Graph!Reload
  BY <1>0, <1>3, <1>4 DEF Graph!Reload
<1>5. CASE Graph!Load
  BY <1>3, <1>5 DEF Graph!Load
<1>6. ASSUME NEW e \in Graph!Edge, Graph!LoadEdge(e)
      PROVE  GraphIInv'
  <2>1. /\ loading # None /\ e \in loading.todo
        /\ UNCHANGED <<edges, refused, file>>
    BY <1>6 DEF Graph!LoadEdge
  <2>2. CASE Graph!Closes(e, loading.made)
    BY <1>6, <2>1, <2>2 DEF Graph!LoadEdge, GraphIInv, Graph!NoCycles, Reading, Deserved
  <2>3. CASE ~Graph!Closes(e, loading.made)
    <3>1. loading' = [made |-> loading.made \cup {e}, todo |-> loading.todo \ {e}]
      BY <1>6, <2>3 DEF Graph!LoadEdge
    <3>2. Graph!Acyclic(loading.made \cup {e})
      BY <2>1, <2>3, AcceptedIsAcyclic DEF GraphIInv, Graph!NoCycles, Reading
    <3>3. loading'.made = loading.made \cup {e} /\ loading'.todo = loading.todo \ {e}
      BY <3>1
    <3> QED  BY <2>1, <3>2, <3>3 DEF GraphIInv, Graph!NoCycles, Reading, Deserved
  <2> QED  BY <2>2, <2>3
<1>7. CASE Graph!Finish
  <2>1. loading # None /\ loading' = None
    BY <1>7 DEF Graph!Finish
  <2>2. CASE Graph!Valid
    <3>1. edges' = loading.made /\ refused' = None
      BY <1>7, <2>2 DEF Graph!Finish
    <3> QED  BY <2>1, <3>1 DEF GraphIInv, Graph!NoCycles, Reading, Deserved
  <2>3. CASE ~Graph!Valid
    BY <1>7, <2>1, <2>3 DEF Graph!Finish, GraphIInv, Graph!NoCycles, Reading, Deserved
  <2> QED  BY <2>2, <2>3
<1>8. CASE UNCHANGED Graph!vars
  BY <1>8 DEF Graph!vars, GraphIInv, Graph!NoCycles, Reading, Deserved
<1> QED  BY <1>1, <1>2, <1>4, <1>5, <1>6, <1>7, <1>8 DEF Graph!Next

LEMMA Always == Graph!Spec => []GraphIInv
  BY GraphInitIInv, GraphNextIInv, PTL DEF Graph!Spec

\* No graph ever has a cycle, whether it is built edge by edge, saved and loaded or
\* read from a file that somebody wrote, for any set of ids (add_edge, from_dict).
THEOREM NeverCyclic == Graph!Spec => []Graph!NoCycles
<1>1. GraphIInv => Graph!NoCycles
  BY DEF GraphIInv
<1> QED  BY <1>1, Always, PTL

\* add_edge refuses only edges that would close a cycle in the graph as it is now.
THEOREM RefusalsDeserved == Graph!Spec => [](refused # None => ~Graph!Acyclic(edges \cup {refused}))
<1>1. GraphIInv => (refused # None => ~Graph!Acyclic(edges \cup {refused}))
  BY DEF GraphIInv, Deserved
<1> QED  BY <1>1, Always, PTL

--------------------------------------------------------------------------------
LEMMA NextLoadRight ==
    ASSUME None \notin Graph!Words, GraphIInv, Graph!LoadRight, [Graph!Next]_Graph!vars
    PROVE  Graph!LoadRight'
<1>1. ASSUME answer' = None
      PROVE  Graph!LoadRight'
  BY <1>1 DEF Graph!LoadRight, Graph!Words
<1>2. ASSUME NEW n \in Node, Graph!AddNode(n) \/ Graph!AddItem(n)
      PROVE  Graph!LoadRight'
  BY <1>1, <1>2 DEF Graph!AddNode, Graph!AddItem, Graph!Goes
<1>3. ASSUME NEW e \in Graph!Edge, Graph!AddEdge(e)
      PROVE  Graph!LoadRight'
  BY <1>1, <1>3 DEF Graph!AddEdge, Graph!Goes
<1>4. CASE Graph!Reload \/ Graph!Load
  BY <1>1, <1>4 DEF Graph!Reload, Graph!Load, Graph!Open
<1>5. ASSUME NEW e \in Graph!Edge, Graph!LoadEdge(e)
      PROVE  Graph!LoadRight'
  <2>1. /\ loading # None /\ e \in loading.todo
        /\ UNCHANGED <<nodes, items, edges, kinds, refused, file>>
    BY <1>5 DEF Graph!LoadEdge
  <2>2. CASE Graph!Closes(e, loading.made)
    <3>1. answer' = "cycle"
      BY <1>5, <2>2 DEF Graph!LoadEdge
    <3>2. ~Graph!Acyclic(loading.made \cup {e})
      BY <2>1, <2>2, RefusedIsCyclic DEF GraphIInv, Reading
    <3>3. ~Graph!Acyclic(file.edges)
      BY <2>1, <3>2, CyclesStay DEF GraphIInv, Reading
    <3> QED  BY <2>1, <3>1, <3>3 DEF Graph!LoadRight
  <2>3. CASE ~Graph!Closes(e, loading.made)
    <3>1. answer' = answer
      BY <1>5, <2>3 DEF Graph!LoadEdge
    <3> QED  BY <2>1, <3>1 DEF Graph!LoadRight, Graph!Lost, Graph!Rootless, Graph!Described, Graph!Named, Graph!Kind
  <2> QED  BY <2>2, <2>3
<1>6. CASE Graph!Finish
  <2>1. loading # None /\ loading.todo = {} /\ file' = file
    BY <1>6 DEF Graph!Finish
  <2>2. file.edges = loading.made /\ Graph!Acyclic(file.edges)
    BY <2>1 DEF GraphIInv, Graph!NoCycles, Reading
  <2>3. CASE Graph!Valid
    <3>1. /\ answer' = "loaded" /\ nodes' = Graph!LoadedNodes
          /\ items' = file.items /\ edges' = loading.made
          /\ kinds' = [e \in edges' |-> IF e[2] \in file.items THEN "item" ELSE "node"]
      BY <1>6, <2>3 DEF Graph!Finish
    <3>2. Graph!Described'
      BY <2>1, <2>2, <3>1 DEF Graph!Described, Graph!LoadedNodes, Graph!Named, Graph!Kind
    <3>3. ~Graph!Rootless' /\ Graph!Lost' = {}
      BY <2>1, <2>2, <2>3 DEF Graph!Valid, Graph!Rootless, Graph!Lost, Graph!LoadedNodes, Graph!Named
    <3> QED  BY <2>1, <2>2, <3>1, <3>2, <3>3 DEF Graph!LoadRight
  <2>4. CASE ~Graph!Valid
    <3>1. answer' = "invalid"
      BY <1>6, <2>4 DEF Graph!Finish
    <3>2. Graph!Rootless' \/ Graph!Lost' # {}
      BY <2>1, <2>2, <2>4 DEF Graph!Valid, Graph!Rootless, Graph!Lost, Graph!LoadedNodes, Graph!Named
    <3> QED  BY <2>1, <2>2, <3>1, <3>2 DEF Graph!LoadRight
  <2> QED  BY <2>3, <2>4
<1>7. CASE UNCHANGED Graph!vars
  BY <1>7 DEF Graph!vars, Graph!LoadRight, Graph!Lost, Graph!Rootless, Graph!Described, Graph!Named, Graph!Kind
<1> QED  BY <1>2, <1>3, <1>4, <1>5, <1>6, <1>7 DEF Graph!Next

\* load_graph refuses exactly the files with a cycle, whatever order their edges are
\* in, and those that _validate rejects; it describes every other file as it is.
THEOREM LoadsRight == ASSUME None \notin Graph!Words
                      PROVE  Graph!Spec => []Graph!LoadRight
<1>1. Graph!Init => Graph!LoadRight
  BY DEF Graph!Init, Graph!LoadRight, Graph!Words
<1>2. GraphIInv /\ Graph!LoadRight /\ [Graph!Next]_Graph!vars => Graph!LoadRight'
  BY NextLoadRight
<1> QED  BY <1>1, <1>2, Always, PTL DEF Graph!Spec

--------------------------------------------------------------------------------
(* An order for the whole graph *)

LEMMA LeastOf ==
    ASSUME NEW S \in SUBSET Nat, S # {}
    PROVE  Graph!Min(S) \in S
BY Least DEF Graph!Min

\* In a finite graph without cycles, every set of nodes has one without a
\* predecessor in it: take a node without successor away, and a node that has none
\* in the rest is not preceded by that one either.
LEMMA SourceExists ==
    ASSUME NEW E, NEW C \in SUBSET Node, IsFiniteSet(C), C # {}, Graph!Acyclic(E)
    PROVE  \E n \in C : \A m \in C : <<m, n>> \notin E
<1> DEFINE Source(D) == \E n \in D : \A m \in D : <<m, n>> \notin E
           Sizes == {k \in Nat : \E D \in SUBSET Node : /\ IsFiniteSet(D) /\ Cardinality(D) = k
                                                        /\ D # {} /\ ~Source(D)}
<1>1. SUFFICES ASSUME Sizes # {} PROVE FALSE
  BY FS_CardinalityType
<1>2. PICK k \in Sizes : \A l \in Sizes : k <= l
  <2>1. Sizes \in SUBSET Nat
    OBVIOUS
  <2> HIDE DEF Sizes
  <2> QED  BY <1>1, <2>1, Least
<1>3. PICK D \in SUBSET Node : IsFiniteSet(D) /\ Cardinality(D) = k /\ D # {} /\ ~Source(D)
  BY <1>2
<1>4. PICK s \in D : \A m \in D : <<s, m>> \notin E
  BY <1>3 DEF Graph!Acyclic
<1>5. IsFiniteSet(D \ {s}) /\ Cardinality(D \ {s}) = k - 1 /\ k - 1 \in Nat
  BY <1>3, <1>4, FS_RemoveElement, FS_CardinalityType
<1>6. CASE D \ {s} = {}
  BY <1>3, <1>4, <1>6
<1>7. CASE D \ {s} # {}
  <2>1. k - 1 \notin Sizes
    BY <1>2, <1>5
  <2>2. Source(D \ {s})
    BY <1>5, <1>7, <2>1
  <2> QED  BY <1>3, <1>4, <2>2
<1> QED  BY <1>6, <1>7

\* One step of topological_order.
Peel(done) == IF Graph!Ready(done) = {} THEN done ELSE done \cup {Graph!Min(Graph!Ready(done))}

\* The recursive function is one: by the least length for which it would not be.
LEMMA PeeledSteps ==
    ASSUME IsFiniteSet(Node)
    PROVE  /\ Graph!Peeled[0] = {}
           /\ \A k \in 1..Cardinality(Node) : Graph!Peeled[k] = Peel(Graph!Peeled[k - 1])
<1> DEFINE N == Graph!Cardinality(Node)
           F(f, n) == f = [k \in 0..n |-> IF k = 0 THEN {} ELSE Peel(f[k - 1])]
           Bad == {n \in Nat : ~\E f : F(f, n)}
<1>1. N = Cardinality(Node) /\ N \in Nat
  BY FS_CardinalityType, GraphCounts
<1>2. Bad = {}
  <2> SUFFICES ASSUME Bad # {} PROVE FALSE
    OBVIOUS
  <2>1. PICK n \in Bad : \A m \in Bad : n <= m
    <3>1. Bad \in SUBSET Nat
      OBVIOUS
    <3> HIDE DEF Bad
    <3> QED  BY <3>1, Least
  <2>2. CASE n = 0
    <3> DEFINE g == [k \in 0..0 |-> {}]
    <3>1. F(g, 0)
      OBVIOUS
    <3> QED  BY <2>1, <2>2, <3>1
  <2>3. CASE n # 0
    <3>0. n - 1 \in Nat /\ n - 1 < n /\ n - 1 \notin Bad
      <4>1. n \in Nat
        BY <2>1
      <4> HIDE DEF Bad
      <4> QED  BY <2>1, <2>3, <4>1
    <3>1. PICK f : F(f, n - 1)
      BY <3>0
    <3> DEFINE g == [k \in 0..n |-> IF k = n THEN Peel(f[n - 1]) ELSE f[k]]
    <3>2. \A k \in 0..(n - 1) : f[k] = IF k = 0 THEN {} ELSE Peel(f[k - 1])
      BY <3>1
    <3>3. \A k \in 0..n : g[k] = IF k = 0 THEN {} ELSE Peel(g[k - 1])
      <4> TAKE k \in 0..n
      <4>1. CASE k = n
        <5>1. n - 1 \in 0..n /\ n - 1 # n
          BY <2>3
        <5>2. g[n] = Peel(f[n - 1]) /\ g[n - 1] = f[n - 1]
          BY <5>1
        <5> HIDE DEF g
        <5> QED  BY <2>3, <4>1, <5>2
      <4>2. CASE k # n /\ k # 0
        <5>1. k \in 0..(n - 1) /\ k - 1 \in 0..n /\ k - 1 # n
          BY <4>2
        <5>2. g[k] = f[k] /\ g[k - 1] = f[k - 1]
          BY <4>2, <5>1
        <5> HIDE DEF g
        <5> QED  BY <3>2, <4>2, <5>1, <5>2
      <4>3. CASE k # n /\ k = 0
        BY <3>2, <4>3
      <4> QED  BY <4>1, <4>2, <4>3
    <3>4. F(g, n)
      BY <3>3
    <3> QED  BY <2>1, <3>4
  <2> QED  BY <2>2, <2>3
<1>3. F(Graph!Peeled, N)
  <2>1. \E f : F(f, N)
    BY <1>1, <1>2
  <2>2. Graph!Peeled = CHOOSE f : F(f, N)
    BY DEF Graph!Peeled, Peel
  <2> QED  BY <2>1, <2>2
<1> HIDE DEF N
<1>4. Graph!Peeled[0] = {} /\ \A k \in 1..N : Graph!Peeled[k] = Peel(Graph!Peeled[k - 1])
  <2> DEFINE P == Graph!Peeled
  <2>1. F(P, N)
    BY <1>3
  <2> HIDE DEF P
  <2>2. P = [k \in 0..N |-> IF k = 0 THEN {} ELSE Peel(P[k - 1])]
    BY <2>1
  <2>3. P[0] = {}
    BY <1>1, <2>2
  <2>4. ASSUME NEW k \in 1..N PROVE P[k] = Peel(P[k - 1])
    <3>1. k \in 0..N /\ k # 0
      BY <1>1
    <3> QED  BY <2>2, <3>1
  <2> QED  BY <2>3, <2>4 DEF P
<1> QED  BY <1>1, <1>4

\* Kahn's algorithm gets through an acyclic graph: each step takes one node more.
LEMMA AcyclicIsSortable ==
    ASSUME Node \subseteq Nat, IsFiniteSet(Node), nodes \subseteq Node, edges \subseteq nodes \X nodes,
           Graph!Acyclic(edges)
    PROVE  Graph!Sortable
<1> DEFINE N == Cardinality(Node)
           Done(k) == Graph!Peeled[k] \subseteq nodes /\ (Graph!Peeled[k] = nodes \/ Cardinality(Graph!Peeled[k]) = k)
           Bad == {k \in 0..N : ~Done(k)}
<1>1. /\ N \in Nat /\ IsFiniteSet(nodes) /\ Cardinality(nodes) \in Nat /\ Cardinality(nodes) <= N
      /\ Graph!Peeled[0] = {} /\ \A k \in 1..N : Graph!Peeled[k] = Peel(Graph!Peeled[k - 1])
  BY FS_CardinalityType, FS_Subset, PeeledSteps
<1> HIDE DEF N
<1>2. Done(0)
  BY <1>1, FS_EmptySet
<1>3. ASSUME NEW k \in 1..N, Done(k - 1)
      PROVE  Done(k)
  <2> DEFINE done == Graph!Peeled[k - 1]
  <2>1. Graph!Peeled[k] = Peel(done) /\ done \subseteq nodes /\ (done = nodes \/ Cardinality(done) = k - 1)
    BY <1>1, <1>3
  <2> HIDE DEF done
  <2>2. CASE done = nodes
    <3>1. Graph!Ready(done) = {}
      BY <2>2 DEF Graph!Ready
    <3> QED  BY <2>1, <2>2, <3>1 DEF Peel
  <2>3. CASE done # nodes
    <3>1. nodes \ done \in SUBSET Node /\ nodes \ done # {} /\ IsFiniteSet(nodes \ done)
          /\ IsFiniteSet(done)
      BY <1>1, <2>1, <2>3, FS_Subset
    <3>2. PICK n \in nodes \ done : \A m \in nodes \ done : <<m, n>> \notin edges
      BY <3>1, SourceExists
    <3>3. n \in Graph!Ready(done)
      <4>1. ASSUME NEW e \in edges, e[2] = n
            PROVE  e[1] \in done
        <5>1. e = <<e[1], n>> /\ e[1] \in nodes
          BY <4>1
        <5> QED  BY <3>2, <5>1
      <4> QED  BY <3>2, <4>1 DEF Graph!Ready
    <3> DEFINE upcoming == Graph!Min(Graph!Ready(done))
    <3>4. upcoming \in nodes \ done /\ Graph!Peeled[k] = done \cup {upcoming}
      <4>1. Graph!Ready(done) \in SUBSET Nat /\ Graph!Ready(done) # {}
        BY <3>3 DEF Graph!Ready
      <4>2. upcoming \in Graph!Ready(done)
        BY <4>1, LeastOf
      <4> QED  BY <2>1, <4>1, <4>2 DEF Graph!Ready, Peel
    <3> HIDE DEF upcoming
    <3>5. Cardinality(done \cup {upcoming}) = k
      <4>1. Cardinality(done \cup {upcoming}) = Cardinality(done) + 1
        BY <3>1, <3>4, FS_AddElement
      <4> QED  BY <1>1, <2>1, <2>3, <4>1
    <3> QED  BY <2>1, <3>4, <3>5
  <2> QED  BY <2>2, <2>3
<1>4. \A k \in 0..N : Done(k)
  <2> HIDE DEF Done
  <2> SUFFICES ASSUME Bad # {} PROVE FALSE
    OBVIOUS
  <2>1. Bad \in SUBSET Nat
    BY <1>1
  <2>2. PICK k \in Bad : \A m \in Bad : k <= m
    <3> HIDE DEF Bad
    <3> QED  BY <2>1, Least
  <2>3. k # 0 /\ k \in 0..N
    BY <1>2
  <2>4. k - 1 \notin Bad /\ k - 1 \in 0..N /\ k \in 1..N
    BY <1>1, <2>2, <2>3
  <2> QED  BY <1>3, <2>2, <2>4
<1>5. Done(N) /\ IsFiniteSet(Graph!Peeled[N])
  BY <1>1, <1>4, FS_Subset
<1>6. Cardinality(Graph!Peeled[N]) = N => Graph!Peeled[N] = nodes
  BY <1>1, <1>5, FS_Subset
<1> QED  BY <1>5, <1>6, GraphCounts DEF Graph!Sortable, N

--------------------------------------------------------------------------------
Typed == /\ nodes \subseteq Node /\ items \subseteq Node
         /\ edges \subseteq nodes \X nodes
         /\ kinds \in [edges -> {"item", "node"}]
         /\ refused \in Graph!Edge \cup {None}
         /\ file \in Graph!File \cup {None}
         /\ loading \in [made : SUBSET Graph!Edge, todo : SUBSET Graph!Edge] \cup {None}
         /\ loading # None => file # None
         /\ answer \in Graph!Words \cup {None}

LEMMA NextTyped ==
    ASSUME Graph!GraphConstants, Typed, GraphIInv, [Graph!Next]_Graph!vars
    PROVE  Typed'
<1>0. /\ edges \subseteq Graph!Edge
      /\ \A e \in Graph!Edge : e[1] \in Node /\ e[2] \in Node /\ e = <<e[1], e[2]>>
  BY DEF Graph!Edge, Typed
<1>1. ASSUME NEW n \in Node, Graph!AddNode(n) \/ Graph!AddItem(n)
      PROVE  Typed'
  BY <1>1 DEF Graph!AddNode, Graph!AddItem, Graph!Goes, Graph!Still, Typed
<1>2. ASSUME NEW e \in Graph!Edge, Graph!AddEdge(e)
      PROVE  Typed'
  <2>1. /\ loading = None /\ loading' = None /\ file' = None /\ answer' = None
        /\ nodes' = nodes \cup {e[1], e[2]} /\ items' = items
    BY <1>2 DEF Graph!AddEdge, Graph!Goes, Graph!Still
  <2>2. CASE Graph!Closes(e, edges)
    BY <1>0, <1>2, <2>1, <2>2 DEF Graph!AddEdge, Typed
  <2>3. CASE ~Graph!Closes(e, edges)
    <3>1. /\ edges' = edges \cup {e} /\ refused' = refused
          /\ kinds' = [f \in edges' |-> IF f \in edges THEN kinds[f] ELSE Graph!Kind(f[2])]
      BY <1>2, <2>3 DEF Graph!AddEdge
    <3>2. edges' \subseteq nodes' \X nodes'
      BY <1>0, <2>1, <3>1 DEF Typed
    <3>3. kinds' \in [edges' -> {"item", "node"}]
      BY <3>1 DEF Graph!Kind, Typed
    <3> QED  BY <1>0, <2>1, <3>1, <3>2, <3>3 DEF Typed
  <2> QED  BY <2>2, <2>3
<1>3. ASSUME NEW f \in Graph!File, Graph!Open(f)
      PROVE  Typed'
  <2>1. f # None /\ f.edges \in SUBSET Graph!Edge
    BY DEF Graph!File, Graph!GraphConstants
  <2>2. loading' \in [made : SUBSET Graph!Edge, todo : SUBSET Graph!Edge]
    BY <1>3, <2>1 DEF Graph!Open
  <2> QED  BY <1>3, <2>1, <2>2 DEF Graph!Open, Typed
<1>4. CASE Graph!Reload
  <2> DEFINE f == [nodes |-> nodes, items |-> items, edges |-> edges]
  <2>1. f \in Graph!File
    BY <1>0 DEF Graph!File, Typed
  <2>2. Graph!Open(f)
    BY <1>4 DEF Graph!Reload
  <2> QED  BY <1>3, <2>1, <2>2
<1>5. CASE Graph!Load
  <2>1. PICK some \in SUBSET {NodeRoot}, rest \in SUBSET Node, E \in SUBSET Graph!Edge :
           Graph!Open([nodes |-> some, items |-> rest, edges |-> E])
    BY <1>5 DEF Graph!Load
  <2>2. [nodes |-> some, items |-> rest, edges |-> E] \in Graph!File
    BY <2>1 DEF Graph!File, Graph!GraphConstants
  <2> QED  BY <1>3, <2>1, <2>2
<1>6. ASSUME NEW e \in Graph!Edge, Graph!LoadEdge(e)
      PROVE  Typed'
  BY <1>6 DEF Graph!LoadEdge, Typed, Graph!Words
<1>7. CASE Graph!Finish
  <2>1. loading # None /\ loading' = None /\ file' = file
    BY <1>7 DEF Graph!Finish
  <2>2. file \in Graph!File /\ loading.made \in SUBSET Graph!Edge
    BY <2>1 DEF Typed
  <2>3. CASE Graph!Valid
    <3>1. /\ answer' = "loaded" /\ nodes' = Graph!LoadedNodes /\ refused' = None
          /\ items' = file.items /\ edges' = loading.made
          /\ kinds' = [e \in edges' |-> IF e[2] \in file.items THEN "item" ELSE "node"]
      BY <1>7, <2>3 DEF Graph!Finish
    <3>2. \A e \in loading.made : e[1] \in Node /\ e[2] \in Node /\ e = <<e[1], e[2]>>
      BY <1>0, <2>2
    <3>3. Graph!Named(loading.made) \subseteq Node /\ loading.made \subseteq Graph!Named(loading.made) \X Graph!Named(loading.made)
      BY <3>2 DEF Graph!Named
    <3>4. Graph!LoadedNodes \subseteq Node /\ loading.made \subseteq Graph!LoadedNodes \X Graph!LoadedNodes
      BY <2>2, <3>3 DEF Graph!LoadedNodes, Graph!File
    <3> QED  BY <2>1, <2>2, <3>1, <3>4 DEF Typed, Graph!File, Graph!Words
  <2>4. CASE ~Graph!Valid
    BY <1>7, <2>1, <2>4 DEF Graph!Finish, Typed, Graph!Words
  <2> QED  BY <2>3, <2>4
<1>8. CASE UNCHANGED Graph!vars
  BY <1>8 DEF Graph!vars, Typed
<1> QED  BY <1>1, <1>2, <1>4, <1>5, <1>6, <1>7, <1>8 DEF Graph!Next

LEMMA GraphComponent == Graph!Spec => []Graph!GraphHolds
<1>1. Graph!Init => Typed
  BY DEF Graph!Init, Typed
<1>2. Typed /\ GraphIInv /\ [Graph!Next]_Graph!vars => Typed'
  BY GraphAssumption, NextTyped
<1>3. Typed /\ GraphIInv /\ Graph!LoadRight => Graph!GraphHolds
  <2> SUFFICES ASSUME Typed, GraphIInv, Graph!LoadRight PROVE Graph!GraphHolds
    OBVIOUS
  <2> QED  BY GraphAssumption, AcyclicIsSortable, GraphCounts DEF Graph!GraphHolds, Graph!GraphSound, Typed, Graph!TypeOK, Graph!Words, Graph!GraphConstants, GraphIInv, Graph!NoCycles, Deserved
<1>4. None \notin Graph!Words
  BY GraphAssumption DEF Graph!GraphConstants
<1> QED  BY <1>1, <1>2, <1>3, <1>4, Always, LoadsRight, PTL DEF Graph!Spec

\* Whatever is built, saved or read from a file: the graph has no cycle and
\* topological_order orders all of it, refusals were deserved, and load_graph takes
\* exactly the sound files (GraphHolds).
THEOREM GraphsHold == SpecParts => []GraphHolds
<1>1. InitParts => Graph!Init
  BY DEF InitParts
<1>2. [NextPart]_allVars => [Graph!Next]_Graph!vars
  BY DEF NextPart, allVars, graphVars, Graph!vars
<1>3. Graph!GraphHolds => GraphHolds
  BY DEF GraphHolds
<1> QED  BY <1>1, <1>2, <1>3, GraphComponent, PTL DEF SpecParts, Graph!Spec

--------------------------------------------------------------------------------
(***************************************************************************)
(* The index cache, for any processes, corpora and codecs: what is kept under a*)
(* fingerprint is the index of its corpus in some codec, or a wreck (OwnIndex).*)
(***************************************************************************)
\* What may be kept under a fingerprint: its own index, in some codec, or a wreck of it.
CacheKept(f) == {Cache!Envelope(v, c) : v \in Version, c \in {f, None}} \cup {None}

CacheTypeOK == /\ version \in [Process -> Version]
               /\ mem \in [Process -> Seq(Corpus)]
               /\ DOMAIN held = Process /\ \A p \in Process : DOMAIN held[p] = Corpus
               /\ DOMAIN disk = Corpus
               /\ DOMAIN base = Process /\ DOMAIN asked = Process
               /\ saving \in [Process -> Corpus \cup {None}]

OwnIndex == /\ \A p \in Process, f \in Corpus : held[p][f] \in CacheKept(f)
            /\ \A f \in Corpus : disk[f] \in CacheKept(f)

CacheIInv == CacheTypeOK /\ OwnIndex /\ Cache!FitsFresh

LEMMA RemovesOne ==
  ASSUME NEW T, NEW s \in Seq(T), NEW e
  PROVE  /\ Cache!RemoveFirst(s, e) \in Seq(T)
         /\ \A i \in 1..Len(Cache!RemoveFirst(s, e)) : \E j \in 1..Len(s) : Cache!RemoveFirst(s, e)[i] = s[j]
<1>1. CASE \E i \in 1..Len(s) : s[i] = e
  <2> DEFINE I == {i \in 1..Len(s) : s[i] = e}
             k == Cache!SelectInSeq(s, LAMBDA v : v = e)
  <2>1. k = CHOOSE x \in I : \A y \in I : x <= y
    BY <1>1 DEF Cache!SelectInSeq, Cache!Min
  <2>2. I \in SUBSET Nat /\ I # {}
    BY <1>1
  <2>3. k \in I
    <3> HIDE DEF I
    <3>1. \E x \in I : \A y \in I : x <= y
      BY <2>2, Least
    <3> QED  BY <2>1, <3>1
  <2>4. Cache!RemoveFirst(s, e) = SubSeq(s, 1, k - 1) \o SubSeq(s, k + 1, Len(s))
    BY <1>1 DEF Cache!RemoveFirst, Cache!RemoveAt
  <2> HIDE DEF k
  <2>5. k \in 1..Len(s) /\ Len(s) \in Nat
    BY <2>3
  <2> DEFINE a == SubSeq(s, 1, k - 1)
             b == SubSeq(s, k + 1, Len(s))
  <2>6. /\ a \in Seq(T) /\ Len(a) = k - 1 /\ \A i \in 1..(k - 1) : a[i] = s[i]
        /\ b \in Seq(T) /\ Len(b) = Len(s) - k /\ \A i \in 1..(Len(s) - k) : b[i] = s[i + k]
    BY <2>5, SubSeqProperties
  <2> HIDE DEF a, b
  <2>7. /\ a \o b \in Seq(T) /\ Len(a \o b) = Len(a) + Len(b)
        /\ \A i \in 1..(Len(a) + Len(b)) : (a \o b)[i] = IF i <= Len(a) THEN a[i] ELSE b[i - Len(a)]
    BY <2>6, ConcatProperties
  <2>8. \A i \in 1..Len(a \o b) : \E j \in 1..Len(s) : (a \o b)[i] = s[j]
    <3> SUFFICES ASSUME NEW i \in 1..Len(a \o b) PROVE \E j \in 1..Len(s) : (a \o b)[i] = s[j]
      OBVIOUS
    <3>1. CASE i <= k - 1
      BY <2>5, <2>6, <2>7, <3>1
    <3>2. CASE ~(i <= k - 1)
      <4>1. i - (k - 1) \in 1..(Len(s) - k) /\ (i - (k - 1)) + k \in 1..Len(s)
        BY <2>5, <2>6, <2>7, <3>2
      <4> QED  BY <2>5, <2>6, <2>7, <3>2, <4>1
    <3> QED  BY <3>1, <3>2
  <2> QED  BY <2>4, <2>7, <2>8 DEF a, b
<1>2. CASE ~\E i \in 1..Len(s) : s[i] = e
  BY <1>2 DEF Cache!RemoveFirst
<1> QED  BY <1>1, <1>2

\* The map after a touch: what it lists it has listed before, or it is the entry.
LEMMA TouchedList ==
  ASSUME Cache!CacheConstants, NEW s \in Seq(Corpus), NEW f \in Corpus
  PROVE  LET kept == Cache!Trimmed(Cache!Touched(s, f))
         IN  /\ kept \in Seq(Corpus) /\ Len(kept) <= MaxEntries
             /\ \A g : Cache!Contains(kept, g) => g = f \/ Cache!Contains(s, g)
<1> DEFINE r == Cache!RemoveFirst(s, f)
           t == Append(r, f)
           kept == Cache!Trimmed(t)
<1>1. r \in Seq(Corpus) /\ \A i \in 1..Len(r) : \E j \in 1..Len(s) : r[i] = s[j]
  BY RemovesOne
<1> HIDE DEF r
<1>2. /\ t \in Seq(Corpus) /\ Len(t) \in Nat
      /\ \A i \in 1..Len(t) : t[i] = f \/ \E j \in 1..Len(s) : t[i] = s[j]
  BY <1>1
<1> HIDE DEF t
<1>3. /\ kept \in Seq(Corpus) /\ Len(kept) <= MaxEntries
      /\ \A i \in 1..Len(kept) : \E j \in 1..Len(t) : kept[i] = t[j]
  <2>1. CASE Len(t) > MaxEntries
    <3> DEFINE m == Len(t) - MaxEntries + 1
    <3>1. m \in 1..(Len(t) + 1) /\ MaxEntries \in Nat /\ kept = SubSeq(t, m, Len(t))
      BY <1>2, <2>1 DEF Cache!CacheConstants, Cache!Trimmed
    <3> HIDE DEF m
    <3>2. /\ SubSeq(t, m, Len(t)) \in Seq(Corpus)
          /\ Len(SubSeq(t, m, Len(t))) = IF m <= Len(t) THEN Len(t) - m + 1 ELSE 0
          /\ \A i \in 1..(Len(t) - m + 1) : SubSeq(t, m, Len(t))[i] = t[m + i - 1]
      BY <1>2, <3>1, SubSeqProperties
    <3>3. Len(kept) = Len(t) - m + 1 /\ Len(kept) <= MaxEntries
      BY <1>2, <3>1, <3>2 DEF m
    <3>4. \A i \in 1..(Len(t) - m + 1) : m + i - 1 \in 1..Len(t)
      BY <1>2, <3>1
    <3> QED  BY <3>1, <3>2, <3>3, <3>4
  <2>2. CASE ~(Len(t) > MaxEntries)
    <3>1. kept = t
      BY <2>2 DEF Cache!Trimmed
    <3> QED  BY <1>2, <2>2, <3>1 DEF Cache!CacheConstants
  <2> QED  BY <2>1, <2>2
<1> HIDE DEF kept
<1>4. \A g : Cache!Contains(kept, g) => g = f \/ Cache!Contains(s, g)
  BY <1>2, <1>3 DEF Cache!Contains
<1> QED  BY <1>3, <1>4 DEF kept, t, r, Cache!Touched

LEMMA KeptFound ==
  ASSUME CacheIInv, NEW p \in Process, NEW f \in Corpus
  PROVE  Cache!Found(p, f) \in CacheKept(f)
  BY DEF CacheIInv, OwnIndex, Cache!Found

LEMMA Remembers ==
  ASSUME Cache!CacheConstants, CacheIInv, NEW p \in Process, NEW f \in Corpus, NEW e \in CacheKept(f), e # None,
         Cache!Remember(p, f, e)
  PROVE  /\ mem' \in [Process -> Seq(Corpus)]
         /\ DOMAIN held' = Process /\ \A q \in Process : DOMAIN held'[q] = Corpus
         /\ \A q \in Process, g \in Corpus : held'[q][g] \in CacheKept(g)
         /\ Cache!Bounded'
<1> DEFINE kept == Cache!Trimmed(Cache!Touched(mem[p], f))
<1>1. mem[p] \in Seq(Corpus)
  BY DEF CacheIInv, CacheTypeOK
<1>2. /\ kept \in Seq(Corpus) /\ Len(kept) <= MaxEntries
      /\ \A g : Cache!Contains(kept, g) => g = f \/ Cache!Contains(mem[p], g)
  BY <1>1, TouchedList
<1>3. /\ mem' = [mem EXCEPT ![p] = kept]
      /\ held' = [held EXCEPT ![p] = [g \in Corpus |->
                     IF ~Cache!Contains(kept, g) THEN None ELSE IF g = f THEN e ELSE held[p][g]]]
  BY DEF Cache!Remember
<1> HIDE DEF kept
<1>4. /\ mem' \in [Process -> Seq(Corpus)] /\ mem'[p] = kept
      /\ \A q \in Process : q # p => mem'[q] = mem[q]
  BY <1>2, <1>3 DEF CacheIInv, CacheTypeOK
<1>5. /\ DOMAIN held' = Process /\ \A q \in Process : DOMAIN held'[q] = Corpus
      /\ \A g \in Corpus : held'[p][g] = IF ~Cache!Contains(kept, g) THEN None ELSE IF g = f THEN e ELSE held[p][g]
      /\ \A q \in Process : q # p => held'[q] = held[q]
  BY <1>3 DEF CacheIInv, CacheTypeOK
<1>6. \A q \in Process, g \in Corpus : held'[q][g] \in CacheKept(g)
  <2>1. \A g \in Corpus : None \in CacheKept(g)
    BY DEF CacheKept
  <2>2. \A q \in Process, g \in Corpus : held[q][g] \in CacheKept(g)
    BY DEF CacheIInv, OwnIndex
  <2> QED  BY <1>5, <2>1, <2>2
<1>7. Cache!Bounded'
  <2> SUFFICES ASSUME NEW q \in Process
               PROVE  /\ Len(mem'[q]) <= MaxEntries
                      /\ \A g \in Corpus : held'[q][g] # None <=> Cache!Contains(mem'[q], g)
    BY DEF Cache!Bounded
  <2>1. /\ Len(mem[q]) <= MaxEntries
        /\ \A g \in Corpus : held[q][g] # None <=> Cache!Contains(mem[q], g)
    BY DEF CacheIInv, Cache!FitsFresh, Cache!Bounded
  <2>2. CASE q = p
    BY <1>2, <1>4, <1>5, <2>1, <2>2
  <2>3. CASE q # p
    BY <1>4, <1>5, <2>1, <2>3
  <2> QED  BY <2>2, <2>3
<1> QED  BY <1>4, <1>5, <1>6, <1>7

Fresh(p) == asked[p] # None => base[p] = Cache!Envelope(version[p], asked[p])

LEMMA CacheStep ==
  ASSUME Cache!CacheConstants, CacheIInv, [Cache!Next]_Cache!vars
  PROVE  CacheIInv'
<1>1. /\ CacheTypeOK /\ OwnIndex /\ Cache!Bounded /\ \A p \in Process : Fresh(p)
  BY DEF CacheIInv, Cache!FitsFresh, Fresh
<1>2. CASE UNCHANGED Cache!vars
  BY <1>1, <1>2 DEF Cache!vars, CacheIInv, CacheTypeOK, OwnIndex, Cache!FitsFresh, Cache!Bounded
<1>3. ASSUME NEW p \in Process, NEW c \in Corpus, Cache!Hit(p, c) \/ Cache!Miss(p, c)
      PROVE  CacheIInv'
  <2>1. /\ asked' = [asked EXCEPT ![p] = c] /\ UNCHANGED <<version, disk>>
        /\ Cache!Found(p, c) \in CacheKept(c)
    BY <1>3, KeptFound DEF Cache!Hit, Cache!Miss, Cache!Ask
  <2>2. base' = [base EXCEPT ![p] = Cache!Envelope(version[p], c)]
    <3>1. CASE Cache!Hit(p, c)
      <4> DEFINE e == Cache!Found(p, c)
      <4>1. base' = [base EXCEPT ![p] = e] /\ e # None /\ e.version = version[p] /\ e.of # None
        BY <3>1 DEF Cache!Hit, Cache!Matches, Cache!Loads, Cache!Fingerprint
      <4>2. e \in {Cache!Envelope(v, d) : v \in Version, d \in {c, None}}
        BY <2>1, <4>1 DEF CacheKept
      <4> HIDE DEF e
      <4>3. e = Cache!Envelope(version[p], c)
        BY <4>1, <4>2 DEF Cache!Envelope
      <4> QED  BY <4>1, <4>3
    <3>2. CASE Cache!Miss(p, c)
      BY <3>2 DEF Cache!Miss
    <3> QED  BY <1>3, <3>1, <3>2
  <2>3. Cache!Envelope(version[p], c) \in CacheKept(c) /\ Cache!Envelope(version[p], c) # None
    <3>1. version[p] \in Version
      BY <1>1 DEF CacheTypeOK
    <3> QED  BY <3>1 DEF CacheKept, Cache!CacheConstants
  <2>4. /\ mem' \in [Process -> Seq(Corpus)]
        /\ DOMAIN held' = Process /\ \A q \in Process : DOMAIN held'[q] = Corpus
        /\ \A q \in Process, g \in Corpus : held'[q][g] \in CacheKept(g)
        /\ Cache!Bounded'
    <3>1. ASSUME UNCHANGED <<mem, held>>
          PROVE  <2>4!1 /\ <2>4!2 /\ <2>4!3 /\ <2>4!4
      BY <1>1, <3>1 DEF CacheTypeOK, OwnIndex, Cache!Bounded
    <3>2. \/ UNCHANGED <<mem, held>>
          \/ Cache!Remember(p, c, Cache!Found(p, c)) /\ Cache!Found(p, c) # None
          \/ Cache!Remember(p, c, Cache!Envelope(version[p], c))
      BY <1>3 DEF Cache!Hit, Cache!Miss, Cache!Forgo, Cache!Fingerprint
    <3> QED  BY <2>1, <2>3, <3>1, <3>2, Remembers
  <2>5. saving' \in [Process -> Corpus \cup {None}]
    BY <1>1, <1>3 DEF Cache!Hit, Cache!Miss, CacheTypeOK, Cache!Fingerprint
  <2>6. \A q \in Process : Fresh(q)'
    <3> SUFFICES ASSUME NEW q \in Process PROVE Fresh(q)'
      OBVIOUS
    <3>1. Fresh(q) /\ q \in DOMAIN base /\ q \in DOMAIN asked /\ version' = version
      BY <1>1, <2>1 DEF CacheTypeOK
    <3> QED  BY <2>1, <2>2, <3>1 DEF Fresh
  <2> QED  BY <1>1, <2>1, <2>2, <2>4, <2>5, <2>6 DEF CacheIInv, CacheTypeOK, OwnIndex, Cache!FitsFresh, Fresh
<1>4. ASSUME NEW p \in Process, Cache!Replace(p) \/ Cache!Skip(p)
      PROVE  CacheIInv'
  <2>1. /\ saving' = [saving EXCEPT ![p] = None] /\ UNCHANGED <<version, mem, held, base, asked>>
        /\ saving[p] \in Corpus
        /\ disk' = disk \/ disk' = [disk EXCEPT ![saving[p]] = held[p][saving[p]]]
    BY <1>1, <1>4 DEF Cache!Replace, Cache!Skip, CacheTypeOK
  <2>2. DOMAIN disk' = Corpus /\ \A f \in Corpus : disk'[f] \in CacheKept(f)
    BY <1>1, <2>1 DEF CacheTypeOK, OwnIndex
  <2>3. saving' \in [Process -> Corpus \cup {None}]
    BY <1>1, <2>1 DEF CacheTypeOK
  <2> QED  BY <1>1, <2>1, <2>2, <2>3 DEF CacheIInv, CacheTypeOK, OwnIndex, Cache!FitsFresh, Cache!Bounded, Fresh
<1>5. ASSUME NEW p \in Process, Cache!Restart(p)
      PROVE  CacheIInv'
  <2>1. /\ \E v \in Version : version' = [version EXCEPT ![p] = v]
        /\ mem' = [mem EXCEPT ![p] = << >>]
        /\ held' = [held EXCEPT ![p] = [f \in Corpus |-> None]]
        /\ base' = [base EXCEPT ![p] = None] /\ asked' = [asked EXCEPT ![p] = None]
        /\ saving' = [saving EXCEPT ![p] = None] /\ disk' = disk
    BY <1>5 DEF Cache!Restart
  <2>2. <<>> \in Seq(Corpus) /\ Len(<<>>) = 0 /\ \A g : ~Cache!Contains(<<>>, g)
    BY DEF Cache!Contains
  <2>3. CacheTypeOK'
    BY <1>1, <2>1, <2>2 DEF CacheTypeOK
  <2>4. OwnIndex'
    BY <1>1, <2>1 DEF CacheTypeOK, OwnIndex, CacheKept
  <2>5. Cache!Bounded'
    BY <1>1, <2>1, <2>2 DEF CacheTypeOK, Cache!Bounded, Cache!CacheConstants
  <2>6. \A q \in Process : Fresh(q)'
    BY <1>1, <2>1 DEF CacheTypeOK, Fresh
  <2> QED  BY <2>3, <2>4, <2>5, <2>6 DEF CacheIInv, Cache!FitsFresh, Fresh
<1>6. ASSUME NEW f \in Corpus, Cache!Damage(f)
      PROVE  CacheIInv'
  <2>1. /\ disk[f] # None /\ UNCHANGED <<version, mem, held, base, asked, saving>>
        /\ disk' = [disk EXCEPT ![f] = None] \/ disk' = [disk EXCEPT ![f] = [disk[f] EXCEPT !.of = None]]
    BY <1>6 DEF Cache!Damage
  <2>2. PICK v \in Version : disk[f] = Cache!Envelope(v, f) \/ disk[f] = Cache!Envelope(v, None)
    BY <1>1, <2>1 DEF OwnIndex, CacheKept
  <2>3. [disk[f] EXCEPT !.of = None] = Cache!Envelope(v, None)
    BY <2>2 DEF Cache!Envelope
  <2>4. Cache!Envelope(v, None) \in CacheKept(f) /\ None \in CacheKept(f)
    BY DEF CacheKept
  <2>5. DOMAIN disk' = Corpus /\ \A g \in Corpus : disk'[g] \in CacheKept(g)
    BY <1>1, <2>1, <2>3, <2>4 DEF CacheTypeOK, OwnIndex
  <2> QED  BY <1>1, <2>1, <2>5 DEF CacheIInv, CacheTypeOK, OwnIndex, Cache!FitsFresh, Cache!Bounded, Fresh
<1> QED  BY <1>2, <1>3, <1>4, <1>5, <1>6 DEF Cache!Next

LEMMA CacheComponent == Cache!Spec => []Cache!FitsFresh
<1>1. Cache!Init => CacheIInv
  <2> SUFFICES ASSUME Cache!Init PROVE CacheIInv
    OBVIOUS
  <2>1. <<>> \in Seq(Corpus) /\ Len(<<>>) = 0 /\ \A g : ~Cache!Contains(<<>>, g)
    BY DEF Cache!Contains
  <2>2. CacheTypeOK
    BY <2>1 DEF Cache!Init, CacheTypeOK
  <2>3. OwnIndex
    BY DEF Cache!Init, OwnIndex, CacheKept
  <2>4. Cache!FitsFresh
    BY CacheAssumption, <2>1 DEF Cache!Init, Cache!FitsFresh, Cache!Bounded, Cache!CacheConstants
  <2> QED  BY <2>2, <2>3, <2>4 DEF CacheIInv
<1>2. CacheIInv /\ [Cache!Next]_Cache!vars => CacheIInv'
  BY CacheAssumption, CacheStep
<1>3. CacheIInv => Cache!FitsFresh
  BY DEF CacheIInv
<1> QED  BY <1>1, <1>2, <1>3, PTL DEF Cache!Spec

\* For any number of processes, corpora and releases, and any damage to the files: a
\* retriever that has been fitted has the index that fitting anew would give.
THEOREM CachedFitsFresh == SpecParts => []FitsFresh
<1>1. InitParts => Cache!Init
  BY DEF InitParts
<1>2. [NextPart]_allVars => [Cache!Next]_Cache!vars
  BY DEF NextPart, allVars, cacheVars, Cache!vars
<1>3. Cache!FitsFresh => FitsFresh
  BY DEF FitsFresh
<1> QED  BY <1>1, <1>2, <1>3, CacheComponent, PTL DEF SpecParts, Cache!Spec

--------------------------------------------------------------------------------
(***************************************************************************)
(* Resources and prompts behind the gateway, for any sources, keys, callers and*)
(* refreshers.  A listing that has the indices to itself gives every key to the*)
(* first source that lists it (ListingsTrue), and owners, the catalog and  *)
(* references know only what some source has answered (OwnersListed, StoreTold).*)
(***************************************************************************)
Task == [at : {"idle", "resources", "prompts"}, src : 0..Sources, out : SUBSET Gateway!Key, alone : BOOLEAN]
Call == [at : {"idle", "asked"}, key : Gateway!Key \cup Tool \cup {None}, src : 0..Sources]

Under(r) == refresh[r].at # "idle"
Apart(r) == Under(r) /\ refresh[r].alone

\* Who has the indices to itself is alone; a settled listing is over.
Alone == /\ \A r, q \in Refresher : Apart(r) /\ Under(q) => q = r
         /\ settled => \A r \in Refresher : ~Under(r)

\* Of the sources heard, the first one that lists a key owns it.
Owns(k) == /\ owner[k] # 0 <=> Gateway!Exporters(k) # {}
           /\ owner[k] # 0 => owner[k] \in Gateway!Exporters(k) /\ \A s \in Gateway!Exporters(k) : owner[k] <= s
Heard(r) == IF refresh[r].at = "resources" THEN Uri ELSE Gateway!Key
Listing(r) == /\ refresh[r].out \subseteq Heard(r)
              /\ \A k \in Heard(r) : Owns(k) /\ (k \in refresh[r].out <=> owner[k] # 0)
              /\ \A k \in Gateway!Key : \A s \in Gateway!Exporters(k) : k \in Heard(r) /\ (k \in Gateway!Asked(r) => s < refresh[r].src)
ListingsTrue == \A r \in Refresher : Apart(r) => Listing(r)
SettledTrue == settled => \A k \in Gateway!Key : Owns(k) /\ (k \in catalog <=> owner[k] # 0)

\* Owners, listings and the catalog know only what some source has answered.
Known(k) == \E s \in Gateway!Source : k \in listed[s]
OwnersListed == /\ \A k \in Gateway!Key : owner[k] # 0 => k \in listed[owner[k]]
                /\ \A r \in Refresher : \A k \in refresh[r].out : Known(k)

\* What is in the store was an answer, and is told of.
StoreTold == /\ \A h \in Gateway!Handle : store[h] # None =>
                   \E ref \in told : Gateway!Subject(ref.handle) = Gateway!Subject(h) /\ ref.content = store[h]
             /\ \A ref \in told : store[ref.handle] # None

GatewayIInv == Gateway!TypeOK /\ Alone /\ ListingsTrue /\ SettledTrue /\ OwnersListed /\ Gateway!ReadsGoHome /\ StoreTold

LEMMA GatewayInitIInv == Gateway!GatewayConstants /\ Gateway!Init => GatewayIInv
<1> SUFFICES ASSUME Gateway!GatewayConstants, Gateway!Init PROVE GatewayIInv
  OBVIOUS
<1>1. \A r \in Refresher : ~Under(r) /\ refresh[r].out = {}
  BY DEF Gateway!Init, Gateway!Idle, Under
<1>2. Gateway!TypeOK
  <2>1. 0 \in 0..Sources /\ 0 \in 0..MaxChanges /\ 0 \in 0..MaxCalls
    BY DEF Gateway!GatewayConstants
  <2>2. refresh \in [Refresher -> Task] /\ \A r \in Refresher : refresh[r].at = "idle"
    BY <2>1 DEF Gateway!Init, Gateway!Idle, Task
  <2>3. call \in [Client -> Call] /\ \A c \in Client : call[c].at = "idle"
    BY <2>1 DEF Gateway!Init, Gateway!Done, Call
  <2>4. /\ exports \in [Gateway!Source -> SUBSET Gateway!Key] /\ owner \in [Gateway!Key -> 0..Sources]
        /\ said \in [Gateway!Source -> SUBSET Gateway!Key] /\ listed \in [Gateway!Source -> SUBSET Gateway!Key]
        /\ store \in [Gateway!Handle -> Content \cup {None}]
    BY <2>1 DEF Gateway!Init, Gateway!NoKeys
  <2> QED  BY <2>1, <2>2, <2>3, <2>4 DEF Gateway!Init, Gateway!TypeOK, Task, Call
<1>3. Alone /\ ListingsTrue /\ SettledTrue
  BY <1>1 DEF Gateway!Init, Alone, Apart, ListingsTrue, SettledTrue
<1>4. OwnersListed
  BY <1>1 DEF Gateway!Init, OwnersListed
<1>5. Gateway!ReadsGoHome
  BY DEF Gateway!Init, Gateway!ReadsGoHome, Gateway!Done
<1>6. StoreTold
  BY DEF Gateway!Init, StoreTold
<1> QED  BY <1>2, <1>3, <1>4, <1>5, <1>6 DEF GatewayIInv

LEMMA NotAlone ==
  ASSUME NEW t \in Task
  PROVE  LET u == [t EXCEPT !.alone = FALSE]
         IN u \in Task /\ u.at = t.at /\ u.src = t.src /\ u.out = t.out /\ u.alone = FALSE
  BY DEF Task

LEMMA BeginIInv == ASSUME Gateway!GatewayConstants, GatewayIInv, NEW r \in Refresher, Gateway!Begin(r) PROVE GatewayIInv'
<1> DEFINE quiet == \A q \in Refresher : refresh[q].at = "idle"
<1>1. /\ refresh[r].at = "idle"
      /\ owner' = [k \in Gateway!Key |-> IF k \in Uri THEN 0 ELSE owner[k]]
      /\ refresh' = [p \in Refresher |->
            IF p = r THEN [at |-> "resources", src |-> 1, out |-> {}, alone |-> quiet]
            ELSE [refresh[p] EXCEPT !.alone = FALSE]]
      /\ settled' = FALSE /\ said' = Gateway!NoKeys
      /\ UNCHANGED <<Gateway!upstream, catalog, Gateway!tools, listed>>
  BY DEF Gateway!Begin, Gateway!Cleared
<1>2. Gateway!TypeOK
  BY DEF GatewayIInv
<1>3. 1 \in Gateway!Source /\ 1 \in 0..Sources /\ 0 \in 0..Sources
  BY DEF Gateway!GatewayConstants, Gateway!Source
<1>4. /\ owner' \in [Gateway!Key -> 0..Sources]
      /\ \A k \in Uri : owner'[k] = 0
      /\ \A k \in Gateway!Key : owner'[k] # 0 => owner'[k] = owner[k]
  BY <1>1, <1>2, <1>3 DEF Gateway!TypeOK, Gateway!Key
<1>5. /\ refresh'[r] = [at |-> "resources", src |-> 1, out |-> {}, alone |-> quiet]
      /\ \A p \in Refresher : p # r => refresh'[p] = [refresh[p] EXCEPT !.alone = FALSE]
  BY <1>1
<1>6. \A p \in Refresher : refresh[p] \in Task
  BY <1>2 DEF Gateway!TypeOK, Task
<1>7. \A p \in Refresher : p # r =>
         /\ refresh'[p] \in Task /\ refresh'[p].at = refresh[p].at /\ refresh'[p].src = refresh[p].src
         /\ refresh'[p].out = refresh[p].out /\ refresh'[p].alone = FALSE
  <2> SUFFICES ASSUME NEW p \in Refresher, p # r
               PROVE  /\ refresh'[p] \in Task /\ refresh'[p].at = refresh[p].at /\ refresh'[p].src = refresh[p].src
                      /\ refresh'[p].out = refresh[p].out /\ refresh'[p].alone = FALSE
    OBVIOUS
  <2>1. refresh[p] \in Task
    BY <1>6
  <2>2. refresh'[p] = [refresh[p] EXCEPT !.alone = FALSE]
    BY <1>5
  <2> QED  BY <2>1, <2>2, NotAlone
<1> HIDE DEF quiet
<1>8. refresh'[r] \in Task
  <2>1. quiet \in BOOLEAN
    BY DEF quiet
  <2> QED  BY <1>3, <1>5, <2>1 DEF Task
<1>9. refresh' \in [Refresher -> Task]
  BY <1>1, <1>7, <1>8
<1>10. said' \in [Gateway!Source -> SUBSET Gateway!Key] /\ \A k : Gateway!Exporters(k)' = {}
  BY <1>1 DEF Gateway!NoKeys, Gateway!Exporters
<1>11. Gateway!TypeOK'
  <2>1. \A p \in Refresher : refresh'[p].at # "idle" => refresh'[p].src \in Gateway!Source
    BY <1>2, <1>3, <1>5, <1>7 DEF Gateway!TypeOK
  <2> QED  BY <1>1, <1>2, <1>4, <1>9, <1>10, <2>1 DEF Gateway!TypeOK, Task, Gateway!upstream, Gateway!tools
<1>12. Alone'
  BY <1>1, <1>5, <1>7 DEF Alone, Apart, Under, quiet
<1>13. ListingsTrue'
  <2>1. Listing(r)'
    <3>1. Heard(r)' = Uri /\ Gateway!Asked(r)' = Uri
      BY <1>5 DEF Heard, Gateway!Asked
    <3> QED  BY <1>4, <1>5, <1>10, <3>1 DEF Listing, Owns
  <2> QED  BY <1>7, <2>1 DEF ListingsTrue, Apart
<1>14. SettledTrue'
  BY <1>1 DEF SettledTrue
<1>15. OwnersListed' /\ Gateway!ReadsGoHome' /\ StoreTold'
  BY <1>1, <1>4, <1>5, <1>7 DEF GatewayIInv, OwnersListed, Gateway!ReadsGoHome, StoreTold, Known, Gateway!tools
<1> QED  BY <1>11, <1>12, <1>13, <1>14, <1>15 DEF GatewayIInv

LEMMA MissIInv == ASSUME Gateway!GatewayConstants, GatewayIInv, NEW r \in Refresher, Gateway!Miss(r) PROVE GatewayIInv'
<1>1. /\ refresh[r].at # "idle" /\ refresh' = [refresh EXCEPT ![r] = Gateway!Idle]
      /\ UNCHANGED <<Gateway!upstream, Gateway!tools, owner, catalog, settled, said, listed>>
  BY DEF Gateway!Miss
<1>2. Gateway!TypeOK
  BY DEF GatewayIInv
<1>3. refresh'[r] = Gateway!Idle /\ \A p \in Refresher : p # r => refresh'[p] = refresh[p]
  BY <1>1, <1>2 DEF Gateway!TypeOK
<1>4. Gateway!Idle \in Task /\ Gateway!Idle.at = "idle" /\ Gateway!Idle.out = {}
  BY DEF Gateway!Idle, Task, Gateway!GatewayConstants
<1>5. Gateway!TypeOK'
  <2>1. refresh' \in [Refresher -> Task]
    BY <1>1, <1>2, <1>4 DEF Gateway!TypeOK, Task
  <2>2. \A p \in Refresher : refresh'[p].at # "idle" => refresh'[p].src \in Gateway!Source
    BY <1>2, <1>3, <1>4 DEF Gateway!TypeOK
  <2> QED  BY <1>1, <1>2, <2>1, <2>2 DEF Gateway!TypeOK, Task, Gateway!upstream, Gateway!tools
<1>6. \A p \in Refresher : Under(p)' => p # r /\ Under(p) /\ (Apart(p)' => Apart(p))
  BY <1>3, <1>4 DEF Under, Apart
<1>7. Alone'
  BY <1>1, <1>6 DEF GatewayIInv, Alone, Apart
<1>8. ListingsTrue'
  <2>1. ASSUME NEW p \in Refresher, Apart(p)' PROVE Listing(p)'
    <3>1. Listing(p) /\ refresh'[p] = refresh[p]
      BY <1>3, <1>6, <2>1 DEF GatewayIInv, ListingsTrue, Apart
    <3> QED  BY <1>1, <3>1 DEF Listing, Heard, Gateway!Asked, Owns, Gateway!Exporters
  <2> QED  BY <2>1 DEF ListingsTrue
<1>9. SettledTrue'
  BY <1>1 DEF GatewayIInv, SettledTrue, Owns, Gateway!Exporters
<1>10. OwnersListed' /\ Gateway!ReadsGoHome' /\ StoreTold'
  BY <1>1, <1>3, <1>4 DEF GatewayIInv, OwnersListed, Gateway!ReadsGoHome, StoreTold, Known, Gateway!tools
<1> QED  BY <1>5, <1>7, <1>8, <1>9, <1>10 DEF GatewayIInv

\* What Hear does whichever listing it ends: the source's keys are claimed.
LEMMA Claims == ASSUME Gateway!GatewayConstants, Gateway!TypeOK, NEW s \in Gateway!Source, NEW keys \in SUBSET Gateway!Key
                PROVE /\ Gateway!Owned(keys, s) \in [Gateway!Key -> 0..Sources]
                      /\ Gateway!Claimed(keys, s) \subseteq keys
                      /\ \A k \in Gateway!Key : /\ k \in Gateway!Claimed(keys, s) <=> k \in keys /\ owner[k] = 0
                                                /\ Gateway!Owned(keys, s)[k] = IF k \in Gateway!Claimed(keys, s) THEN s ELSE owner[k]
<1> s \in 0..Sources /\ s # 0
  BY DEF Gateway!GatewayConstants, Gateway!Source
<1> QED  BY DEF Gateway!Owned, Gateway!Claimed, Gateway!TypeOK

LEMMA HearIInv == ASSUME Gateway!GatewayConstants, GatewayIInv, NEW r \in Refresher, Gateway!Hear(r) PROVE GatewayIInv'
<1> DEFINE s == refresh[r].src
           keys == exports[s] \cap Gateway!Asked(r)
           out == refresh[r].out \cup Gateway!Claimed(keys, s)
<1>1. Gateway!TypeOK
  BY DEF GatewayIInv
<1>2. refresh[r].at # "idle" /\ refresh[r] \in Task /\ s \in Gateway!Source /\ s \in Nat /\ s >= 1 /\ s <= Sources
  BY <1>1 DEF Gateway!Hear, Gateway!TypeOK, Task, Gateway!Source, Gateway!GatewayConstants
<1>3. keys \subseteq Gateway!Key /\ keys \subseteq Gateway!Asked(r)
  BY <1>1, <1>2 DEF Gateway!TypeOK
<1> PICK src : src = s
  OBVIOUS
<1> PICK got : got = keys
  OBVIOUS
<1> PICK shown : shown = out
  OBVIOUS
<1>4. /\ said' = [said EXCEPT ![src] = @ \cup got]
      /\ listed' = [listed EXCEPT ![src] = @ \cup got]
      /\ UNCHANGED <<Gateway!upstream, Gateway!tools>>
  BY DEF Gateway!Hear
<1>5. \/ /\ src < Sources
         /\ owner' = Gateway!Owned(got, src)
         /\ refresh' = [refresh EXCEPT ![r].src = src + 1, ![r].out = shown]
         /\ UNCHANGED <<catalog, settled>>
      \/ /\ src = Sources /\ refresh[r].at = "resources"
         /\ owner' = [k \in Gateway!Key |-> IF k \in Prompt THEN Gateway!Cleared(Prompt)[k] ELSE Gateway!Owned(got, src)[k]]
         /\ refresh' = [refresh EXCEPT ![r].at = "prompts", ![r].src = 1, ![r].out = shown]
         /\ UNCHANGED <<catalog, settled>>
      \/ /\ src = Sources /\ refresh[r].at = "prompts"
         /\ owner' = Gateway!Owned(got, src)
         /\ catalog' = shown
         /\ refresh' = [refresh EXCEPT ![r] = Gateway!Idle]
         /\ settled' = refresh[r].alone
  BY DEF Gateway!Hear
<1>6. /\ src \in Gateway!Source /\ src \in Nat /\ src >= 1 /\ src <= Sources
      /\ src = refresh[r].src
      /\ got \subseteq Gateway!Key /\ got \subseteq Gateway!Asked(r)
      /\ shown = refresh[r].out \cup Gateway!Claimed(got, src)
  BY <1>2, <1>3
<1> HIDE DEF s, keys, out
<1>7. /\ Gateway!Owned(got, src) \in [Gateway!Key -> 0..Sources]
      /\ Gateway!Claimed(got, src) \subseteq got
      /\ \A k \in Gateway!Key : /\ k \in Gateway!Claimed(got, src) <=> k \in got /\ owner[k] = 0
                                /\ Gateway!Owned(got, src)[k] = IF k \in Gateway!Claimed(got, src) THEN src ELSE owner[k]
  BY <1>1, <1>6, Claims
<1>8. /\ said'[src] = said[src] \cup got /\ listed'[src] = listed[src] \cup got
      /\ \A q \in Gateway!Source : q # src => said'[q] = said[q] /\ listed'[q] = listed[q]
      /\ said' \in [Gateway!Source -> SUBSET Gateway!Key] /\ listed' \in [Gateway!Source -> SUBSET Gateway!Key]
  BY <1>1, <1>4, <1>6 DEF Gateway!TypeOK
<1>9. /\ \A k \in Gateway!Key : Gateway!Exporters(k)' = Gateway!Exporters(k) \cup (IF k \in got THEN {src} ELSE {})
      /\ \A k : Known(k) => Known(k)'
      /\ \A k \in got : Known(k)'
      /\ \A q \in Gateway!Source : listed[q] \subseteq listed'[q]
  BY <1>6, <1>8 DEF Gateway!Exporters, Known
<1>10. shown \subseteq Gateway!Key /\ refresh[r].out \subseteq Gateway!Key
  BY <1>2, <1>6, <1>7 DEF Task
<1>11. \A p \in Refresher : p # r => refresh'[p] = refresh[p]
  BY <1>1, <1>5 DEF Gateway!TypeOK
<1>12. 1 \in Gateway!Source /\ 0 \in 0..Sources /\ Gateway!Idle \in Task /\ Gateway!Idle.at = "idle" /\ Gateway!Idle.out = {}
  BY DEF Gateway!GatewayConstants, Gateway!Source, Gateway!Idle, Task
\* The task afterwards.
<1>13. /\ refresh' \in [Refresher -> Task]
       /\ \/ /\ src < Sources /\ refresh'[r].at = refresh[r].at /\ refresh'[r].src = src + 1
             /\ refresh'[r].out = shown /\ refresh'[r].alone = refresh[r].alone
          \/ /\ src = Sources /\ refresh[r].at = "resources" /\ refresh'[r].at = "prompts"
             /\ refresh'[r].src = 1 /\ refresh'[r].out = shown /\ refresh'[r].alone = refresh[r].alone
          \/ /\ src = Sources /\ refresh[r].at = "prompts" /\ refresh'[r] = Gateway!Idle
  <2>1. CASE src < Sources /\ refresh' = [refresh EXCEPT ![r].src = src + 1, ![r].out = shown]
    <3> PICK to : to = [refresh[r] EXCEPT !.src = src + 1, !.out = shown]
      OBVIOUS
    <3>1. src + 1 \in 0..Sources
      BY <1>6, <2>1 DEF Gateway!GatewayConstants
    <3>2. /\ to \in Task /\ to.at = refresh[r].at /\ to.src = src + 1 /\ to.out = shown
          /\ to.alone = refresh[r].alone
      BY <1>2, <1>10, <3>1 DEF Task
    <3>3. refresh' = [refresh EXCEPT ![r] = to]
      BY <1>1, <2>1 DEF Gateway!TypeOK
    <3>4. refresh'[r] = to
      BY <1>1, <3>3 DEF Gateway!TypeOK
    <3>5. refresh' \in [Refresher -> Task]
      BY <1>1, <3>2, <3>3 DEF Gateway!TypeOK, Task
    <3> QED  BY <2>1, <3>2, <3>4, <3>5
  <2>2. CASE /\ src = Sources /\ refresh[r].at = "resources"
             /\ refresh' = [refresh EXCEPT ![r].at = "prompts", ![r].src = 1, ![r].out = shown]
    <3> PICK to : to = [refresh[r] EXCEPT !.at = "prompts", !.src = 1, !.out = shown]
      OBVIOUS
    <3>1. 1 \in 0..Sources
      BY DEF Gateway!GatewayConstants
    <3>2. /\ to \in Task /\ to.at = "prompts" /\ to.src = 1 /\ to.out = shown
          /\ to.alone = refresh[r].alone
      BY <1>2, <1>10, <3>1 DEF Task
    <3>3. refresh' = [refresh EXCEPT ![r] = to]
      BY <1>1, <2>2 DEF Gateway!TypeOK
    <3>4. refresh'[r] = to
      BY <1>1, <3>3 DEF Gateway!TypeOK
    <3>5. refresh' \in [Refresher -> Task]
      BY <1>1, <3>2, <3>3 DEF Gateway!TypeOK, Task
    <3> QED  BY <2>2, <3>2, <3>4, <3>5
  <2>3. CASE src = Sources /\ refresh[r].at = "prompts" /\ refresh' = [refresh EXCEPT ![r] = Gateway!Idle]
    <3>1. refresh'[r] = Gateway!Idle
      BY <1>1, <2>3 DEF Gateway!TypeOK
    <3>2. refresh' \in [Refresher -> Task]
      BY <1>1, <1>12, <2>3 DEF Gateway!TypeOK, Task
    <3> QED  BY <2>3, <3>1, <3>2
  <2> QED  BY <1>5, <2>1, <2>2, <2>3
<1>14. /\ owner' \in [Gateway!Key -> 0..Sources]
       /\ \A k \in Gateway!Key : owner'[k] = Gateway!Owned(got, src)[k] \/ owner'[k] = 0
  BY <1>1, <1>5, <1>7, <1>12 DEF Gateway!Cleared, Gateway!TypeOK
<1>15. Gateway!TypeOK'
  <2>1. \A p \in Refresher : refresh'[p].at # "idle" => refresh'[p].src \in Gateway!Source
    <3>1. refresh'[r].at # "idle" => refresh'[r].src \in Gateway!Source
      <4>1. src < Sources => src + 1 \in Gateway!Source
        BY <1>6 DEF Gateway!Source, Gateway!GatewayConstants
      <4> QED  BY <1>12, <1>13, <4>1
    <3> QED  BY <1>1, <1>11, <3>1 DEF Gateway!TypeOK
  <2>2. catalog' \subseteq Gateway!Key /\ settled' \in BOOLEAN
    BY <1>1, <1>2, <1>5, <1>10 DEF Gateway!TypeOK, Task
  <2> QED  BY <1>1, <1>4, <1>8, <1>13, <1>14, <2>1, <2>2 DEF Gateway!TypeOK, Task, Gateway!upstream, Gateway!tools
<1>16. \A p \in Refresher : (Under(p)' => Under(p)) /\ (Apart(p)' => Apart(p))
  BY <1>2, <1>11, <1>12, <1>13 DEF Under, Apart
<1>17. Under(r)
  BY <1>2 DEF Under
<1>18. ~settled /\ \A p \in Refresher : Apart(p) => p = r
  BY <1>17 DEF GatewayIInv, Alone
<1>19. settled' => Apart(r) /\ src = Sources /\ refresh[r].at = "prompts" /\ catalog' = shown
                     /\ owner' = Gateway!Owned(got, src) /\ ~Under(r)'
  BY <1>2, <1>5, <1>12, <1>13, <1>17, <1>18 DEF Apart, Under
<1>20. Alone'
  <2>1. \A p, q \in Refresher : Apart(p)' /\ Under(q)' => q = p
    BY <1>16 DEF GatewayIInv, Alone
  <2>2. settled' => \A p \in Refresher : ~Under(p)'
    BY <1>16, <1>17, <1>19 DEF GatewayIInv, Alone
  <2> QED  BY <2>1, <2>2 DEF Alone
\* What a listing that is alone has found so far, with this source's answer.
<1>21. ASSUME Apart(r)
       PROVE  /\ Listing(r)
              /\ \A k \in Heard(r) :
                    /\ Gateway!Owned(got, src)[k] # 0 <=> Gateway!Exporters(k)' # {}
                    /\ Gateway!Owned(got, src)[k] # 0 => /\ Gateway!Owned(got, src)[k] \in Gateway!Exporters(k)'
                                                         /\ \A q \in Gateway!Exporters(k)' : Gateway!Owned(got, src)[k] <= q
                    /\ k \in shown <=> Gateway!Owned(got, src)[k] # 0
              /\ \A k \in Gateway!Key : \A q \in Gateway!Exporters(k)' : k \in Heard(r) /\ (k \in Gateway!Asked(r) => q <= src)
              /\ shown \subseteq Heard(r)
  <2>1. Listing(r)
    BY <1>21 DEF GatewayIInv, ListingsTrue
  <2>2. Gateway!Asked(r) \subseteq Heard(r) /\ Heard(r) \subseteq Gateway!Key /\ got \subseteq Heard(r)
    BY <1>2, <1>6 DEF Gateway!Asked, Heard, Gateway!Key, Task
  <2>3. ASSUME NEW k \in Heard(r)
        PROVE  /\ Gateway!Owned(got, src)[k] # 0 <=> Gateway!Exporters(k)' # {}
               /\ Gateway!Owned(got, src)[k] # 0 => /\ Gateway!Owned(got, src)[k] \in Gateway!Exporters(k)'
                                                    /\ \A q \in Gateway!Exporters(k)' : Gateway!Owned(got, src)[k] <= q
               /\ k \in shown <=> Gateway!Owned(got, src)[k] # 0
    <3>1. /\ k \in Gateway!Key /\ Owns(k) /\ (k \in refresh[r].out <=> owner[k] # 0)
          /\ \A q \in Gateway!Exporters(k) : k \in Gateway!Asked(r) => q < src
          /\ owner[k] \in Nat /\ Gateway!Exporters(k) \subseteq Gateway!Source
      BY <1>1, <1>6, <2>1, <2>2 DEF Listing, Gateway!TypeOK, Gateway!Exporters, Gateway!GatewayConstants
    <3>2. CASE k \notin got
      <4>1. Gateway!Exporters(k)' = Gateway!Exporters(k) /\ k \notin Gateway!Claimed(got, src) /\ Gateway!Owned(got, src)[k] = owner[k]
        BY <1>7, <1>9, <3>1, <3>2
      <4> QED  BY <1>6, <3>1, <4>1 DEF Owns
    <3>3. CASE k \in got /\ owner[k] # 0
      <4>1. Gateway!Exporters(k)' = Gateway!Exporters(k) \cup {src} /\ k \notin Gateway!Claimed(got, src)
            /\ Gateway!Owned(got, src)[k] = owner[k]
        BY <1>7, <1>9, <3>1, <3>3
      <4>2. owner[k] <= src
        BY <1>6, <3>1, <3>3 DEF Owns
      <4> QED  BY <1>6, <3>1, <3>3, <4>1, <4>2 DEF Owns
    <3>4. CASE k \in got /\ owner[k] = 0
      <4>1. Gateway!Exporters(k) = {}
        BY <3>1, <3>4 DEF Owns
      <4>2. Gateway!Exporters(k)' = {src} /\ k \in Gateway!Claimed(got, src) /\ Gateway!Owned(got, src)[k] = src
        BY <1>7, <1>9, <3>1, <3>4, <4>1
      <4> QED  BY <1>6, <4>2
    <3> QED  BY <3>2, <3>3, <3>4
  <2>4. ASSUME NEW k \in Gateway!Key, NEW q \in Gateway!Exporters(k)' PROVE k \in Heard(r) /\ (k \in Gateway!Asked(r) => q <= src)
    <3>1. CASE q \in Gateway!Exporters(k)
      <4>1. q \in Nat
        BY <3>1 DEF Gateway!Exporters, Gateway!Source
      <4> QED  BY <1>6, <2>1, <3>1, <4>1 DEF Listing
    <3>2. CASE q = src /\ k \in got
      BY <1>6, <2>2, <3>2
    <3> QED  BY <1>9, <3>1, <3>2
  <2>5. shown \subseteq Heard(r)
    BY <1>6, <1>7, <2>1, <2>2 DEF Listing
  <2> QED  BY <2>1, <2>3, <2>4, <2>5
<1>22. ListingsTrue'
  <2>1. SUFFICES ASSUME Apart(r)' PROVE Listing(r)'
    BY <1>16, <1>18 DEF ListingsTrue
  <2>2. Apart(r)
    BY <1>16, <2>1
  <2>3. CASE /\ src < Sources /\ owner' = Gateway!Owned(got, src)
             /\ refresh'[r].at = refresh[r].at /\ refresh'[r].src = src + 1 /\ refresh'[r].out = shown
    <3>1. Heard(r)' = Heard(r) /\ Gateway!Asked(r)' = Gateway!Asked(r)
      BY <2>3 DEF Heard, Gateway!Asked
    <3>2. \A k \in Gateway!Key : \A q \in Gateway!Exporters(k)' : q \in Nat
      BY DEF Gateway!Exporters, Gateway!Source
    <3>3. \A k \in Gateway!Key : \A q \in Gateway!Exporters(k)' : k \in Gateway!Asked(r) => q < src + 1
      BY <1>6, <1>21, <2>2, <3>2
    <3> QED  BY <1>21, <2>2, <2>3, <3>1, <3>3 DEF Listing, Owns
  <2>4. CASE /\ src = Sources /\ refresh[r].at = "resources" /\ refresh'[r].at = "prompts"
             /\ refresh'[r].src = 1 /\ refresh'[r].out = shown
             /\ owner' = [k \in Gateway!Key |-> IF k \in Prompt THEN Gateway!Cleared(Prompt)[k] ELSE Gateway!Owned(got, src)[k]]
    <3>1. Heard(r) = Uri /\ Heard(r)' = Gateway!Key /\ Gateway!Asked(r)' = Prompt
      BY <2>4 DEF Heard, Gateway!Asked
    <3>2. \A k \in Prompt : owner'[k] = 0 /\ Gateway!Exporters(k)' = {} /\ k \notin shown /\ k \in Gateway!Key
      BY <1>21, <2>2, <2>4, <3>1 DEF Gateway!Cleared, Gateway!Key, Gateway!GatewayConstants
    <3>3. \A k \in Uri : owner'[k] = Gateway!Owned(got, src)[k] /\ k \notin Prompt /\ k \in Gateway!Key
      BY <2>4 DEF Gateway!Key, Gateway!GatewayConstants
    <3>4. \A k \in Gateway!Key : Owns(k)' /\ (k \in shown <=> owner'[k] # 0)
      BY <1>21, <2>2, <3>1, <3>2, <3>3 DEF Owns, Gateway!Key
    <3> QED  BY <1>10, <2>4, <3>1, <3>2, <3>4 DEF Listing
  <2>5. CASE refresh'[r] = Gateway!Idle
    BY <1>12, <2>1, <2>5 DEF Apart, Under
  <2> QED
    <3>1. CASE src < Sources
      BY <1>5, <1>6, <1>13, <2>3, <3>1 DEF Gateway!GatewayConstants
    <3>2. CASE src = Sources /\ refresh[r].at = "resources"
      BY <1>5, <1>6, <1>13, <2>4, <3>2 DEF Gateway!GatewayConstants
    <3> QED  BY <1>5, <1>13, <2>5, <3>1, <3>2
<1>23. SettledTrue'
  <2>1. SUFFICES ASSUME settled' PROVE \A k \in Gateway!Key : Owns(k)' /\ (k \in catalog' <=> owner'[k] # 0)
    BY DEF SettledTrue
  <2>2. Heard(r) = Gateway!Key
    BY <1>19, <2>1 DEF Heard
  <2> QED  BY <1>19, <1>21, <2>1, <2>2 DEF Owns
<1>24. OwnersListed'
  <2>1. ASSUME NEW k \in Gateway!Key, owner'[k] # 0 PROVE k \in listed'[owner'[k]]
    <3>1. owner'[k] = Gateway!Owned(got, src)[k]
      BY <1>14, <2>1
    <3>2. CASE k \in Gateway!Claimed(got, src)
      BY <1>7, <1>8, <3>1, <3>2
    <3>3. CASE k \notin Gateway!Claimed(got, src)
      <4>1. owner'[k] = owner[k] /\ owner[k] \in Gateway!Source
        BY <1>1, <1>7, <2>1, <3>1, <3>3 DEF Gateway!TypeOK, Gateway!Source, Gateway!GatewayConstants
      <4> QED  BY <1>9, <2>1, <4>1 DEF GatewayIInv, OwnersListed
    <3> QED  BY <3>2, <3>3
  <2>2. \A k \in shown : Known(k)'
    BY <1>6, <1>7, <1>9 DEF GatewayIInv, OwnersListed
  <2>3. ASSUME NEW p \in Refresher, NEW k \in refresh'[p].out PROVE Known(k)'
    <3>1. CASE p # r
      BY <1>9, <1>11, <2>3, <3>1 DEF GatewayIInv, OwnersListed
    <3>2. CASE p = r
      BY <1>12, <1>13, <2>2, <2>3, <3>2
    <3> QED  BY <3>1, <3>2
  <2> QED  BY <2>1, <2>3 DEF OwnersListed
<1>25. Gateway!ReadsGoHome'
  <2>1. \A k \in catalog' : Known(k)'
    <3>1. \A k \in shown : Known(k)'
      BY <1>6, <1>7, <1>9 DEF GatewayIInv, OwnersListed
    <3>2. \A k \in catalog : Known(k)'
      BY <1>9 DEF GatewayIInv, Gateway!ReadsGoHome, Known
    <3> QED  BY <1>5, <3>1, <3>2
  <2>2. \A c \in Client : call[c].at = "asked" /\ call[c].key \in Gateway!Key
                     => call[c].src \in Gateway!Source /\ call[c].key \in listed'[call[c].src]
    BY <1>9 DEF GatewayIInv, Gateway!ReadsGoHome
  <2> QED  BY <1>4, <2>1, <2>2 DEF Gateway!ReadsGoHome, Known, Gateway!tools
<1>26. StoreTold'
  BY <1>4 DEF GatewayIInv, StoreTold, Gateway!tools
<1> QED  BY <1>15, <1>20, <1>22, <1>23, <1>24, <1>25, <1>26 DEF GatewayIInv

\* What a step of a caller leaves alone.
LEMMA CallKeeps == ASSUME GatewayIInv, UNCHANGED <<Gateway!upstream, Gateway!listing>>
                   PROVE /\ Alone' /\ ListingsTrue' /\ SettledTrue' /\ OwnersListed'
                         /\ \A k \in catalog' : \E s \in Gateway!Source : k \in listed'[s]
                         /\ exports' \in [Gateway!Source -> SUBSET Gateway!Key] /\ changes' \in 0..MaxChanges
                         /\ owner' \in [Gateway!Key -> 0..Sources] /\ refresh' \in [Refresher -> Task]
                         /\ \A r \in Refresher : refresh'[r].at # "idle" => refresh'[r].src \in Gateway!Source
                         /\ catalog' \subseteq Gateway!Key /\ settled' \in BOOLEAN
                         /\ said' \in [Gateway!Source -> SUBSET Gateway!Key] /\ listed' \in [Gateway!Source -> SUBSET Gateway!Key]
<1>1. UNCHANGED <<exports, changes, owner, refresh, catalog, settled, said, listed>>
  BY DEF Gateway!upstream, Gateway!listing
<1>2. Alone' /\ SettledTrue' /\ OwnersListed'
  BY <1>1 DEF GatewayIInv, Alone, Apart, Under, SettledTrue, Owns, Gateway!Exporters, OwnersListed, Known
<1>3. ListingsTrue'
  BY <1>1 DEF GatewayIInv, ListingsTrue, Apart, Under, Listing, Heard, Gateway!Asked, Owns, Gateway!Exporters
<1> QED  BY <1>1, <1>2, <1>3 DEF GatewayIInv, Gateway!TypeOK, Gateway!ReadsGoHome, Task

LEMMA ReadIInv == ASSUME Gateway!GatewayConstants, GatewayIInv, NEW c \in Client, NEW k \in Gateway!Key \cup Tool, Gateway!Read(c, k)
                  PROVE GatewayIInv'
<1>1. /\ UNCHANGED <<Gateway!upstream, Gateway!listing>> /\ UNCHANGED <<store, told>>
      /\ calls < MaxCalls /\ calls' = calls + 1
      /\ call' = [call EXCEPT ![c] = [at |-> "asked", key |-> k, src |-> Gateway!OwnerOf(k)]]
      /\ Gateway!Reachable(k)
  BY DEF Gateway!Read
<1>2. Gateway!TypeOK
  BY DEF GatewayIInv
<1>3. /\ Gateway!OwnerOf(k) \in 0..Sources
      /\ k \in Gateway!Key => Gateway!OwnerOf(k) = owner[k] /\ owner[k] \in Gateway!Source /\ k \in listed[owner[k]]
  <2>1. k \in Gateway!Key => k \notin Tool /\ owner[k] \in 0..Sources /\ owner[k] # 0 /\ k \in listed[owner[k]]
    BY <1>1, <1>2 DEF GatewayIInv, Gateway!TypeOK, OwnersListed, Gateway!Reachable, Gateway!GatewayConstants
  <2> QED  BY <2>1 DEF Gateway!OwnerOf, Gateway!Source, Gateway!GatewayConstants
<1> PICK to : to = [at |-> "asked", key |-> k, src |-> Gateway!OwnerOf(k)]
  OBVIOUS
<1>4. to \in Call /\ to.at = "asked" /\ to.key = k /\ to.src = Gateway!OwnerOf(k)
  BY <1>3 DEF Call
<1>5. /\ call' = [call EXCEPT ![c] = to] /\ call' \in [Client -> Call]
      /\ call'[c] = to /\ \A d \in Client : d # c => call'[d] = call[d]
  BY <1>1, <1>2, <1>4 DEF Gateway!TypeOK, Call
<1>6. Gateway!TypeOK'
  <2>1. k # None
    BY DEF Gateway!GatewayConstants
  <2>2. \A d \in Client : call'[d].at = "asked" => call'[d].key # None
    BY <1>2, <1>4, <1>5, <2>1 DEF Gateway!TypeOK
  <2>3. calls' \in 0..MaxCalls
    BY <1>1, <1>2 DEF Gateway!TypeOK, Gateway!GatewayConstants
  <2> QED  BY <1>1, <1>2, <1>5, <2>2, <2>3, CallKeeps DEF Gateway!TypeOK, Call, Task
<1>7. Gateway!ReadsGoHome'
  <2>1. listed' = listed
    BY <1>1 DEF Gateway!listing
  <2>2. \A d \in Client : call'[d].at = "asked" /\ call'[d].key \in Gateway!Key
                     => call'[d].src \in Gateway!Source /\ call'[d].key \in listed'[call'[d].src]
    BY <1>3, <1>4, <1>5, <2>1 DEF GatewayIInv, Gateway!ReadsGoHome
  <2> QED  BY <1>1, <2>2, CallKeeps DEF Gateway!ReadsGoHome
<1>8. StoreTold'
  BY <1>1 DEF GatewayIInv, StoreTold
<1> QED  BY <1>1, <1>6, <1>7, <1>8, CallKeeps DEF GatewayIInv

LEMMA DoneCall == Gateway!GatewayConstants => Gateway!Done \in Call /\ Gateway!Done.at = "idle"
  BY DEF Gateway!Done, Call, Gateway!GatewayConstants

LEMMA FailIInv == ASSUME Gateway!GatewayConstants, GatewayIInv, NEW c \in Client, Gateway!Fail(c) PROVE GatewayIInv'
<1>1. /\ UNCHANGED <<Gateway!upstream, Gateway!listing>> /\ UNCHANGED <<calls, store, told>>
      /\ call' = [call EXCEPT ![c] = Gateway!Done]
  BY DEF Gateway!Fail
<1>2. Gateway!TypeOK
  BY DEF GatewayIInv
<1>3. /\ call' \in [Client -> Call]
      /\ \A d \in Client : call'[d].at = "asked" => d # c /\ call'[d] = call[d]
  BY <1>1, <1>2, DoneCall DEF Gateway!TypeOK, Call
<1>4. Gateway!TypeOK'
  BY <1>1, <1>2, <1>3, CallKeeps DEF Gateway!TypeOK, Call, Task
<1>5. Gateway!ReadsGoHome'
  <2>1. listed' = listed
    BY <1>1 DEF Gateway!listing
  <2> QED  BY <1>1, <1>3, <2>1, CallKeeps DEF GatewayIInv, Gateway!ReadsGoHome
<1>6. StoreTold'
  BY <1>1 DEF GatewayIInv, StoreTold
<1> QED  BY <1>1, <1>4, <1>5, <1>6, CallKeeps DEF GatewayIInv

LEMMA AnswerIInv == ASSUME Gateway!GatewayConstants, GatewayIInv, NEW c \in Client, Gateway!Answer(c) PROVE GatewayIInv'
<1> PICK k : k = call[c].key
  OBVIOUS
<1>1. PICK x \in Content : store' = Gateway!Persisted(k, x) /\ told' = told \cup Gateway!Refs(k, x)
  BY DEF Gateway!Answer
<1>2. /\ UNCHANGED <<Gateway!upstream, Gateway!listing>> /\ calls' = calls
      /\ call[c].at = "asked" /\ call' = [call EXCEPT ![c] = Gateway!Done]
  BY DEF Gateway!Answer
<1>3. Gateway!TypeOK
  BY DEF GatewayIInv
<1>4. k \in Gateway!Key \cup Tool
  BY <1>2, <1>3 DEF Gateway!TypeOK
<1>5. /\ call' \in [Client -> Call]
      /\ \A d \in Client : call'[d].at = "asked" => d # c /\ call'[d] = call[d]
  BY <1>2, <1>3, DoneCall DEF Gateway!TypeOK, Call
<1>6. Gateway!First(k) \in Gateway!Handle /\ Gateway!Text(k, x) \in Gateway!Handle
      /\ Gateway!Subject(Gateway!First(k)) = k /\ Gateway!Subject(Gateway!Text(k, x)) = k
  BY <1>4 DEF Gateway!First, Gateway!Text, Gateway!Handle, Gateway!Subject
<1>7. /\ store' \in [Gateway!Handle -> Content \cup {None}]
      /\ \A h \in Gateway!Handle : /\ store[h] # None => store'[h] = store[h]
                                   /\ h \in {Gateway!First(k), Gateway!Text(k, x)} => store'[h] # None
                                   /\ store'[h] # store[h] => /\ h \in {Gateway!First(k), Gateway!Text(k, x)}
                                                              /\ store'[h] = x
  BY <1>1, <1>3 DEF Gateway!TypeOK, Gateway!Persisted, Gateway!GatewayConstants
<1>8. /\ Gateway!Refs(k, x) \subseteq [handle : Gateway!Handle, content : Content]
      /\ \A ref \in Gateway!Refs(k, x) : ref.handle \in {Gateway!First(k), Gateway!Text(k, x)} /\ ref.content = x
      /\ [handle |-> Gateway!First(k), content |-> x] \in Gateway!Refs(k, x)
  BY <1>6 DEF Gateway!Refs
<1>9. Gateway!TypeOK'
  <2>1. told' \subseteq [handle : Gateway!Handle, content : Content]
    BY <1>1, <1>3, <1>8 DEF Gateway!TypeOK
  <2>2. \A d \in Client : call'[d].at = "asked" => call'[d].key # None
    BY <1>3, <1>5 DEF Gateway!TypeOK
  <2> QED  BY <1>2, <1>3, <1>5, <1>7, <2>1, <2>2, CallKeeps DEF Gateway!TypeOK, Call, Task
<1>10. Gateway!ReadsGoHome'
  <2>1. listed' = listed
    BY <1>2 DEF Gateway!listing
  <2> QED  BY <1>2, <1>5, <2>1, CallKeeps DEF GatewayIInv, Gateway!ReadsGoHome
<1>11. StoreTold'
  <2>1. ASSUME NEW h \in Gateway!Handle, store'[h] # None
        PROVE  \E ref \in told' : Gateway!Subject(ref.handle) = Gateway!Subject(h) /\ ref.content = store'[h]
    <3>1. CASE store'[h] = store[h]
      BY <1>1, <2>1, <3>1 DEF GatewayIInv, StoreTold
    <3>2. CASE store'[h] # store[h]
      <4> PICK ref : ref = [handle |-> Gateway!First(k), content |-> x]
        OBVIOUS
      <4>1. ref \in told' /\ ref.handle = Gateway!First(k) /\ ref.content = x
        BY <1>1, <1>8
      <4>2. Gateway!Subject(h) = k /\ store'[h] = x
        BY <1>6, <1>7, <3>2
      <4> QED  BY <1>6, <4>1, <4>2
    <3> QED  BY <3>1, <3>2
  <2>2. ASSUME NEW ref \in told' PROVE store'[ref.handle] # None
    <3>1. CASE ref \in told
      BY <1>3, <1>7, <3>1 DEF GatewayIInv, StoreTold, Gateway!TypeOK
    <3>2. CASE ref \in Gateway!Refs(k, x)
      BY <1>6, <1>7, <1>8, <3>2
    <3> QED  BY <1>1, <2>2, <3>1, <3>2
  <2> QED  BY <2>1, <2>2 DEF StoreTold
<1> QED  BY <1>2, <1>9, <1>10, <1>11, CallKeeps DEF GatewayIInv

LEMMA ChangeIInv == ASSUME Gateway!GatewayConstants, GatewayIInv, NEW s \in Gateway!Source, Gateway!Change(s) PROVE GatewayIInv'
<1>1. PICK keys \in SUBSET Gateway!Key : exports' = [exports EXCEPT ![s] = keys]
  BY DEF Gateway!Change
<1>2. /\ changes < MaxChanges /\ changes' = changes + 1
      /\ UNCHANGED <<owner, refresh, catalog, settled, said, listed, call, calls, store, told>>
  BY DEF Gateway!Change, Gateway!listing, Gateway!tools
<1>3. Gateway!TypeOK'
  <2>1. exports' \in [Gateway!Source -> SUBSET Gateway!Key] /\ changes' \in 0..MaxChanges
    BY <1>1, <1>2 DEF GatewayIInv, Gateway!TypeOK, Gateway!GatewayConstants
  <2> QED  BY <1>2, <2>1 DEF GatewayIInv, Gateway!TypeOK
<1>4. Alone' /\ SettledTrue' /\ OwnersListed' /\ Gateway!ReadsGoHome' /\ StoreTold'
  BY <1>2 DEF GatewayIInv, Alone, Apart, Under, SettledTrue, Owns, Gateway!Exporters, OwnersListed, Known,
              Gateway!ReadsGoHome, StoreTold
<1>5. ListingsTrue'
  BY <1>2 DEF GatewayIInv, ListingsTrue, Apart, Under, Listing, Heard, Gateway!Asked, Owns, Gateway!Exporters
<1> QED  BY <1>3, <1>4, <1>5 DEF GatewayIInv

LEMMA GatewayNextIInv == Gateway!GatewayConstants /\ GatewayIInv /\ [Gateway!Next]_Gateway!vars => GatewayIInv'
<1> SUFFICES ASSUME Gateway!GatewayConstants, GatewayIInv, [Gateway!Next]_Gateway!vars PROVE GatewayIInv'
  OBVIOUS
<1>1. ASSUME NEW r \in Refresher, Gateway!Begin(r) \/ Gateway!Hear(r) \/ Gateway!Miss(r) PROVE GatewayIInv'
  BY <1>1, BeginIInv, HearIInv, MissIInv
<1>2. ASSUME NEW c \in Client, Gateway!Answer(c) \/ Gateway!Fail(c) \/ \E k \in Gateway!Key \cup Tool : Gateway!Read(c, k) PROVE GatewayIInv'
  BY <1>2, AnswerIInv, FailIInv, ReadIInv
<1>3. ASSUME NEW s \in Gateway!Source, Gateway!Change(s) PROVE GatewayIInv'
  BY <1>3, ChangeIInv
<1>4. CASE UNCHANGED Gateway!vars
  <2>1. Gateway!TypeOK' /\ StoreTold'
    BY <1>4 DEF Gateway!vars, GatewayIInv, Gateway!TypeOK, StoreTold
  <2>2. Alone' /\ ListingsTrue' /\ SettledTrue' /\ OwnersListed' /\ Gateway!ReadsGoHome'
    <3>1. UNCHANGED <<Gateway!upstream, Gateway!listing>> /\ call' = call /\ listed' = listed
      BY <1>4 DEF Gateway!vars, Gateway!upstream, Gateway!listing
    <3> QED  BY <3>1, CallKeeps DEF GatewayIInv, Gateway!ReadsGoHome
  <2> QED  BY <2>1, <2>2 DEF GatewayIInv
<1> QED  BY <1>1, <1>2, <1>3, <1>4 DEF Gateway!Next

LEMMA GatewayMeans == GatewayIInv => Gateway!PrimitivesHold
<1> SUFFICES ASSUME GatewayIInv PROVE Gateway!PrimitivesHold
  OBVIOUS
<1>1. Gateway!ListingSettled
  BY DEF GatewayIInv, SettledTrue, Owns, Gateway!ListingSettled
<1>2. Gateway!RefsOpen
  <2>1. ASSUME NEW ref \in told
        PROVE  \E other \in told : /\ Gateway!Subject(other.handle) = Gateway!Subject(ref.handle)
                                   /\ store[ref.handle] = other.content
    <3>1. ref.handle \in Gateway!Handle
      BY DEF GatewayIInv, Gateway!TypeOK
    <3> QED  BY <2>1, <3>1 DEF GatewayIInv, StoreTold
  <2> QED  BY <2>1 DEF Gateway!RefsOpen
<1> QED  BY <1>1, <1>2 DEF GatewayIInv, Gateway!PrimitivesHold, Gateway!CallsHold

LEMMA GatewayComponent == Gateway!Spec => []Gateway!PrimitivesHold
<1>1. Gateway!Init => GatewayIInv
  BY GatewayAssumption, GatewayInitIInv
<1>2. GatewayIInv /\ [Gateway!Next]_Gateway!vars => GatewayIInv'
  BY GatewayAssumption, GatewayNextIInv
<1>3. GatewayIInv => Gateway!PrimitivesHold
  BY GatewayMeans
<1> QED  BY <1>1, <1>2, <1>3, PTL DEF Gateway!Spec

\* Whatever refreshes, reads and changes of the sources interleave: a listing
\* that had the indices to itself ends with every listed key owned by the first
\* source that listed it, reads go to a source that listed what is read, and
\* every reference given out opens on an answer to the same subject
\* (PrimitiveGatewayRuntime and MultiplexPrimitiveUpstream).
THEOREM PrimitivesAreServed == SpecParts => []PrimitivesHold
<1>1. InitParts => Gateway!Init
  BY DEF InitParts
<1>2. [NextPart]_allVars => [Gateway!Next]_Gateway!vars
  BY DEF NextPart, allVars, gateVars, Gateway!vars
<1>3. Gateway!PrimitivesHold => PrimitivesHold
  BY DEF PrimitivesHold
<1> QED  BY <1>1, <1>2, <1>3, GatewayComponent, PTL DEF SpecParts, Gateway!Spec
================================================================================
