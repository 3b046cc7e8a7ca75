-------------------------------- MODULE Router --------------------------------
(***************************************************************************)
(* Router.route over a built graph: the filters of the call leave the active    *)
(* items, BeamSearchNavigator walks the graph level by level and goes back to  *)
(* unexplored branches when it has too few, and compose_shortlist fills the     *)
(* shortlist around the pinned items.                                          *)
(*                                                                         *)
(* A child is scored once per route, so the score is chosen when it is asked    *)
(* for.  The order of ids, which breaks ties, is left open, and so is the order *)
(* in which reranker, history and score provider leave the candidates.         *)
(***************************************************************************)
EXTENDS TreeBuilder

CONSTANTS BeamWidth, MaxDepth, TopK,
          Gap,        \* confidence_gap
          Scores,     \* what a retriever may score, in units of Gap
          Actives,    \* sets of items that the filters of a call leave
          PinSets,    \* pin_ids of a call
          Quota       \* namespace_quota

ASSUME BeamAssumption == /\ {BeamWidth, MaxDepth, TopK, Quota} \subseteq Nat \ {0}
                         /\ Scores \subseteq Nat /\ Gap \in Nat
ASSUME CallAssumption == Actives \subseteq SUBSET Item /\ PinSets \subseteq SUBSET Item

VARIABLES phase,       \* "build", "beam", "back", "fill", "done"
          active,      \* the items that passed the filters
          depth,       \* levels expanded
          beam, next,  \* groups to expand on this level and on the next
          unexplored,  \* children that no beam took
          pruned,      \* beams cut at the end of a level, which the code forgets
          collected, pins, short

routeVars == <<phase, active, depth, beam, next, unexplored, pruned, collected, pins, short>>
vars == <<treeVars, routeVars>>

\* A child of a group: a group (item 0), or an item with the group it hangs on.
Group(g) == [node |-> g, item |-> 0]
Child(n, i) == [node |-> n, item |-> i]
IsGroup(c) == c.item = 0
Scored(c, s) == [node |-> c.node, item |-> c.item, score |-> s]

ItemsUnder(n) == {i \in Item : \E p \in groups : IsPrefix(n, p) /\ <<p, i>> \in leaves}

\* Mutant: the gate looks at items only.
EligibleGroups_All(n) == Kids(n)

\* Groups with an active item somewhere below.
EligibleGroups(n) == {g \in Kids(n) : ItemsUnder(g) \cap active # {}}

EligibleChildren(n) == {Group(g) : g \in EligibleGroups(n)}
                         \cup {Child(n, i) : i \in ItemsAt(n) \cap active}

\* The k best of C by their scores, ties broken either way.
Best(k, C, sc) == {K \in kSubset(Min({k, Cardinality(C)}), C) : \A x \in K, y \in C \ K : sc[x] >= sc[y]}

\* The first two are too close to call: one more child is kept.
Close(C, sc) == \E c, d \in C : /\ c # d /\ sc[c] >= sc[d] /\ sc[c] - sc[d] < Gap
                                /\ \A x \in C \ {c} : sc[x] <= sc[d]
Width(C, sc) == IF Close(C, sc) THEN BeamWidth + 1 ELSE BeamWidth

-----------------------------------------------------------------------------
Init ==
    /\ BuildInit
    /\ phase = "build" /\ active = {} /\ depth = 0
    /\ beam = {} /\ next = {} /\ unexplored = {} /\ pruned = {}
    /\ collected = {} /\ pins = {} /\ short = {}

Ask ==
    /\ phase = "build" /\ todo = {}
    /\ \E A \in Actives : A \cap Catalog # {} /\ active' = A \cap Catalog
    /\ phase' = "beam"
    /\ beam' = {Scored(Group(Root), 0)}
    /\ UNCHANGED <<treeVars, depth, next, unexplored, pruned, collected, pins, short>>

\* Mutant: children that are not kept are forgotten.
Later_Forgotten(b, C, K, sc) == {}

\* What is not kept of the children of b waits for the backtracking.
Later(b, C, K, sc) == {Scored(c, b.score + sc[c]) : c \in C \ K}

Expand(b) ==
    /\ phase = "beam" /\ depth < MaxDepth
    /\ LET C == EligibleChildren(b.node)
       IN  \E sc \in [C -> Scores] : \E K \in Best(Width(C, sc), C, sc) :
             /\ collected' = collected \cup {c.item : c \in {k \in K : ~IsGroup(k)}}
             /\ next' = next \cup {Scored(c, b.score + sc[c]) : c \in {k \in K : IsGroup(k)}}
             /\ unexplored' = unexplored \cup Later(b, C, K, sc)
    /\ beam' = beam \ {b}
    /\ UNCHANGED <<treeVars, phase, active, depth, pruned, pins, short>>

NextLevel ==
    /\ phase = "beam" /\ depth < MaxDepth /\ beam = {} /\ next # {}
    /\ beam' \in Best(BeamWidth, next, [c \in next |-> c.score])
    /\ pruned' = pruned \cup (next \ beam')
    /\ next' = {}
    /\ depth' = depth + 1
    /\ UNCHANGED <<treeVars, phase, active, unexplored, collected, pins, short>>

\* What is still in the beam at max_depth are groups, none of them an active item.
LeaveBeam ==
    /\ phase = "beam" /\ (depth = MaxDepth \/ (beam = {} /\ next = {}))
    /\ phase' = "back"
    /\ UNCHANGED <<treeVars, active, depth, beam, next, unexplored, pruned, collected, pins, short>>

\* _expand_subtree: the active items below, as far as the depth allows.
Expanded(n) == {i \in active : \E p \in groups : /\ IsPrefix(n, p) /\ Len(p) < MaxDepth
                                                 /\ <<p, i>> \in leaves}

Backtrack ==
    /\ phase = "back" /\ Cardinality(collected) < TopK
    /\ \E u \in unexplored :
          /\ \A v \in unexplored : u.score >= v.score
          /\ unexplored' = unexplored \ {u}
          /\ collected' = collected \cup (IF IsGroup(u) THEN Expanded(u.node) ELSE {u.item})
    /\ UNCHANGED <<treeVars, phase, active, depth, beam, next, pruned, pins, short>>

\* Pinned items come first, those the navigator never reached too.
Pinned ==
    /\ phase = "back" /\ (Cardinality(collected) >= TopK \/ unexplored = {})
    /\ pins' \in PinSets
    /\ short' = pins' \cap active
    /\ phase' = "fill"
    /\ UNCHANGED <<treeVars, active, depth, beam, next, unexplored, pruned, collected>>

\* namespace_counts: what a namespace has in the shortlist besides the pins.
Share(i) == Cardinality({j \in short \ pins : req.ns[j] = req.ns[i]})

\* Mutant: pinned items do not count towards top_k.
Full_PinsFree == Cardinality(short \ pins) >= TopK

Full == Cardinality(short) >= TopK
Candidates == {i \in collected \ short : Share(i) < Quota}

Fill ==
    /\ phase = "fill" /\ ~Full
    /\ \E i \in Candidates : short' = short \cup {i}
    /\ UNCHANGED <<treeVars, phase, active, depth, beam, next, unexplored, pruned, collected, pins>>

Finish ==
    /\ phase = "fill" /\ (Full \/ Candidates = {})
    /\ phase' = "done"
    /\ UNCHANGED <<treeVars, active, depth, beam, next, unexplored, pruned, collected, pins, short>>

Next ==
    \/ (phase = "build" /\ Build /\ UNCHANGED routeVars)
    \/ Ask
    \/ \E b \in beam : Expand(b)
    \/ NextLevel \/ LeaveBeam \/ Backtrack \/ Pinned \/ Fill \/ Finish

Spec == Init /\ [][Next]_vars

-----------------------------------------------------------------------------
Entry == [node : Seq(Label), item : Item \cup {0}, score : Nat]

(* Types of the graph and of a route over it. *)
TypeOK ==
    /\ req \in Request /\ groups \subseteq Seq(Label) /\ leaves \subseteq groups \X Catalog
    /\ todo \subseteq Jobs /\ \A job \in todo : job.node \in groups /\ job.items \subseteq Catalog
    /\ phase \in {"build", "beam", "back", "fill", "done"}
    /\ active \subseteq Catalog /\ depth \in 0..MaxDepth
    /\ \A e \in beam \cup next \cup pruned : e \in Entry /\ IsGroup(e) /\ e.node \in groups
    /\ \A e \in unexplored : e \in Entry /\ e.node \in groups
    /\ collected \subseteq Catalog /\ pins \in PinSets \cup {{}} /\ short \subseteq Catalog

(* Beams are spent on what may be shown: below the root, whatever waits in a    *)
(* beam or for the backtracking is an active item or has one below it          *)
(* ("children failing this gate are skipped before scoring so they cannot      *)
(* consume beam slots"; a route starts at the root whatever hangs there).       *)
BeamsLeadSomewhere ==
    /\ TypeOK
    /\ \A e \in beam \cup next \cup unexplored :
          IF IsGroup(e) THEN e.node # Root => ItemsUnder(e.node) \cap active # {} ELSE e.item \in active

(* A route that ends with fewer than top_k candidates has found every active    *)
(* item of the graph, except below a beam that was cut at the end of a level   *)
(* and beyond max_depth: the backtracking loses nothing else.                  *)
FilledOrPruned ==
    phase \in {"fill", "done"} /\ Cardinality(collected) < TopK =>
        \A l \in leaves : \/ l[2] \in collected \cup (Catalog \ active)
                          \/ Len(l[1]) >= MaxDepth
                          \/ \E e \in pruned : IsPrefix(e.node, l[1])

(* The shortlist of a route: nothing that was filtered out, every active pin,  *)
(* no namespace over its quota, top_k entries unless there are more pins, and   *)
(* no candidate left out while there is room for it.                           *)
ShortlistFair ==
    phase = "done" =>
        /\ short \subseteq active
        /\ pins \cap active \subseteq short
        /\ \A i \in short \ pins : Share(i) <= Quota
        /\ Cardinality(short) <= Max({TopK, Cardinality(pins \cap active)})
        /\ Cardinality(short) < TopK => \A i \in collected \ short : Share(i) >= Quota
=============================================================================
