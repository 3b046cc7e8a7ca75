----------------------------- MODULE ChoiceGraph -----------------------------
(***************************************************************************)
(* The graph that a router navigates (ChoiceGraph, routing/graph.py): edges  *)
(* are refused when they close a cycle, and load_graph reads a file back,      *)
(* which somebody may have written by hand, edge by edge under the same        *)
(* check, and validates the whole.  Nodes are numbers in the order of their     *)
(* ids; labels, hints and build metadata are left out.                      *)
(***************************************************************************)
EXTENDS Integers, FiniteSets, FiniteSetsExt

CONSTANTS Node,   \* ids of nodes and items
          Root,   \* root_id of every graph and file
          None

VARIABLES nodes, items, edges,
          kinds,     \* child_types: what an edge led to when it was made
          refused,   \* the edge that add_edge refused last
          file,      \* the file last opened, until the graph changes
          loading,   \* from_dict under way: the edges made so far and those to come
          answer     \* how the last load ended

vars == <<nodes, items, edges, kinds, refused, file, loading, answer>>

Edge == Node \X Node

Init == /\ nodes = {} /\ items = {} /\ edges = {}
        /\ kinds = << >>
        /\ refused = None
        /\ file = None
        /\ loading = None
        /\ answer = None

--------------------------------------------------------------------------------
(* Searches: a set is closed when no edge leaves it *)

Closed(S, E) == \A e \in E : e[1] \in S => e[2] \in S

\* Every search that starts at a finds b.
Reaches(a, b, E) == \A S \in SUBSET Node : a \in S /\ Closed(S, E) => b \in S

\* _creates_cycle, asked when the edge is already in place
Closes_Direct(e, E) == e[1] = e[2] \/ <<e[2], e[1]>> \in E
Closes(e, E) == Reaches(e[2], e[1], E \cup {e})

\* topological_order: of the nodes whose predecessors are all done, the first.
Ready(done) == {n \in nodes \ done : \A e \in edges : e[2] = n => e[1] \in done}
Peeled[k \in 0..Cardinality(Node)] ==
    IF k = 0 THEN {}
    ELSE LET done == Peeled[k - 1]
         IN  IF Ready(done) = {} THEN done ELSE done \cup {Min(Ready(done))}
Sortable == Peeled[Cardinality(Node)] = nodes

--------------------------------------------------------------------------------
(* Building *)

Kind(n) == IF n \in items THEN "item" ELSE "node"
Still == loading = None

\* The program goes on, and the file it came from no longer matters.
Goes == Still /\ file' = None /\ answer' = None /\ UNCHANGED loading

AddNode(n) == /\ Goes
              /\ nodes' = nodes \cup {n}
              /\ UNCHANGED <<items, edges, kinds, refused>>

AddItem(n) == /\ Goes
              /\ items' = items \cup {n}
              /\ UNCHANGED <<nodes, edges, kinds, refused>>

\* A refused edge leaves the nodes it named.
AddEdge(e) ==
    /\ Goes
    /\ nodes' = nodes \cup {e[1], e[2]}
    /\ IF Closes(e, edges)
       THEN refused' = e /\ UNCHANGED <<edges, kinds>>
       ELSE /\ edges' = edges \cup {e}
            /\ kinds' = [f \in edges' |-> IF f \in edges THEN kinds[f] ELSE Kind(f[2])]
            /\ UNCHANGED refused
    /\ UNCHANGED items

--------------------------------------------------------------------------------
(* load_graph *)

Open(f) == /\ Still
           /\ file' = f
           /\ loading' = [made |-> {}, todo |-> f.edges]
           /\ answer' = None
           /\ UNCHANGED <<nodes, items, edges, kinds, refused>>

\* The graph is saved and loaded again.
Reload == Open([nodes |-> nodes, items |-> items, edges |-> edges])

\* A program starts with a file that somebody wrote; what its edges and items
\* name need not be among its nodes.
Load == /\ nodes = {} /\ items = {} /\ file = None
        /\ \E some \in SUBSET {Root}, leaves \in SUBSET Node, E \in SUBSET Edge :
              Open([nodes |-> some, items |-> leaves, edges |-> E])

\* from_dict takes the edges in the order of the file.
LoadEdge(e) == /\ loading # None /\ e \in loading.todo
               /\ IF Closes(e, loading.made)
                  THEN loading' = None /\ answer' = "cycle"
                  ELSE /\ loading' = [made |-> loading.made \cup {e}, todo |-> loading.todo \ {e}]
                       /\ UNCHANGED answer
               /\ UNCHANGED <<nodes, items, edges, kinds, refused, file>>

Named(E) == {e[1] : e \in E} \cup {e[2] : e \in E}
LoadedNodes == file.nodes \cup Named(loading.made)

\* _validate, with the checks that can still fail after from_dict
Valid_AnyRoot == /\ Root \in LoadedNodes
                 /\ \A i \in file.items : \E n \in LoadedNodes : Reaches(n, i, loading.made)
Valid == /\ Root \in LoadedNodes
         /\ \A i \in file.items : Reaches(Root, i, loading.made)

\* The caller goes on with the graph that was loaded, or with none new.
Finish == /\ loading # None /\ loading.todo = {}
          /\ IF Valid
             THEN /\ answer' = "loaded"
                  /\ nodes' = LoadedNodes
                  /\ items' = file.items
                  /\ edges' = loading.made
                  /\ kinds' = [e \in edges' |-> IF e[2] \in file.items THEN "item" ELSE "node"]
                  /\ refused' = None
             ELSE answer' = "invalid" /\ UNCHANGED <<nodes, items, edges, kinds, refused>>
          /\ loading' = None
          /\ UNCHANGED file

Next == \/ \E n \in Node : AddNode(n) \/ AddItem(n)
        \/ \E e \in Edge : AddEdge(e) \/ LoadEdge(e)
        \/ Reload \/ Load \/ Finish

Spec == Init /\ [][Next]_vars

--------------------------------------------------------------------------------
File == [nodes : SUBSET Node, items : SUBSET Node, edges : SUBSET Edge]

\* How loads end, and what is assumed of the ids: ordered, finitely many.
Words == {"loaded", "cycle", "invalid"}
GraphConstants == /\ Node \subseteq Nat /\ IsFiniteSet(Node) /\ Root \in Node
                  /\ None \notin Words \cup File

TypeOK == /\ nodes \subseteq Node /\ items \subseteq Node /\ edges \subseteq Edge
          /\ edges \subseteq nodes \X nodes
          /\ kinds \in [edges -> {"item", "node"}]
          /\ refused \in Edge \cup {None}
          /\ file \in File \cup {None}
          /\ loading \in [made : SUBSET Edge, todo : SUBSET Edge] \cup {None}
          /\ loading # None => file # None
          /\ answer \in Words \cup {None}

\* Every set of nodes has one without a successor in it, so nobody goes in circles.
Acyclic(E) == \A C \in SUBSET Node : C # {} => \E n \in C : \A m \in C : <<n, m>> \notin E

\* The graph and every graph on its way out of a file are acyclic (ChoiceGraph).
NoCycles == Acyclic(edges) /\ (loading # None => Acyclic(loading.made))

\* topological_order always finds an order, and an edge is refused only if it does
\* close a cycle, whatever was added since (add_edge).
GraphSound == TypeOK /\ NoCycles /\ Sortable /\ (refused # None => ~Acyclic(edges \cup {refused}))

\* load_graph refuses exactly the files with a cycle, in whatever order they list
\* their edges, and those with an item that the root does not lead to; any other
\* file gives the graph that it describes (from_dict and _validate).
Lost == {i \in file.items : ~Reaches(Root, i, file.edges)}
Rootless == Root \notin file.nodes \cup Named(file.edges)
Described == /\ items = file.items /\ edges = file.edges
             /\ nodes = file.nodes \cup Named(edges)
             /\ \A e \in edges : kinds[e] = Kind(e[2])
LoadRight == /\ answer = "cycle" => ~Acyclic(file.edges)
             /\ answer = "invalid" => Acyclic(file.edges) /\ (Rootless \/ Lost # {})
             /\ answer = "loaded" => Acyclic(file.edges) /\ ~Rootless /\ Lost = {} /\ Described

\* Graphs have no cycles and refuse only what would close one, and load_graph takes
\* exactly the sound files.
GraphHolds == GraphSound /\ LoadRight

\* What an edge is said to lead to is what it leads to: false between add_edge and
\* a later add_item, until the graph is saved and loaded.
KindsFit == \A e \in edges : kinds[e] = Kind(e[2])
================================================================================
