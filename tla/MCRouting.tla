------------------------------ MODULE MCRouting ------------------------------
(***************************************************************************)
(* What a gateway chooses from and answers with, each checked in a part of   *)
(* its own: the router over the tree of its catalog (Router), the graph that   *)
(* is built, saved and loaded (ChoiceGraph), the fitted indices that routers    *)
(* keep (IndexCache), and resources and prompts behind the gateway, once with   *)
(* overlapping refreshes and once with several calls (PrimitiveGateway).  A     *)
(* behaviour picks one part and leaves the others alone.                      *)
(***************************************************************************)
EXTENDS MCRouter

CONSTANTS None, Node, NodeRoot,
          Process, Corpus, Version, MaxEntries, MaxFits,
          Sources, Uri, Prompt, Tool, Content, Client, Refresher, MaxChanges, MaxCalls

VARIABLES part,
          nodes, items, edges, kinds, refused, file, loading, answer,
          version, mem, held, disk, base, asked, saving, fits,
          exports, changes, owner, refresh, catalog, call, calls, store, told, settled,
          said, listed

graphVars == <<nodes, items, edges, kinds, refused, file, loading, answer>>
cacheVars == <<version, mem, held, disk, base, asked, saving, fits>>
gateVars == <<exports, changes, owner, refresh, catalog, call, calls, store, told, settled,
              said, listed>>
allVars == <<part, vars, graphVars, cacheVars, gateVars>>

Graph == INSTANCE ChoiceGraph WITH Root <- NodeRoot
Cache == INSTANCE IndexCache
Gateway == INSTANCE PrimitiveGateway

InitParts == /\ part \in {"router", "graph", "cache", "overlap", "calls"}
             /\ Init /\ (part = "router" \/ req = CHOOSE r \in Request : TRUE)
             /\ Graph!Init
             /\ Cache!Init /\ (part = "cache" \/ version = [p \in Process |-> Min(Version)])
             /\ Gateway!Init /\ (part \in {"overlap", "calls"} \/ exports = Gateway!NoKeys)

\* Bounds: several refreshes meet one call, several calls one refresh.
OneCall == calls <= 1 /\ \A c \in Client : call[c].key \notin Tool
OneRefresh == refresh["r2"].at = "idle"

\* A route ends, and so may the other parts.
NextPart ==
    \/ part = "router" /\ Next /\ UNCHANGED <<part, graphVars, cacheVars, gateVars>>
    \/ part = "graph" /\ Graph!Next /\ UNCHANGED <<part, vars, cacheVars, gateVars>>
    \/ part = "cache" /\ Cache!Next /\ UNCHANGED <<part, vars, graphVars, gateVars>>
    \/ part = "overlap" /\ Gateway!Next /\ OneCall' /\ UNCHANGED <<part, vars, graphVars, cacheVars>>
    \/ part = "calls" /\ Gateway!Next /\ OneRefresh' /\ UNCHANGED <<part, vars, graphVars, cacheVars>>

ASSUME GraphAssumption == Graph!GraphConstants
ASSUME CacheAssumption == Cache!CacheConstants
ASSUME GatewayAssumption == Gateway!GatewayConstants

SpecParts == InitParts /\ [][NextPart]_allVars

--------------------------------------------------------------------------------
\* Graphs have no cycles and refuse only what would close one, and load_graph takes
\* exactly the sound files (ChoiceGraph).
GraphHolds == part = "graph" => Graph!GraphHolds

\* A cached index is the one that fitting would give (IndexCache).
FitsFresh == part = "cache" => Cache!FitsFresh

\* A listing that had the indices to itself is whole, reads go to a source that has
\* what they ask for, and references open (PrimitiveGateway).
PrimitivesHold == part \in {"overlap", "calls"} => Gateway!PrimitivesHold
==============================================================================
