---------------------------- MODULE GatewayRuntime ----------------------------
(***************************************************************************)
(* ProxyRuntime (adapters/proxy_runtime.py) with the response cache and the   *)
(* retry loop of gateway_controls.py.  The runtime is driven by tasks of one  *)
(* event loop: a step is what runs between two awaits.  An execute awaits     *)
(* the upstream call and the backoff sleeps; a refresh awaits tools/list.     *)
(* Everything derived from the catalog is rebuilt when the listing is         *)
(* registered, while executes may be waiting for their upstream.             *)
(*                                                                         *)
(* A tool definition is a name with a variant (schema, annotations,           *)
(* version); the canonical tool_id is computed from both, so it may stay the  *)
(* same when the definition changes.  The verdict of the rate limiter (module *)
(* RateLimiter) is any verdict here.                                        *)
(***************************************************************************)
EXTENDS Integers, Sequences, FiniteSets, SequencesExt, Functions

CONSTANTS Name, Variant, Id, Arg, Task, Refresher, None,
          Place,          \* name -> its place in tools/list
          ToolId,         \* definition -> canonical tool_id
          ReadOnly,       \* variants annotated readOnlyHint
          Malformed,      \* variants mcp_tool_to_selectable rejects
          Broken,         \* variants whose schema does not compile
          Denied,         \* variants the ToolPolicy does not allow
          Accepts,        \* variant -> the arguments its schema accepts
          RaiseInvalid,   \* on_invalid = "raise"
          Admitted,       \* ids on the allow list of the cache
          Ttl, MaxEntries, MaxAttempts,
          MaxClock,       \* bound: the clock stops here
          MaxChanges      \* bound: changes of the upstream's tools

Def == [name : Name, variant : Variant]

ASSUME NoneAssumption == None \notin Name \cup Variant \cup Id \cup Arg /\ None \notin Def
ASSUME PlaceAssumption == Place \in [Name -> Int] /\ IsInjective(Place)
ASSUME ToolIdAssumption == ToolId \in [Def -> Id]
ASSUME VariantAssumption == /\ ReadOnly \cup Malformed \cup Broken \cup Denied \subseteq Variant
                            /\ Accepts \in [Variant -> SUBSET Arg]
ASSUME LimitAssumption == /\ {Ttl, MaxEntries, MaxAttempts} \subseteq Nat \ {0}
                          /\ {MaxClock, MaxChanges} \subseteq Nat
ASSUME SwitchAssumption == RaiseInvalid \in BOOLEAN /\ Admitted \subseteq Id

VARIABLES upstream,     \* name -> variant the upstream serves now, or None
          catalog,      \* id -> registered definition, or None
          index,        \* id -> upstream name, or None: _upstream_names
          routed,       \* ids of the graph and the router
          validators,   \* id -> definition its compiled validator is of, or None
          browsed,      \* _browsed_tool_ids
          cards,        \* id -> definition of the frozen card, or None
          cache,        \* the OrderedDict of results, least recently used first
          call,         \* task -> the execute it runs
          served,       \* what the last execute that ended was served from the cache, or None
          listing,      \* refresher -> the listing it holds, or None
          clock, changes

view == <<catalog, index, routed>>
session == <<validators, browsed, cards>>
world == <<upstream, clock, changes>>
vars == <<upstream, catalog, index, routed, validators, browsed, cards, cache,
          call, served, listing, clock, changes>>

Idle == [at |-> "idle", id |-> None, arg |-> None, def |-> None, name |-> None,
         keyed |-> FALSE, attempts |-> 0, reply |-> "none"]

\* A listing says what the upstream serves under each name.
Listed(u) == {n \in Name : u[n] # None}
Definition(u, n) == [name |-> n, variant |-> u[n]]
IdIn(u, n) == ToolId[Definition(u, n)]

--------------------------------------------------------------------------------
(* Registering a listing *)

WellFormed(u) == {n \in Listed(u) : u[n] \notin Malformed}
ItemIds(u) == {IdIn(u, n) : n \in WellFormed(u)}

\* Catalog.register raises at the first item whose id is taken.
Clashes(u) == {n \in WellFormed(u) : \E m \in WellFormed(u) :
                                         Place[m] < Place[n] /\ IdIn(u, m) = IdIn(u, n)}
Prefix(u) == {m \in WellFormed(u) : \A n \in Clashes(u) : Place[m] < Place[n]}
CatalogOf(u) ==
    [id \in Id |-> IF \E n \in Prefix(u) : IdIn(u, n) = id
                   THEN Definition(u, CHOOSE n \in Prefix(u) : IdIn(u, n) = id)
                   ELSE None]
IndexOf(u) ==
    [id \in Id |-> IF CatalogOf(u)[id] = None THEN None ELSE CatalogOf(u)[id].name]

\* The session state every registration drops first.
Invalidate_KeepsValidators == /\ browsed' = {}
                              /\ cards' = [id \in Id |-> None]
                              /\ cache' = <<>>
                              /\ UNCHANGED validators
Invalidate == /\ browsed' = {}
              /\ cards' = [id \in Id |-> None]
              /\ validators' = [id \in Id |-> None]
              /\ cache' = <<>>

\* With on_invalid = "raise" an unfit definition raises before anything is
\* rebuilt; otherwise a malformed one is skipped and a broken schema is flagged.
Raises(u) == RaiseInvalid /\ \E n \in Listed(u) : u[n] \in Malformed \cup Broken

\* The catalog is replaced before its items are registered, the rest after.
Rebuild_KeepsIndex(u) ==
    IF Raises(u) THEN UNCHANGED view
    ELSE /\ catalog' = CatalogOf(u)
         /\ index' = [id \in Id |-> IF index[id] # None THEN index[id] ELSE IndexOf(u)[id]]
         /\ routed' = ItemIds(u)
Rebuild(u) ==
    IF Raises(u) THEN UNCHANGED view
    ELSE /\ catalog' = CatalogOf(u)
         /\ IF Clashes(u) # {} THEN UNCHANGED <<index, routed>>
            ELSE /\ index' = IndexOf(u)
                 /\ routed' = ItemIds(u)

Init == /\ upstream \in [Name -> Variant \cup {None}]
        /\ catalog = [id \in Id |-> None]
        /\ index = [id \in Id |-> None]
        /\ routed = {}
        /\ validators = [id \in Id |-> None]
        /\ browsed = {}
        /\ cards = [id \in Id |-> None]
        /\ cache = <<>>
        /\ call = [t \in Task |-> Idle]
        /\ served = None
        /\ listing = [r \in Refresher |-> None]
        /\ clock = 0
        /\ changes = 0

\* The upstream answers tools/list with what it serves at that moment.
ListTools(r) == /\ listing[r] = None
                /\ listing' = [listing EXCEPT ![r] = upstream]
                /\ UNCHANGED <<view, session, cache, call, served, world>>

\* _register_tool_defs, when the refresh task resumes.
Register(r) == /\ listing[r] # None
               /\ Invalidate
               /\ Rebuild(listing[r])
               /\ listing' = [listing EXCEPT ![r] = None]
               /\ UNCHANGED <<call, served, world>>

--------------------------------------------------------------------------------
(* browse and hydrate with cache_stable *)

\* The cards of a response are frozen at first sight and count as browsed.
Browse(ids) == /\ ids \subseteq {id \in routed : catalog[id] # None}
               /\ ids # {}
               /\ cards' = [id \in Id |-> IF id \in ids /\ cards[id] = None
                                          THEN catalog[id] ELSE cards[id]]
               /\ browsed' = browsed \cup ids
               /\ UNCHANGED <<view, validators, cache, call, served, listing, world>>

Hydrate(id) == /\ catalog[id] # None
               /\ browsed' = browsed \cup {id}
               /\ UNCHANGED <<view, validators, cards, cache, call, served, listing, world>>

--------------------------------------------------------------------------------
(* ToolResultCache *)

Found(id, arg) == {i \in 1..Len(cache) : cache[i].id = id /\ cache[i].arg = arg}
Fresh(i) == clock < cache[i].expires

\* The entries but the one of a call: the dict has at most one.
Without(id, arg) == IF Found(id, arg) = {} THEN cache
                    ELSE RemoveAt(cache, CHOOSE i \in Found(id, arg) : TRUE)

\* put: the entry moves to the end, and the oldest goes past max_entries.
Put(entry) == LET all == Append(Without(entry.id, entry.arg), entry)
              IN IF Len(all) > MaxEntries THEN Tail(all) ELSE all

--------------------------------------------------------------------------------
(* execute, up to its first await *)

Validator(id) == IF validators[id] # None THEN validators[id] ELSE catalog[id]
Valid(id, arg) == arg \in Accepts[Validator(id).variant]
Keyed(id) == catalog[id].variant \in ReadOnly /\ id \in Admitted
Hit(id, arg) == Keyed(id) /\ \E i \in Found(id, arg) : Fresh(i)

\* The schema is compiled once per id and refresh.
Compile(id) == validators' = [validators EXCEPT ![id] = Validator(id)]
Compiles(id) == Validator(id).variant \notin Broken

\* execute returns a result or an error of its own.
Return == served' = None

NotFound(id) == catalog[id] = None /\ UNCHANGED validators
SchemaInvalid(id) == catalog[id] # None /\ ~Compiles(id) /\ UNCHANGED validators
ArgsInvalid(id, arg) == catalog[id] # None /\ Compiles(id) /\ ~Valid(id, arg) /\ Compile(id)

\* A dry run reports the verdicts; otherwise the policy or the rate limiter denies.
Blocked(id, arg) == /\ catalog[id] # None /\ Compiles(id) /\ Valid(id, arg)
                    /\ Compile(id)

Refused(t, id, arg) ==
    /\ call[t].at = "idle"
    /\ NotFound(id) \/ SchemaInvalid(id) \/ ArgsInvalid(id, arg) \/ Blocked(id, arg)
    /\ Return
    /\ UNCHANGED <<view, browsed, cards, cache, call, listing, world>>

Cleared(id, arg) == /\ catalog[id] # None /\ Compiles(id) /\ Valid(id, arg)
                    /\ catalog[id].variant \notin Denied

\* get on a fresh entry, which becomes the most recently used.
CacheHit(t, id, arg) ==
    /\ call[t].at = "idle" /\ Cleared(id, arg) /\ Keyed(id)
    /\ \E i \in Found(id, arg) :
         /\ Fresh(i)
         /\ cache' = Append(Without(id, arg), cache[i])
         /\ served' = [listed |-> catalog[id], made |-> cache[i].declared]
    /\ Compile(id)
    /\ UNCHANGED <<view, browsed, cards, call, listing, world>>

\* A miss deletes the entry when it has expired; then the upstream is called.
Dispatch(t, id, arg) ==
    /\ call[t].at = "idle" /\ Cleared(id, arg) /\ ~Hit(id, arg)
    /\ cache' = IF Keyed(id) THEN Without(id, arg) ELSE cache
    /\ Compile(id)
    /\ call' = [call EXCEPT ![t] =
         [at |-> "calling", id |-> id, arg |-> arg, def |-> catalog[id],
          name |-> IF index[id] # None THEN index[id] ELSE catalog[id].name,
          keyed |-> Keyed(id), attempts |-> 1, reply |-> "none"]]
    /\ UNCHANGED <<view, browsed, cards, served, listing, world>>

--------------------------------------------------------------------------------
(* execute, after the await *)

\* The upstream runs the tool under the name, or fails, or the transport does.
Reply(t, reply) ==
    /\ call[t].at = "calling"
    /\ reply = "ok" => upstream[call[t].name] # None
    /\ call' = [call EXCEPT ![t].at = "replied", ![t].reply = reply]
    /\ UNCHANGED <<view, session, cache, served, listing, world>>

Retries(t) == call[t].reply = "transient" /\ call[t].attempts < MaxAttempts

Backoff(t) == /\ call[t].at = "replied" /\ Retries(t)
              /\ call' = [call EXCEPT ![t].at = "sleeping"]
              /\ UNCHANGED <<view, session, cache, served, listing, world>>

Retry_Uncounted(t) == /\ call[t].at = "sleeping"
                      /\ call' = [call EXCEPT ![t].at = "calling", ![t].reply = "none"]
                      /\ UNCHANGED <<view, session, cache, served, listing, world>>
Retry(t) == /\ call[t].at = "sleeping"
            /\ call' = [call EXCEPT ![t].at = "calling", ![t].reply = "none",
                                    ![t].attempts = @ + 1]
            /\ UNCHANGED <<view, session, cache, served, listing, world>>

\* The exception the last attempt raised becomes the error.
Fail(t) == /\ call[t].at = "replied" /\ call[t].reply \in {"transient", "fatal"} /\ ~Retries(t)
           /\ Return
           /\ call' = [call EXCEPT ![t] = Idle]
           /\ UNCHANGED <<view, session, cache, listing, world>>

\* A result, which may be a tool-level error: only a success is cached.
Stores_Errors(t) == call[t].keyed
Stores(t) == call[t].keyed /\ call[t].reply = "ok"

Finish(t) ==
    /\ call[t].at = "replied" /\ call[t].reply \in {"ok", "error"}
    /\ browsed' = browsed \cup {call[t].id}
    /\ cache' = IF Stores(t)
                THEN Put([id |-> call[t].id, arg |-> call[t].arg, declared |-> call[t].def,
                          reply |-> call[t].reply, expires |-> clock + Ttl])
                ELSE cache
    /\ Return
    /\ call' = [call EXCEPT ![t] = Idle]
    /\ UNCHANGED <<view, validators, cards, listing, world>>

\* CancelledError passes through the retry loop and execute.
Cancel(t) == /\ call[t].at # "idle"
             /\ call' = [call EXCEPT ![t] = Idle]
             /\ Return
             /\ UNCHANGED <<view, session, cache, listing, world>>

--------------------------------------------------------------------------------
(* The world: the upstream's tools change, time passes *)

UpstreamChanges(n, v) == /\ changes < MaxChanges /\ upstream[n] # v
                         /\ upstream' = [upstream EXCEPT ![n] = v]
                         /\ changes' = changes + 1
                         /\ UNCHANGED <<view, session, cache, call, served, listing, clock>>

Advance == /\ clock < MaxClock
           /\ clock' = clock + 1
           /\ UNCHANGED <<view, session, cache, call, served, listing, upstream, changes>>

Execute(t) == \E id \in Id, arg \in Arg :
                  Refused(t, id, arg) \/ CacheHit(t, id, arg) \/ Dispatch(t, id, arg)
Await(t) == \E reply \in {"ok", "error", "transient", "fatal"} : Reply(t, reply)
Resume(t) == Backoff(t) \/ Retry(t) \/ Fail(t) \/ Finish(t)
Refresh(r) == ListTools(r) \/ Register(r)

Next == \/ \E t \in Task : Execute(t) \/ Await(t) \/ Resume(t) \/ Cancel(t)
        \/ \E r \in Refresher : Refresh(r)
        \/ \E ids \in SUBSET Id : Browse(ids)
        \/ \E id \in Id : Hydrate(id)
        \/ \E n \in Name, v \in Variant \cup {None} : UpstreamChanges(n, v)
        \/ Advance

Spec == Init /\ [][Next]_vars

\* A transport answers or times out, and the event loop resumes its tasks.
FairSpec == Spec /\ \A t \in Task : WF_vars(Await(t)) /\ WF_vars(Resume(t))

--------------------------------------------------------------------------------
Entry == [id : Id, arg : Arg, declared : Def, reply : {"ok", "error"}, expires : Nat]
Execution == [at : {"idle", "calling", "replied", "sleeping"},
              id : Id \cup {None}, arg : Arg \cup {None}, def : Def \cup {None},
              name : Name \cup {None}, keyed : BOOLEAN, attempts : 0..MaxAttempts,
              reply : {"none", "ok", "error", "transient", "fatal"}]

\* Types of the runtime's attributes (proxy_runtime.py, ProxyRuntime.__init__).
TypeOK == /\ upstream \in [Name -> Variant \cup {None}]
          /\ catalog \in [Id -> Def \cup {None}]
          /\ index \in [Id -> Name \cup {None}]
          /\ routed \subseteq Id
          /\ validators \in [Id -> Def \cup {None}]
          /\ browsed \subseteq Id
          /\ cards \in [Id -> Def \cup {None}]
          /\ cache \in Seq(Entry)
          /\ call \in [Task -> Execution]
          /\ served \in [listed : Def, made : Def] \cup {None}
          /\ listing \in [Refresher -> [Name -> Variant \cup {None}] \cup {None}]
          /\ clock \in Nat /\ changes \in Nat

\* "a concurrent execute observes either the fully-old or fully-new view, never a
\* half-updated one" (docs/gateway_spec.md:570-572): the index and the router
\* know exactly the definitions of the catalog.
ViewsAgree ==
    /\ \A id \in Id : index[id] = IF catalog[id] = None THEN None ELSE catalog[id].name
    /\ routed = {id \in Id : catalog[id] # None}

\* Whatever lists, registrations and executes interleave, what is derived from
\* the catalog, compiled validators and frozen cards included, is of the
\* definitions the catalog holds now, never of those of an earlier listing.
DerivedIsCurrent ==
    /\ TypeOK
    /\ ViewsAgree
    /\ \A id \in Id : /\ validators[id] \in {None, catalog[id]}
                      /\ cards[id] \in {None, catalog[id]}

\* A call in flight, its retries included, goes to the upstream tool whose
\* schema its arguments were checked against and whose policy verdict it has,
\* and a tool whose replies are lost runs at most max_attempts times.
DispatchedAsChecked ==
    \A t \in Task : call[t].at # "idle" =>
        /\ call[t].name = call[t].def.name
        /\ ToolId[call[t].def] = call[t].id
        /\ call[t].arg \in Accepts[call[t].def.variant]
        /\ call[t].def.variant \notin Denied
        /\ call[t].attempts <= MaxAttempts

\* The cache holds successes of read-only, admitted, allowed tools only, also
\* when the result arrives after the definition has changed ("Errors and
\* mutating tools are never cached", gateway_controls.py:206).
CachesOnlyReads ==
    \A i \in 1..Len(cache) :
        /\ cache[i].reply = "ok"
        /\ cache[i].id \in Admitted
        /\ cache[i].declared.variant \in ReadOnly \ Denied
        /\ cache[i].arg \in Accepts[cache[i].declared.variant]

\* Two executes of the same call that both missed leave one entry, and the
\* cache never holds more than max_entries.
OneEntryPerCall ==
    /\ Len(cache) <= MaxEntries
    /\ \A i, j \in 1..Len(cache) :
          cache[i].id = cache[j].id /\ cache[i].arg = cache[j].arg => i = j

\* What concurrent executes leave in the cache may be served: entries are of
\* cacheable results, and one per call.
CacheSound == CachesOnlyReads /\ OneEntryPerCall

\* Every execute returns, whatever the transport does: the retries are bounded.
ExecuteEnds == \A t \in Task : call[t].at # "idle" ~> call[t].at = "idle"

\* "invalidated wholesale on catalog refresh" (gateway_controls.py:207-208): a
\* cached result is served only for the definition it was made under.
HitMatchesCatalog ==
    served # None => served.made = served.listed
================================================================================
