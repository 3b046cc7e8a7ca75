--------------------------- MODULE PrimitiveGateway ---------------------------
(***************************************************************************)
(* Resources and prompts behind a gateway (PrimitiveGatewayRuntime,          *)
(* adapters/gateway_primitives.py) that fans out over several sources        *)
(* (MultiplexPrimitiveUpstream), and the artifacts that reads, prompts and    *)
(* tool calls leave in one store for tool_view.                             *)
(*                                                                         *)
(* The tasks share one event loop: a step is what runs between two awaits.    *)
(* A key is a URI or a prompt name; its canonical id is a hash of it, and       *)
(* definitions that cannot be converted are no keys.                         *)
(***************************************************************************)
EXTENDS Integers, FiniteSetsExt

CONSTANTS Sources,     \* number of sources behind the multiplexer
          Uri, Prompt, \* what sources may export
          Tool,        \* the tools of the gateway beside them
          Content,     \* the results of reads, prompts and tools
          Client,      \* concurrent callers of the meta-tools
          Refresher,   \* concurrent callers of refresh
          MaxChanges,  \* how often a source changes what it exports
          MaxCalls,    \* bound on the calls
          None


Key == Uri \cup Prompt
Source == 1..Sources

VARIABLES exports,   \* exports[s]: what source s would list now
          changes,
          owner,     \* _resource_owner and _prompt_owner; 0 for no owner
          refresh,   \* refresh[r]: a listing under way
          catalog,   \* the keys registered in the two indices
          call,      \* call[c]: a read, a prompt or a tool call under way
          calls,     \* how many there have been
          store,     \* the artifact store of the ContextManager
          told,      \* the references in the envelopes given out
          settled,   \* the last listing was completed, and no other ran beside it
          said,      \* what the sources answered to the last listing
          listed     \* what they ever answered

vars == <<exports, changes, owner, refresh, catalog, call, calls, store, told, settled, said, listed>>
listing == <<owner, refresh, catalog, settled, said, listed>>
upstream == <<exports, changes>>
tools == <<call, calls, store, told>>

NoKeys == [s \in Source |-> {}]
Idle == [at |-> "idle", src |-> 0, out |-> {}, alone |-> FALSE]
Done == [at |-> "idle", key |-> None, src |-> 0]

Handle == {"first"} \X (Key \cup Tool) \cup {"text"} \X (Key \cup Tool) \X Content

Init == /\ exports \in [Source -> SUBSET Key]
        /\ changes = 0
        /\ owner = [k \in Key |-> 0]
        /\ refresh = [r \in Refresher |-> Idle]
        /\ catalog = {}
        /\ call = [c \in Client |-> Done]
        /\ calls = 0
        /\ store = [h \in Handle |-> None]
        /\ told = {}
        /\ settled = FALSE
        /\ said = NoKeys
        /\ listed = NoKeys

--------------------------------------------------------------------------------
(* refresh: list_resources, then list_prompts, then register_sync *)

Cleared_Never(keys) == owner
Cleared(keys) == [k \in Key |-> IF k \in keys THEN 0 ELSE owner[k]]

Begin(r) == /\ refresh[r].at = "idle"
            /\ owner' = Cleared(Uri)
            /\ refresh' = [p \in Refresher |->
                  IF p = r THEN [at |-> "resources", src |-> 1, out |-> {},
                                 alone |-> \A q \in Refresher : refresh[q].at = "idle"]
                  ELSE [refresh[p] EXCEPT !.alone = FALSE]]
            /\ settled' = FALSE
            /\ said' = NoKeys
            /\ UNCHANGED <<upstream, catalog, tools, listed>>

Asked(r) == IF refresh[r].at = "resources" THEN Uri ELSE Prompt

\* The first source that lists a key owns it, and only that listing shows it.
Claimed_All(keys, s) == keys
Claimed(keys, s) == {k \in keys : owner[k] = 0}
Owned(keys, s) == [k \in Key |-> IF k \in Claimed(keys, s) THEN s ELSE owner[k]]

Hear(r) == LET s == refresh[r].src
               keys == exports[s] \cap Asked(r)
               out == refresh[r].out \cup Claimed(keys, s)
           IN  /\ refresh[r].at # "idle"
               /\ said' = [said EXCEPT ![s] = @ \cup keys]
               /\ listed' = [listed EXCEPT ![s] = @ \cup keys]
               /\ \/ /\ s < Sources
                     /\ owner' = Owned(keys, s)
                     /\ refresh' = [refresh EXCEPT ![r].src = s + 1, ![r].out = out]
                     /\ UNCHANGED <<catalog, settled>>
                  \/ /\ s = Sources /\ refresh[r].at = "resources"
                     /\ owner' = [k \in Key |-> IF k \in Prompt THEN Cleared(Prompt)[k]
                                                ELSE Owned(keys, s)[k]]
                     /\ refresh' = [refresh EXCEPT ![r].at = "prompts", ![r].src = 1,
                                                   ![r].out = out]
                     /\ UNCHANGED <<catalog, settled>>
                  \/ /\ s = Sources /\ refresh[r].at = "prompts"
                     /\ owner' = Owned(keys, s)
                     /\ catalog' = out
                     /\ refresh' = [refresh EXCEPT ![r] = Idle]
                     /\ settled' = refresh[r].alone
               /\ UNCHANGED <<upstream, tools>>

\* A source fails or takes too long: refresh raises, and owner stays as it is.
Miss(r) == /\ refresh[r].at # "idle"
           /\ refresh' = [refresh EXCEPT ![r] = Idle]
           /\ UNCHANGED <<upstream, tools, owner, catalog, settled, said, listed>>

--------------------------------------------------------------------------------
(* resource_read, prompt_get and tool_execute *)

Registered(k) == k \in catalog \cup Tool

\* The owner of a tool is settled elsewhere (LiveCatalog); source 0 stands for it.
OwnerOf(k) == IF k \in Tool THEN 0 ELSE owner[k]
Reachable(k) == IF k \in Tool THEN TRUE ELSE owner[k] # 0

\* An id that is not registered, and a key that nobody owns, are answered at once.
Read(c, k) == /\ call[c].at = "idle"
              /\ calls < MaxCalls /\ calls' = calls + 1
              /\ Registered(k) /\ Reachable(k)
              /\ call' = [call EXCEPT ![c] = [at |-> "asked", key |-> k, src |-> OwnerOf(k)]]
              /\ UNCHANGED <<upstream, listing, store, told>>

First(k) == <<"first", k>>
Text(k, x) == <<"text", k, x>>

\* What is already in the store is left as it is.
Persisted_Text(k, x) == [store EXCEPT ![Text(k, x)] = x]
Persisted(k, x) == [h \in Handle |->
    IF h \in {First(k), Text(k, x)} /\ store[h] = None THEN x ELSE store[h]]

\* The envelope of a tool call names both artifacts, the others the first one.
Refs(k, x) == {[handle |-> h, content |-> x] :
                  h \in {First(k)} \cup (IF k \in Tool THEN {Text(k, x)} ELSE {})}

Answer(c) == /\ call[c].at = "asked"
             /\ \E x \in Content :
                  /\ store' = Persisted(call[c].key, x)
                  /\ told' = told \cup Refs(call[c].key, x)
             /\ call' = [call EXCEPT ![c] = Done]
             /\ UNCHANGED <<upstream, listing, calls>>

\* The upstream fails: a GatewayError, and nothing is stored.
Fail(c) == /\ call[c].at = "asked"
           /\ call' = [call EXCEPT ![c] = Done]
           /\ UNCHANGED <<upstream, listing, calls, store, told>>

\* A source exports something else from now on.
Change(s) == /\ changes < MaxChanges
             /\ changes' = changes + 1
             /\ \E keys \in SUBSET Key : exports' = [exports EXCEPT ![s] = keys]
             /\ UNCHANGED <<listing, tools>>

Next == \/ \E r \in Refresher : Begin(r) \/ Hear(r) \/ Miss(r)
        \/ \E c \in Client : Answer(c) \/ Fail(c) \/ \E k \in Key \cup Tool : Read(c, k)
        \/ \E s \in Source : Change(s)

Spec == Init /\ [][Next]_vars

\* URIs, prompt names and tools have ids of their own.
GatewayConstants == /\ Sources \in Nat \ {0} /\ MaxChanges \in Nat /\ MaxCalls \in Nat
                    /\ Uri \cap Prompt = {} /\ Tool \cap Key = {}
                    /\ None \notin Content \cup Key \cup Tool

--------------------------------------------------------------------------------
TypeOK == /\ exports \in [Source -> SUBSET Key] /\ changes \in 0..MaxChanges
          /\ owner \in [Key -> 0..Sources]
          /\ refresh \in [Refresher -> [at : {"idle", "resources", "prompts"}, src : 0..Sources,
                                        out : SUBSET Key, alone : BOOLEAN]]
          /\ \A r \in Refresher : refresh[r].at # "idle" => refresh[r].src \in Source
          /\ catalog \subseteq Key
          /\ call \in [Client -> [at : {"idle", "asked"}, key : Key \cup Tool \cup {None},
                                  src : 0..Sources]]
          /\ \A c \in Client : call[c].at = "asked" => call[c].key # None
          /\ calls \in 0..MaxCalls
          /\ store \in [Handle -> Content \cup {None}]
          /\ told \subseteq [handle : Handle, content : Content]
          /\ settled \in BOOLEAN
          /\ said \in [Source -> SUBSET Key] /\ listed \in [Source -> SUBSET Key]

\* Once a listing that had the indices to itself is complete, every registered
\* key has an owner, and that is the first source that listed it; no key that a
\* source listed is missing (MultiplexPrimitiveUpstream, its class comment).
Exporters(k) == {s \in Source : k \in said[s]}
ListingSettled ==
    settled => \A k \in Key : /\ k \in catalog <=> owner[k] # 0
                              /\ owner[k] # 0 <=> Exporters(k) # {}
                              /\ owner[k] # 0 => /\ owner[k] \in Exporters(k)
                                                 /\ \A s \in Exporters(k) : owner[k] <= s

\* Whatever refreshes do meanwhile, a read is sent to a source that has listed
\* what is read, and only what some source listed is registered (read_resource).
ReadsGoHome == /\ \A c \in Client : call[c].at = "asked" /\ call[c].key \in Key
                     => call[c].src \in Source /\ call[c].key \in listed[call[c].src]
               /\ \A k \in catalog : \E s \in Source : k \in listed[s]

\* Every reference given out opens, and what tool_view finds there was the answer
\* of some call to the same resource, prompt or tool (persist_result_artifacts).
Subject(h) == h[2]
RefsOpen == \A ref \in told : \E other \in told :
               /\ Subject(other.handle) = Subject(ref.handle)
               /\ store[ref.handle] = other.content

\* Calls are answered from the right place, and their answers can be looked up.
CallsHold == TypeOK /\ ReadsGoHome /\ RefsOpen

PrimitivesHold == ListingSettled /\ CallsHold

\* "Binaries are stored under their content-addressed handles": a reference opens
\* to the bytes it was given out for (persist_result_artifacts).
RefsTellTheirBytes == \A ref \in told : store[ref.handle] = ref.content

================================================================================
