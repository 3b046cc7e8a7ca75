-------------------------------- MODULE Sessions --------------------------------
(***************************************************************************)
(* The session decoders of the agent frameworks (adapters/                      *)
(* _pydantic_ai_messages.py, _openai_agents_run.py, agno.py, smolagents.py,      *)
(* _google_adk_session.py, _agent_framework_thread.py): the record of a run      *)
(* becomes items of the event log, and with Pydantic AI messages again.         *)
(*                                                                         *)
(* A session is a sequence of entries (a message, an event, a step, a run item), *)
(* an entry a role and its parts, and a part what becomes one item or none.  A   *)
(* part has the id of its call, "" where the record has none, and a content:     *)
(* words, nothing to read, or data that is no string.  Names of tools, arguments *)
(* and the coercion of live objects into dictionaries are left out.             *)
(***************************************************************************)
EXTENDS Ingestion, SequencesExt

CONSTANTS Name,          \* ids of calls
          MaxSize        \* bound, by framework: the entries of a session and their parts

VARIABLES framework, session,
          items,         \* what the parts have become; at is a history
          phase, log     \* log: the items ingested into the manager

vars == <<framework, session, items, phase, log>>

Framework == {"pydantic_ai", "openai_agents", "agno", "smolagents",
              "google_adk", "agent_framework"}
Strict == {"pydantic_ai", "agno"}
Lenient == {"openai_agents", "google_adk", "agent_framework"}

Role == CASE framework = "pydantic_ai" -> {"request", "response", "unknown"}
          [] framework = "agno" -> {"system", "user", "assistant", "tool", "unknown"}
          [] framework = "openai_agents" -> {"item"}
          [] framework = "smolagents" -> {"task", "planning", "final", "action"}
          [] OTHER -> {"user", "model"}

Part == [type : {"text", "reasoning"}, name : {""}, content : {"words", "blank"}]
          \cup [type : {"user"}, name : {""}, content : {"words", "data"}]
          \cup [type : {"system", "handoff", "observation", "control", "unknown"},
                name : {""}, content : {"words"}]
          \cup [type : {"call", "return"}, name : Name \cup {""}, content : {"data"}]
          \cup [type : {"retry"}, name : Name, content : {"words"}]

Init == /\ framework \in Framework
        /\ session = <<>> /\ items = <<>> /\ log = <<>>
        /\ phase = "reading"

--------------------------------------------------------------------------------
(* Reading *)

N == Len(session)
Here == Len(session[N].parts) + 1
Roomy == FoldLeft(LAMBDA size, entry : size + 1 + Len(entry.parts), 0, session)
           < MaxSize[framework]

\* What the parts of an entry may be, and the entries that are one part.
Types(role) ==
    CASE role = "request" -> {"user", "system", "return", "retry", "unknown"}
      [] role = "response" -> {"text", "call", "unknown"}
      [] role = "assistant" -> {"text", "call"}
      [] role = "tool" -> {"return"}
      [] role = "item" ->
           {"text", "call", "return", "handoff", "reasoning", "control", "unknown"}
      [] role = "action" -> {"reasoning", "call", "observation"}
      [] role \in {"planning", "final"} -> {"text"}
      [] role \in {"system", "user", "task"} /\ framework \in {"agno", "smolagents"} ->
           {IF role = "system" THEN "system" ELSE "user"}
      [] role = "unknown" -> {}
      [] OTHER -> {"text", "call", "return", "control"}
OnePart(role) == \/ framework = "agno" /\ role \in {"system", "user", "tool"}
                 \/ role \in {"item", "task", "planning", "final"}
Whole == N > 0 => (OnePart(session[N].role) => session[N].parts # <<>>)

\* A turn of an assistant comes before its calls, an observation after them.
Placed(p) == LET entry == session[N] IN
    /\ p.type \in Types(entry.role)
    /\ OnePart(entry.role) \/ (entry.role = "assistant" /\ p.type = "text")
         \/ p.type = "reasoning" => entry.parts = <<>>
    /\ \A k \in 1..Len(entry.parts) : entry.parts[k].type # "observation"

Calls == {i \in 1..Len(items) : items[i].kind = "tool_call"}
Raises(p) == \/ p.type = "unknown"
             \/ /\ framework \in Strict
                /\ \/ p.type \in {"call", "return"} /\ p.name = ""
                   \/ p.type = "return" /\ \A i \in Calls : items[i].name # p.name

\* Nothing to ingest: control items, and text that is empty or not there.
Silent(p) == \/ p.type = "control"
             \/ p.content = "blank" /\ p.type = "reasoning"
             \/ /\ p.content = "blank" /\ p.type = "text"
                /\ framework \in {"agno", "google_adk", "agent_framework"}

Kind(p) == CASE p.type = "call" -> "tool_call"
             [] p.type \in {"return", "observation"} -> "tool_result"
             [] \/ p.type \in {"user", "retry"}
                \/ p.type = "text" /\ session[N].role = "user" -> "user_turn"
             [] p.type = "system" -> "policy"
             [] p.type = "text" /\ session[N].role = "planning" -> "plan_state"
             [] OTHER -> "agent_msg"

\* A call without an id is known by its place, and so is its result by its own.
Id(p) == IF p.name = "" THEN <<"", N, Here>> ELSE <<p.name, 0, 0>>
Key(p) == CASE p.type = "call" -> <<"call">> \o Id(p)
            [] p.type = "return" -> <<"result">> \o Id(p)
            [] p.type = "text" /\ framework \in {"google_adk", "agent_framework"} ->
                 <<"text", "", N, Here>>
            [] OTHER -> <<p.type, "", N, 0>>

\* _decode_action_step: an observation is of the last call of its step.
Owner_First == LET own == {i \in Calls : items[i].msg = N}
               IN IF own = {} THEN <<>> ELSE items[CHOOSE i \in own : \A j \in own : i <= j].key
Owner == LET own == {i \in Calls : items[i].msg = N}
         IN IF own = {} THEN <<>> ELSE items[Max(own)].key
Parent(p) == CASE p.type = "return" -> <<"call">> \o Id(p)
               [] p.type = "observation" -> Owner
               [] OTHER -> <<>>

\* Arguments are decoded again when they are sent back, other data is not.
Text(p) == IF p.type = "call" \/ p.content # "data" THEN p.content ELSE "words"

NewEntry(role) == /\ phase = "reading" /\ Whole /\ Roomy /\ role # "unknown"
                  /\ session' = Append(session, [role |-> role, parts |-> <<>>])
                  /\ UNCHANGED <<framework, items, phase, log>>

ReadPart(p) ==
    /\ phase = "reading" /\ N > 0 /\ Roomy /\ Placed(p) /\ ~Raises(p)
    /\ session' = [session EXCEPT ![N].parts = Append(@, p)]
    /\ items' = IF Silent(p) THEN items
                ELSE Append(items, [kind |-> Kind(p), key |-> Key(p), parent |-> Parent(p),
                                    name |-> p.name, text |-> Text(p), msg |-> N, at |-> Here])
    /\ UNCHANGED <<framework, phase, log>>

\* CatalogError: what was read is gone, and nothing is ingested.
Reject == /\ phase = "reading"
          /\ \/ "unknown" \in Role /\ Whole
             \/ N > 0 /\ \E p \in Part : Placed(p) /\ Raises(p)
          /\ phase' = "rejected"
          /\ items' = <<>>
          /\ UNCHANGED <<framework, session, log>>

Finish == /\ phase = "reading" /\ Whole
          /\ phase' = "read"
          /\ log' = Ingested(items)
          /\ UNCHANGED <<framework, session, items>>

Next == \/ \E role \in Role : NewEntry(role)
        \/ \E p \in Part : ReadPart(p)
        \/ Reject \/ Finish

Spec == Init /\ [][Next]_vars

--------------------------------------------------------------------------------
(* Sending *)

\* _encode_request_part and _encode_response_part: a retry has no call any more.
Sent(item) ==
    [type |-> CASE item.kind = "user_turn" -> item.key[1]
                [] item.kind = "policy" -> "system"
                [] item.kind = "tool_result" -> "return"
                [] item.kind = "agent_msg" -> "text"
                [] item.kind = "tool_call" -> "call",
     name |-> IF item.kind \in {"tool_call", "tool_result"} THEN item.name ELSE "",
     content |-> item.text]

\* encode_messages: the items of a message in the order they are handed over.
Encoded(list) ==
    LET entries == InOrder({list[i].msg : i \in 1..Len(list)})
        own(g) == InOrder({i \in 1..Len(list) : list[i].msg = g})
        request == {"user_turn", "policy", "tool_result"}
        sent(group) == [role |-> IF list[group[1]].kind \in request THEN "request" ELSE "response",
                        parts |-> [k \in 1..Len(group) |-> Sent(list[group[k]])]]
    IN [n \in 1..Len(entries) |-> sent(own(entries[n]))]

--------------------------------------------------------------------------------
(* Properties *)

\* Whatever items are kept, they go back into the messages they came from, in their
\* places and complete but for data that was made a string and the call of a retry;
\* the order between messages is the session's, however the items come
\* (to_pydantic_ai_messages).
Mended(p) == [p EXCEPT !.content = IF p.type # "call" /\ @ = "data" THEN "words" ELSE @,
                       !.name = IF p.type = "retry" THEN "" ELSE @]
Left(g, kept) ==
    LET parts == session[g].parts
        places == InOrder({k \in 1..Len(parts) : <<g, k>> \in kept})
    IN [role |-> session[g].role,
        parts |-> [k \in 1..Len(places) |-> Mended(parts[places[k]])]]
SentBack ==
    framework = "pydantic_ai" => \A S \in SUBSET (1..Len(items)) :
        LET picked == InOrder(S)
            list == [k \in 1..Len(picked) |-> items[picked[k]]]
            kept == {<<items[i].msg, items[i].at>> : i \in S}
            heads == InOrder({items[i].msg : i \in S})
            sent == Encoded(list)
        IN /\ sent = [n \in 1..Len(heads) |-> Left(heads[n], kept)]
           /\ Encoded(Reverse(list)) =
                [n \in 1..Len(sent) |-> [sent[n] EXCEPT !.parts = Reverse(@)]]

\* A result answers a call: an earlier one where orphans are refused, the last of its
\* step with smolagents, and elsewhere whichever has its id, if the record gives one
\* (decode_messages, from_agno_session, _decode_action_step, _call_id_of).
Callers(i) == {j \in Calls : items[j].key = items[i].parent}
CallOf(n) == \E g \in 1..N : \E k \in 1..Len(session[g].parts) :
                session[g].parts[k].type = "call" /\ session[g].parts[k].name = n
CallsIn(g) == {k \in 1..Len(session[g].parts) : session[g].parts[k].type = "call"}
ThreadsHold ==
    \A i \in {i \in 1..Len(items) : items[i].kind = "tool_result"} :
        CASE framework \in Strict -> \E j \in Callers(i) : j < i
          [] framework = "smolagents" ->
               IF CallsIn(items[i].msg) = {} THEN items[i].parent = <<>>
               ELSE \E j \in Callers(i) : /\ items[j].msg = items[i].msg
                                          /\ items[j].at = Max(CallsIn(items[i].msg))
          [] OTHER -> Callers(i) # {} <=> items[i].name # "" /\ CallOf(items[i].name)

\* A session is ingested whole unless it repeats the id of a call or of a result, or a
\* Pydantic AI message has two parts of a kind, which share an id; then up to there.
Repeats(g, k, h, l) ==
    LET p == session[g].parts[k]
        q == session[h].parts[l]
    IN /\ <<g, k>> # <<h, l>> /\ p.type = q.type
       /\ IF p.type \in {"call", "return"} THEN p.name = q.name /\ p.name # ""
          ELSE framework = "pydantic_ai" /\ g = h
Repeated == \E g, h \in 1..N : \E k \in 1..Len(session[g].parts), l \in 1..Len(session[h].parts) :
               Repeats(g, k, h, l)
LogHolds == phase = "read" => /\ IsPrefix(log, items)
                              /\ log = items <=> ~Repeated

SessionsRead == phase # "reading" => SentBack /\ ThreadsHold /\ LogHolds
================================================================================
