-------------------------------- MODULE Messages --------------------------------
(***************************************************************************)
(* The message adapters (adapters/openai_messages.py, anthropic_messages.py,   *)
(* gemini_contents.py): an array of provider messages becomes items of the     *)
(* event log, which may be ingested, and items become messages again, all of    *)
(* them or those that somebody kept.                                        *)
(*                                                                         *)
(* A message has a role, a shape of content and blocks; OpenAI's tool_calls    *)
(* are blocks, and its tool message is one with a single result.  A block is a  *)
(* text, a call or a result, and a call is known by its id or, with Gemini,     *)
(* its name.  Reading goes block by block; what a block or a content says        *)
(* beside that is copied and left out here.                                  *)
(***************************************************************************)
EXTENDS Ingestion, SequencesExt

CONSTANTS Name,          \* ids of calls, or names of functions
          MaxSize        \* bound: the messages of an array and their items, together

VARIABLES provider, msgs,
          items,         \* what the messages have become
          open,          \* keys of the calls a result may answer, oldest first
          phase, log     \* log: the items ingested into the manager

vars == <<provider, msgs, items, open, phase, log>>

Provider == {"openai", "anthropic", "gemini"}
Blank == [type |-> "text", name |-> "blank"]
Block == [type : {"text"}, name : {"blank", "words"}] \cup [type : {"call", "result"}, name : Name]

Opening == CASE provider = "openai" ->
                  [role : {"system", "user", "assistant", "tool"},
                   content : {"null", "words", "parts"}, blocks : {<<>>}]
             [] provider = "anthropic" ->
                  [role : {"user", "assistant"}, content : {"null", "string", "list"},
                   blocks : {<<>>}]
             [] provider = "gemini" ->
                  [role : {"user", "model", "function"}, content : {"list"}, blocks : {<<>>}]

Init == /\ provider \in Provider
        /\ msgs = <<>> /\ items = <<>> /\ open = <<>> /\ log = <<>>
        /\ phase = "reading"

--------------------------------------------------------------------------------
(* Reading *)

N == Len(msgs)
\* A list of parts is joined to a string and nothing to an empty one.
Flat(content) == CASE content = "null" -> "blank" [] content = "parts" -> "joined"
                   [] OTHER -> content

\* _from_assistant keeps the shape in metadata, _make_turn and _from_tool do not.
Kept(m) == IF m.role = "assistant" THEN m.content ELSE Flat(m.content)
TurnKind(role) == CASE role = "system" -> "policy" [] role = "user" -> "user_turn"
                    [] OTHER -> "agent_msg"
Turn(m) == [kind |-> TurnKind(m.role), key |-> <<"turn", N + 1, 0>>, parent |-> <<>>,
            msg |-> N + 1, at |-> 0, role |-> m.role, content |-> Kept(m), block |-> Blank]
BlockItem(kind, key, parent, block) ==
    [kind |-> kind, key |-> key, parent |-> parent, msg |-> N, at |-> Len(msgs[N].blocks) + 1,
     role |-> msgs[N].role, content |-> Kept(msgs[N]), block |-> block]

\* Whether a message may have ended: a tool message has its result, a shorthand its text.
Whole == N > 0 => (msgs[N].role = "tool" \/ msgs[N].content = "string" => msgs[N].blocks # <<>>)
Roomy == N + Len(items) < MaxSize

NewMessage(m) == /\ phase = "reading" /\ Whole /\ Roomy
                 /\ msgs' = Append(msgs, m)
                 /\ IF provider = "openai" /\ m.role # "tool"
                    THEN items' = Append(items, Turn(m))
                    ELSE UNCHANGED items
                 /\ UNCHANGED <<provider, open, phase, log>>

\* The schema of the message has a place for the block.
Fits(b) == LET m == msgs[N] IN
    \/ provider = "openai" /\ m.role = "assistant" /\ b.type = "call"
    \/ provider = "openai" /\ m.role = "tool" /\ b.type = "result" /\ m.blocks = <<>>
    \/ m.content = "string" /\ b.type = "text" /\ m.blocks = <<>>
    \/ m.content = "list"

RoleRight(b) == LET role == msgs[N].role IN
    \/ b.type = "text" \/ provider = "openai"
    \/ (b.type = "call" /\ role \in {"assistant", "model"})
    \/ (b.type = "result" /\ role = IF provider = "gemini" THEN "function" ELSE "user")

\* Gemini has no ids: a call is known by its name and its place.
CallKey(b) == IF provider = "gemini" THEN <<"call", b.name, N, Len(msgs[N].blocks) + 1>>
              ELSE <<"call", b.name>>
Answerable(b) == {i \in 1..Len(open) : open[i][2] = b.name}
Matched(b) == {i \in Answerable(b) : \A j \in Answerable(b) : i <= j}

Rejected(b) == ~RoleRight(b) \/ (b.type = "result" /\ Answerable(b) = {})

ReadBlock(b) ==
    /\ phase = "reading" /\ N > 0 /\ Fits(b) /\ ~Rejected(b) /\ Roomy
    /\ msgs' = [msgs EXCEPT ![N].blocks = Append(@, b)]
    /\ \/ /\ b.type = "text"
          /\ items' = Append(items, BlockItem(TurnKind(msgs[N].role),
                               <<"turn", N, Len(msgs[N].blocks) + 1>>, <<>>, b))
          /\ UNCHANGED open
       \/ /\ b.type = "call"
          /\ items' = Append(items, BlockItem("tool_call", CallKey(b), <<>>, b))
          /\ open' = Append(open, CallKey(b))
       \/ /\ b.type = "result"
          /\ \E i \in Matched(b) :
               /\ items' = Append(items, BlockItem("tool_result", <<"result", open[i]>>, open[i], b))
               /\ open' = IF provider = "gemini" THEN RemoveAt(open, i) ELSE open
    /\ UNCHANGED <<provider, phase, log>>

\* CatalogError: what was read is gone, and nothing is ingested.
Reject(b) == /\ phase = "reading" /\ N > 0 /\ Fits(b) /\ Rejected(b)
             /\ phase' = "rejected"
             /\ items' = <<>>
             /\ UNCHANGED <<provider, msgs, open, log>>

Finish == /\ phase = "reading" /\ Whole
          /\ phase' = "read"
          /\ log' = Ingested(items)
          /\ UNCHANGED <<provider, msgs, items, open>>

Next == \/ \E m \in Opening : NewMessage(m)
        \/ \E b \in Block : ReadBlock(b) \/ Reject(b)
        \/ Finish

Spec == Init /\ [][Next]_vars

--------------------------------------------------------------------------------
(* Sending *)

\* _collect_assistant_tool_calls: the calls right behind a turn that came with it.
Behind_Any(list, h) == {i \in (h + 1)..Len(list) :
                          \A j \in (h + 1)..i : list[j].kind = "tool_call"}
Behind(list, h) == {i \in (h + 1)..Len(list) :
    \A j \in (h + 1)..i : list[j].kind = "tool_call" /\ list[j].msg = list[h].msg}

OpenAI(list) ==
    LET turns == {h \in 1..Len(list) : list[h].kind = "agent_msg"}
        taken == UNION {Behind(list, h) : h \in turns}
        sent(h) == [role |-> IF list[h].kind = "tool_call" THEN "assistant" ELSE list[h].role,
                    content |-> IF list[h].kind = "tool_call" THEN "null" ELSE list[h].content,
                    blocks |-> CASE h \in turns -> [k \in 1..Cardinality(Behind(list, h)) |->
                                                       list[h + k].block]
                                 [] list[h].kind \in {"tool_call", "tool_result"} ->
                                      <<list[h].block>>
                                 [] OTHER -> <<>>]
        heads == InOrder((1..Len(list)) \ taken)
    IN [k \in 1..Len(heads) |-> sent(heads[k])]

\* The items of a message, by their place in it.
Group(list, g) == LET own == {i \in 1..Len(list) : list[i].msg = g}
                  IN Ordered(own, {p \in own \X own : list[p[1]].at < list[p[2]].at})
Grouped(list) ==
    LET groups == InOrder({list[i].msg : i \in 1..Len(list)})
        sent(group) ==
            [role |-> list[group[1]].role,
             content |-> IF list[group[1]].content = "string" THEN "string" ELSE "list",
             blocks |-> [k \in 1..Len(group) |-> list[group[k]].block]]
    IN [k \in 1..Len(groups) |-> sent(Group(list, groups[k]))]

\* What is sent, or nothing if a message would have nothing to say (CatalogError).
Sent(list) ==
    LET messages == IF provider = "openai" THEN OpenAI(list) ELSE Grouped(list)
        empty(m) == provider # "openai" /\ \A k \in 1..Len(m.blocks) : m.blocks[k] = Blank
    IN IF \E k \in 1..Len(messages) : empty(messages[k]) THEN {} ELSE {messages}

--------------------------------------------------------------------------------
(* Properties *)

\* Where items come from, in the order of the conversation: a turn is the place 0 of
\* its message.
First(g) == IF provider = "openai" /\ msgs[g].role # "tool" THEN 0 ELSE 1
Here == UNION {{g} \X (First(g)..Len(msgs[g].blocks)) : g \in 1..N}
Earlier(x, y) == x[1] < y[1] \/ (x[1] = y[1] /\ x[2] < y[2])
Following(S) == Ordered(S, {p \in S \X S : Earlier(p[1], p[2])})

\* Where a message begins when only the places in kept are left: with OpenAI at a turn
\* and at what has none, else at the first block of every message.
Heads(kept) == {x \in kept : IF provider = "openai" THEN x[2] = 0 \/ <<x[1], 0>> \notin kept
                             ELSE \A y \in kept : y[1] = x[1] => x[2] <= y[2]}

\* What is left of the message that begins at x: a call that lost its turn goes alone,
\* contents of other roles than the assistant's are text.
Left(x, kept) ==
    LET m == msgs[x[1]]
        blocks == InOrder({b \in 1..Len(m.blocks) : <<x[1], b>> \in kept})
        cut == [k \in 1..Len(blocks) |-> m.blocks[blocks[k]]]
    IN IF provider # "openai" THEN [m EXCEPT !.blocks = cut]
       ELSE IF x[2] > 0 /\ m.role = "assistant"
            THEN [role |-> "assistant", content |-> "null", blocks |-> <<m.blocks[x[2]]>>]
            ELSE [m EXCEPT !.blocks = cut,
                           !.content = IF m.role = "assistant" THEN @ ELSE Flat(@)]

\* Whatever items are kept, they go back into the messages they came from, each block
\* in its place and none lost or said twice; all of them give the conversation back.
\* Anthropic's and Gemini's may come in any order (to_openai_messages,
\* to_anthropic_messages, to_gemini_contents).
SentBack ==
    LET places == Following(Here) IN
    \A S \in SUBSET (1..Len(items)) :
        LET picked == InOrder(S)
            list == [k \in 1..Len(picked) |-> items[picked[k]]]
            kept == {places[i] : i \in S}
            heads == Following(Heads(kept))
            left == [k \in 1..Len(heads) |-> Left(heads[k], kept)]
            mute(m) == provider # "openai" /\ \A k \in 1..Len(m.blocks) : m.blocks[k] = Blank
        IN /\ Sent(list) = IF \E k \in 1..Len(left) : mute(left[k]) THEN {} ELSE {left}
           /\ provider # "openai" => Sent(Reverse(list)) = Sent(list)

\* A result answers an earlier call of its name; calls without an id are answered once,
\* the oldest first (from_gemini_contents, from_openai_messages).
Answers(i) == {j \in 1..(i - 1) : items[j].kind = "tool_call" /\ items[j].key = items[i].parent
                                  /\ items[j].block.name = items[i].block.name}
Results == {i \in 1..Len(items) : items[i].kind = "tool_result"}
ThreadsHold ==
    \A i \in Results :
        /\ Answers(i) # {}
        /\ provider = "gemini" => \A j \in 1..i :
             /\ j \in Results \ {i} => items[j].parent # items[i].parent
             /\ j \in Answers(i) =>
                  \A older \in 1..(j - 1) : items[older].block = items[j].block =>
                      \E k \in Results : k < i /\ older \in Answers(k)

\* The log takes a conversation up to the first id it has had (ingest_into_manager).
LogHolds == phase = "read" =>
    /\ IsPrefix(log, items)
    /\ \A i, j \in 1..Len(log) : i # j => log[i].key # log[j].key
    /\ log = items \/ \E i \in 1..Len(log) : log[i].key = items[Len(log) + 1].key

TurnsReturn == phase # "reading" => SentBack /\ ThreadsHold /\ LogHolds
================================================================================
