---------------------------- MODULE MCConversations ----------------------------
(***************************************************************************)
(* What a conversation goes through: the messages of a provider become items   *)
(* and messages again (Messages), the session of a framework becomes items      *)
(* (Sessions), and items are ingested and built into packs (ContextEngine).      *)
(* A behaviour picks one part and leaves the others alone.                     *)
(***************************************************************************)
EXTENDS MCContextEngine

CONSTANTS CallId,        \* ids of calls, and with Gemini the names of functions
          MessageRoom,   \* bound: the messages of an array and their items, together
          SessionRoom    \* bound, by framework: the entries of a session and their parts

VARIABLES part, provider, msgs, items, open, step, kept

messageVars == <<provider, msgs, items, open, step, kept>>
allVars == <<part, vars, messageVars>>

Adapters == INSTANCE Messages WITH Name <- CallId, MaxSize <- MessageRoom, phase <- step,
                                   log <- kept
Decoders == INSTANCE Sessions WITH Name <- CallId, MaxSize <- SessionRoom, framework <- provider,
                                   session <- msgs, phase <- step, log <- kept

InitParts == \/ part = "engine" /\ Init /\ Adapters!Init /\ provider = "openai"
             \/ part = "messages" /\ Init /\ mode = Plain /\ Adapters!Init
             \/ part = "sessions" /\ Init /\ mode = Plain /\ Decoders!Init /\ open = <<>>

\* A conversation ends, and so do the calls of the engine.
NextPart == \/ part = "engine" /\ Next /\ UNCHANGED <<part, messageVars>>
            \/ part = "messages" /\ Adapters!Next /\ UNCHANGED <<part, vars>>
            \/ part = "sessions" /\ Decoders!Next /\ UNCHANGED <<part, vars, open>>

SpecParts == InitParts /\ [][NextPart]_allVars

\* The sessions of some frameworks have entries of more shapes than those of others.
Rooms == [f \in {"google_adk", "agent_framework"} |-> 4]
           @@ [f \in {"openai_agents", "agno"} |-> 6]
           @@ [f \in {"pydantic_ai", "smolagents"} |-> 5]

--------------------------------------------------------------------------------
\* Items go back into the messages they came from, answers keep their calls and the
\* log takes a conversation up to a repeated id (Messages, Sessions).
TurnsReturn == /\ part = "messages" => Adapters!TurnsReturn
               /\ part = "sessions" => Decoders!SessionsRead
================================================================================
