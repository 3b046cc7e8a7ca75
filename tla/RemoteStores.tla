------------------------------ MODULE RemoteStores ------------------------------
(***************************************************************************)
(* Tool results ingested through stores that several processes share: the    *)
(* artifact in S3 (s3_artifacts.py) or Redis (redis_artifacts.py), then the   *)
(* item in the Redis event log (redis_event_log.py).  Each request is atomic  *)
(* at the server; a call makes several of them.  A client dies or gives up    *)
(* between any two, and the client library sends a request again when its    *)
(* reply is lost.  A call left behind by a timeout is a client of its own.    *)
(*                                                                         *)
(* An item and its artifact share an id: artifact_ref is artifact:{id}.      *)
(***************************************************************************)
EXTENDS Integers, Sequences, FiniteSets

CONSTANTS Client, Id, Content, None,
          MaxOps,       \* bound: calls in a behaviour
          MaxFails,     \* bound: clients that die in a call
          MaxResends    \* bound: requests whose reply is lost

ASSUME NoneAssumption == None \notin Content \cup Id
ASSUME BoundAssumption == MaxOps \in Nat /\ MaxFails \in Nat /\ MaxResends \in Nat

VARIABLES backend,   \* what keeps the artifacts
          data,      \* id -> the bytes under its data key, or None
          meta,      \* id -> the bytes its metadata object describes, or None
          items,     \* the hash events:items: id -> what the item tells of, or None
          order,     \* the list events:order
          client,    \* client -> the request it is about to send
          ops, fails, resends,
          torn,      \* history: ids whose two objects an interrupted or overlapping call wrote
          burned,    \* history: ids claimed by an append that never listed them
          echoed,    \* history: ids whose RPUSH was sent twice
          gone       \* history: ids ever deleted or expired

artifacts == <<data, meta>>
log == <<items, order>>
bounds == <<ops, fails, resends>>
history == <<torn, burned, echoed, gone>>
vars == <<backend, artifacts, log, client, bounds, history>>

Put == {"putData", "putMeta"}
Del == {"head", "delData", "delMeta"}
Appends == {"claim", "push"}
Idle == [at |-> "idle", id |-> None, content |-> None, sent |-> FALSE]

\* What the reads return: exists and get, list_refs, all with its derivatives.
Exists(i) == data[i] # None
Listing == {i \in Id : meta[i] # None}
Listed == {order[k] : k \in 1..Len(order)}

Init == /\ backend \in {"s3", "redis"}
        /\ data = [i \in Id |-> None]
        /\ meta = [i \in Id |-> None]
        /\ items = [i \in Id |-> None]
        /\ order = <<>>
        /\ client = [c \in Client |-> Idle]
        /\ ops = 0 /\ fails = 0 /\ resends = 0
        /\ torn = {} /\ burned = {} /\ echoed = {} /\ gone = {}

--------------------------------------------------------------------------------
(* A request: At(c, p) is its guard.  Goes(c, q) takes the reply to the next   *)
(* request; Lost(c) loses the reply after the request took effect.            *)

At(c, p) == client[c].at = p
Goes(c, q) == /\ client' = [client EXCEPT ![c] = IF q = "idle" THEN Idle
                                                 ELSE [client[c] EXCEPT !.at = q, !.sent = FALSE]]
              /\ UNCHANGED bounds
Lost(c) == /\ resends < MaxResends
           /\ client' = [client EXCEPT ![c].sent = TRUE]
           /\ resends' = resends + 1
           /\ UNCHANGED <<ops, fails>>

\* Client c has written one of the two objects of i and not the other.
Halfway(c, i) == /\ client[c].id = i
                 /\ \/ client[c].at \in {"putMeta", "delMeta"}
                    \/ client[c].at \in {"putData", "delData"} /\ client[c].sent

\* Client c has claimed i and not listed it, for all it knows.
Appending(c, i) == client[c].id = i /\ (At(c, "push") \/ (At(c, "claim") /\ client[c].sent))

\* The first write of a call to i: it mends i when nobody else is halfway.
Opens(c, i) == torn' = IF \E d \in Client \ {c} : Halfway(d, i) THEN torn \cup {i}
                       ELSE torn \ {i}

Call(c, p, i, b) == /\ At(c, "idle") /\ ops < MaxOps
                    /\ client' = [client EXCEPT ![c] = [at |-> p, id |-> i, content |-> b, sent |-> FALSE]]
                    /\ ops' = ops + 1
                    /\ UNCHANGED <<backend, artifacts, log, fails, resends, history>>

\* ingest_tool_result stores the artifact, then appends the item.
Ingest(c, i, b) == Call(c, "putData", i, b)
Delete(c, i) == Call(c, "head", i, None)

\* The data object; one transaction writes both keys in Redis.
PutData(c) ==
    /\ At(c, "putData")
    /\ LET i == client[c].id
           b == client[c].content
       IN /\ data' = [data EXCEPT ![i] = b]
          /\ IF backend = "redis"
             THEN meta' = [meta EXCEPT ![i] = b] /\ UNCHANGED torn
             ELSE Opens(c, i) /\ UNCHANGED meta
    /\ Goes(c, IF backend = "redis" THEN "claim" ELSE "putMeta") \/ Lost(c)
    /\ UNCHANGED <<backend, log, burned, echoed, gone>>

PutMeta_KeepsFirst(c) ==
    /\ At(c, "putMeta")
    /\ meta' = [meta EXCEPT ![client[c].id] = IF @ = None THEN client[c].content ELSE @]
    /\ Goes(c, "claim") \/ Lost(c)
    /\ UNCHANGED <<backend, data, log, history>>
PutMeta(c) == /\ At(c, "putMeta")
              /\ meta' = [meta EXCEPT ![client[c].id] = client[c].content]
              /\ Goes(c, "claim") \/ Lost(c)
              /\ UNCHANGED <<backend, data, log, history>>

\* HSETNX: the first append of an id claims it.  Sent again after a lost reply, it
\* finds its own claim and append raises DuplicateItemError.
Claim_IgnoresReply(c) ==
    /\ At(c, "claim")
    /\ items' = [items EXCEPT ![client[c].id] = IF @ = None THEN client[c].content ELSE @]
    /\ Goes(c, "push") \/ Lost(c)
    /\ UNCHANGED <<backend, artifacts, order, history>>
Claim(c) ==
    /\ At(c, "claim")
    /\ LET i == client[c].id
       IN IF items[i] = None
          THEN /\ items' = [items EXCEPT ![i] = client[c].content]
               /\ Goes(c, "push") \/ Lost(c)
               /\ UNCHANGED burned
          ELSE /\ Goes(c, "idle")
               /\ burned' = IF client[c].sent THEN burned \cup {i} ELSE burned
               /\ UNCHANGED items
    /\ UNCHANGED <<backend, artifacts, order, torn, echoed, gone>>

\* RPUSH
Push_Front(c) ==
    /\ At(c, "push")
    /\ order' = <<client[c].id>> \o order
    /\ echoed' = IF client[c].sent THEN echoed \cup {client[c].id} ELSE echoed
    /\ Goes(c, "idle") \/ Lost(c)
    /\ UNCHANGED <<backend, artifacts, items, torn, burned, gone>>
Push(c) == /\ At(c, "push")
           /\ order' = Append(order, client[c].id)
           /\ echoed' = IF client[c].sent THEN echoed \cup {client[c].id} ELSE echoed
           /\ Goes(c, "idle") \/ Lost(c)
           /\ UNCHANGED <<backend, artifacts, items, torn, burned, gone>>

--------------------------------------------------------------------------------

\* S3 asks for the data object before it deletes the two; Redis deletes whatever
\* it has of both keys in one command.
HeadData(c) == /\ At(c, "head")
               /\ backend = "s3"
               /\ Goes(c, IF Exists(client[c].id) THEN "delData" ELSE "idle")
               /\ UNCHANGED <<backend, artifacts, log, history>>

DeleteBoth(c) ==
    /\ At(c, "head")
    /\ backend = "redis"
    /\ LET i == client[c].id
       IN /\ data' = [data EXCEPT ![i] = None]
          /\ meta' = [meta EXCEPT ![i] = None]
          /\ gone' = gone \cup {i}
    /\ Goes(c, "idle")
    /\ UNCHANGED <<backend, log, torn, burned, echoed>>

DeleteData(c) == /\ At(c, "delData")
                 /\ data' = [data EXCEPT ![client[c].id] = None]
                 /\ gone' = gone \cup {client[c].id}
                 /\ Opens(c, client[c].id)
                 /\ Goes(c, "delMeta") \/ Lost(c)
                 /\ UNCHANGED <<backend, meta, log, burned, echoed>>

DeleteMeta(c) == /\ At(c, "delMeta")
                 /\ meta' = [meta EXCEPT ![client[c].id] = None]
                 /\ Goes(c, "idle") \/ Lost(c)
                 /\ UNCHANGED <<backend, data, log, history>>

\* The two keys of a Redis artifact expire together.
Expire(i) == /\ backend = "redis" /\ Exists(i)
             /\ data' = [data EXCEPT ![i] = None]
             /\ meta' = [meta EXCEPT ![i] = None]
             /\ gone' = gone \cup {i}
             /\ UNCHANGED <<backend, log, client, bounds, torn, burned, echoed>>

\* The client dies, or its request fails for good and the call raises.
Fail(c) ==
    /\ ~At(c, "idle") /\ fails < MaxFails
    /\ LET i == client[c].id
       IN /\ torn' = IF Halfway(c, i) /\ backend = "s3" THEN torn \cup {i} ELSE torn
          /\ burned' = IF Appending(c, i) /\ i \notin Listed THEN burned \cup {i} ELSE burned
    /\ client' = [client EXCEPT ![c] = Idle]
    /\ fails' = fails + 1
    /\ UNCHANGED <<backend, artifacts, log, ops, resends, echoed, gone>>

Step(c) == \/ \E i \in Id : Delete(c, i) \/ \E b \in Content : Ingest(c, i, b)
           \/ PutData(c) \/ PutMeta(c) \/ Claim(c) \/ Push(c)
           \/ HeadData(c) \/ DeleteBoth(c) \/ DeleteData(c) \/ DeleteMeta(c)
           \/ Fail(c)

Next == (\E c \in Client : Step(c)) \/ (\E i \in Id : Expire(i))

Spec == Init /\ [][Next]_vars

--------------------------------------------------------------------------------
Request == [at : Put \cup Del \cup Appends \cup {"idle"}, id : Id \cup {None},
            content : Content \cup {None}, sent : BOOLEAN]

TypeOK == /\ backend \in {"s3", "redis"}
          /\ data \in [Id -> Content \cup {None}]
          /\ meta \in [Id -> Content \cup {None}]
          /\ items \in [Id -> Content \cup {None}]
          /\ order \in Seq(Id)
          /\ client \in [Client -> Request]
          /\ ops \in Nat /\ fails \in Nat /\ resends \in Nat
          /\ torn \subseteq Id /\ burned \subseteq Id /\ echoed \subseteq Id /\ gone \subseteq Id

\* The two objects of an artifact describe the same bytes, or neither is there,
\* once every call on it has ended, unless two calls overlapped or one was cut
\* short; the next put or delete that is left alone mends it.  In Redis they
\* always do (put and delete of both stores).
PairedAtRest == \A i \in Id :
    (backend = "redis" \/ (i \notin torn /\ \A c \in Client : ~Halfway(c, i))) => data[i] = meta[i]

\* An item in the log has its artifact, bytes and metadata, until somebody deletes
\* it or it expires: whatever fails, the item is appended last (ingest_tool_result).
ArtifactBehindItem == \A i \in Id : items[i] # None /\ i \notin gone => Exists(i) /\ i \in Listing

\* all returns an item once, unless the reply to its RPUSH was lost, and never
\* misses the payload of a listed id (RedisEventLog.append and all).
ListedOnce == /\ \A j, k \in 1..Len(order) : order[j] = order[k] => j = k \/ order[j] \in echoed
              /\ \A i \in Listed : items[i] # None

\* The items that get finds and all never returns, so that their append is refused
\* for ever, are exactly those whose append was cut short between its two requests
\* or lost the reply to the first (RedisEventLog.append).
BurnedExactly == \A i \in Id :
    (i \in burned) <=> (items[i] # None /\ i \notin Listed /\ \A c \in Client : ~Appending(c, i))

\* What the two requests of a put, and the order of the two stores, leave behind.
ArtifactsWhole == TypeOK /\ PairedAtRest /\ ArtifactBehindItem

\* What the two requests of an append leave behind.
LogWhole == ListedOnce /\ BurnedExactly

\* The log is append-only across clients, failures and resent requests: the order
\* only grows at its end and no payload is replaced (module comment of RedisEventLog).
AppendOnly == [][/\ \E s \in {SubSeq(order', Len(order) + 1, Len(order'))} : order' = order \o s
                 /\ \A i \in Id : items[i] # None => items'[i] = items[i]]_vars
================================================================================
