-------------------------- MODULE SharedStoresProofs ---------------------------
(***************************************************************************)
(* What the stores keep that processes share or leave behind: artifacts and event *)
(* log (RemoteStores), and then the schema of a SQLite file (SqliteMigrations), *)
(* what consolidation makes of episodes (Consolidation), the facts kept by a *)
(* memory service (FactStores), the directories of compiled bundles (Bundles) and *)
(* the artifact files, of which JsonFileArtifactStoreProofs says it already.   *)
(*                                                                         *)
(* For any number of clients, ids, deaths and lost replies: an id is claimed once, *)
(* so one client at most is between its two requests of an append (LogInv); the two *)
(* objects of an artifact that no call overlapped differ only while one client is *)
(* halfway, and that client knows what the data object holds (PairInv).    *)
(***************************************************************************)
EXTENDS MCSharedStores, SequenceTheorems, FiniteSetTheorems, WellFoundedInduction, TLAPS

\* What a client carries from request to request.
Shape == \A c \in Client :
    /\ client[c].at # "idle" => client[c].id \in Id
    /\ client[c].at \in Put \cup Appends => client[c].content \in Content
    /\ client[c].at \in {"putMeta", "delData", "delMeta"} => backend = "s3"
    /\ client[c].at = "delMeta" => client[c].id \in gone

IInv == TypeOK /\ Shape

LEMMA InitIInv == Init => IInv
  BY DEF Init, IInv, TypeOK, Shape, Request, Idle, Put, Del, Appends

\* Client c after a reply that sends it on to q, or after a lost one.
Moved(c, q) == /\ \A d \in Client \ {c} : client'[d] = client[d]
               /\ \/ q = "idle" /\ client'[c] = Idle
                  \/ /\ q # "idle" /\ client'[c].at = q /\ client'[c].sent = FALSE
                     /\ client'[c].id = client[c].id /\ client'[c].content = client[c].content
                  \/ /\ client'[c].at = client[c].at /\ client'[c].sent = TRUE
                     /\ client'[c].id = client[c].id /\ client'[c].content = client[c].content

LEMMA Moves ==
    ASSUME IInv, NEW c \in Client, NEW q \in Put \cup Del \cup Appends \cup {"idle"},
           Goes(c, q) \/ Lost(c)
    PROVE  /\ client' \in [Client -> Request]
           /\ ops' \in Nat /\ fails' \in Nat /\ resends' \in Nat
           /\ Moved(c, q)
<1>1. client \in [Client -> Request] /\ ops \in Nat /\ fails \in Nat /\ resends \in Nat
  BY DEF IInv, TypeOK
<1>2. Idle \in Request
  BY DEF Idle, Request
<1>3. CASE Goes(c, q) /\ q = "idle"
  BY <1>1, <1>2, <1>3 DEF Goes, bounds, Moved
<1>4. CASE Goes(c, q) /\ q # "idle"
  <2>1. client' = [client EXCEPT ![c] = [client[c] EXCEPT !.at = q, !.sent = FALSE]]
    BY <1>4 DEF Goes
  <2>2. [client[c] EXCEPT !.at = q, !.sent = FALSE] \in Request
    BY <1>1 DEF Request
  <2> QED  BY <1>1, <1>4, <2>1, <2>2 DEF Goes, bounds, Moved, Request
<1>5. CASE Lost(c)
  <2>1. client' = [client EXCEPT ![c] = [client[c] EXCEPT !.sent = TRUE]]
    BY <1>5 DEF Lost
  <2>2. [client[c] EXCEPT !.sent = TRUE] \in Request
    BY <1>1 DEF Request
  <2>3. resends' = resends + 1 /\ UNCHANGED <<ops, fails>>
    BY <1>5 DEF Lost
  <2>4. client' \in [Client -> Request] /\ client'[c] = [client[c] EXCEPT !.sent = TRUE]
    BY <1>1, <2>1, <2>2
  <2>5. /\ client'[c].at = client[c].at /\ client'[c].sent = TRUE
        /\ client'[c].id = client[c].id /\ client'[c].content = client[c].content
    BY <1>1, <2>4 DEF Request
  <2> QED  BY <1>1, <2>1, <2>3, <2>4, <2>5 DEF Moved
<1> QED  BY <1>3, <1>4, <1>5

\* Where each request leads.
LEMMA Replies ==
    ASSUME IInv, NEW c \in Client
    PROVE  /\ PutData(c) => \E q \in {"putMeta", "claim"} :
                 (q = "putMeta" <=> backend = "s3") /\ Moved(c, q)
           /\ PutMeta(c) => Moved(c, "claim")
           /\ Claim(c) => IF items[client[c].id] = None THEN Moved(c, "push") ELSE Moved(c, "idle")
           /\ Claim(c) /\ items[client[c].id] # None => client'[c] = Idle
           /\ Push(c) => Moved(c, "idle")
           /\ HeadData(c) => \E q \in {"delData", "idle"} : Moved(c, q) /\ ~client'[c].sent
           /\ DeleteBoth(c) => Moved(c, "idle") /\ ~client'[c].sent
           /\ DeleteData(c) => Moved(c, "delMeta")
           /\ DeleteMeta(c) => Moved(c, "idle")
           /\ PutData(c) \/ PutMeta(c) \/ Claim(c) \/ Push(c) \/ HeadData(c) \/ DeleteBoth(c)
                \/ DeleteData(c) \/ DeleteMeta(c)
              => client' \in [Client -> Request] /\ ops' \in Nat /\ fails' \in Nat /\ resends' \in Nat
<1>0. client \in [Client -> Request] /\ backend \in {"s3", "redis"}
  BY DEF IInv, TypeOK
<1>1. {"putMeta", "claim", "push", "delData", "delMeta", "idle"} \subseteq Put \cup Del \cup Appends \cup {"idle"}
  BY DEF Put, Del, Appends
<1>2. PutData(c) => \E q \in {"putMeta", "claim"} :
         (q = "putMeta" <=> backend = "s3") /\ (Goes(c, q) \/ Lost(c))
  BY <1>0 DEF PutData
<1>3. PutMeta(c) => Goes(c, "claim") \/ Lost(c)
  BY DEF PutMeta
<1>4. Claim(c) => IF items[client[c].id] = None THEN Goes(c, "push") \/ Lost(c) ELSE Goes(c, "idle")
  BY DEF Claim
<1>5. Push(c) => Goes(c, "idle") \/ Lost(c)
  BY DEF Push
<1>6. HeadData(c) => \E q \in {"delData", "idle"} : Goes(c, q)
  BY DEF HeadData
<1>7. DeleteBoth(c) => Goes(c, "idle")
  BY DEF DeleteBoth
<1>8. DeleteData(c) => Goes(c, "delMeta") \/ Lost(c)
  BY DEF DeleteData
<1>9. DeleteMeta(c) => Goes(c, "idle") \/ Lost(c)
  BY DEF DeleteMeta
<1>10. \A q : Goes(c, q) => ~client'[c].sent
  BY <1>0 DEF Goes, Idle, Request
<1>11. Goes(c, "idle") => client'[c] = Idle
  BY <1>0 DEF Goes
<1> QED  BY <1>1, <1>2, <1>3, <1>4, <1>5, <1>6, <1>7, <1>8, <1>9, <1>10, <1>11, Moves

LEMMA CallInv ==
    ASSUME IInv, NEW c \in Client, NEW i \in Id, NEW b \in Content \cup {None}, NEW p,
           \/ p = "putData" /\ b \in Content
           \/ p = "head",
           Call(c, p, i, b)
    PROVE  IInv'
<1>1. TypeOK'
  BY DEF IInv, TypeOK, Call, artifacts, log, history, Request, Put, Del, Appends, Idle
<1>2. Shape'
  BY DEF IInv, TypeOK, Shape, Call, artifacts, log, history, Request, Put, Del, Appends, Idle
<1> QED  BY <1>1, <1>2 DEF IInv

\* The requests of an append and the second one of a put.
LEMMA ForwardInv ==
    ASSUME IInv, NEW c \in Client, PutData(c) \/ PutMeta(c) \/ Claim(c) \/ Push(c)
    PROVE  IInv'
<1>1. PICK q \in {"putMeta", "claim", "push", "idle"} : (q = "putMeta" => backend = "s3") /\ Moved(c, q)
  BY Replies
<1>2. client' \in [Client -> Request] /\ ops' \in Nat /\ fails' \in Nat /\ resends' \in Nat
  BY Replies
<1>3. client[c].id \in Id /\ client[c].content \in Content /\ client[c].at \in Put \cup Appends
  BY DEF IInv, Shape, PutData, PutMeta, Claim, Push, At, Put, Appends
<1>4. /\ backend' = backend /\ gone' = gone
      /\ data' \in [Id -> Content \cup {None}] /\ meta' \in [Id -> Content \cup {None}]
  BY <1>3 DEF IInv, TypeOK, PutData, PutMeta, Claim, Push, artifacts, history
<1>5. items' \in [Id -> Content \cup {None}] /\ order' \in Seq(Id)
  <2>1. order' = order \/ order' = Append(order, client[c].id)
    BY DEF PutData, PutMeta, Claim, Push, log
  <2>2. order' \in Seq(Id)
    BY <1>3, <2>1 DEF IInv, TypeOK
  <2> QED  BY <1>3, <2>2 DEF IInv, TypeOK, PutData, PutMeta, Claim, Push, log
<1>6. torn' \subseteq Id /\ burned' \subseteq Id /\ echoed' \subseteq Id
  BY <1>3 DEF IInv, TypeOK, PutData, PutMeta, Claim, Push, Opens, history
<1>7. TypeOK'
  BY <1>2, <1>4, <1>5, <1>6 DEF IInv, TypeOK
<1>8. Shape'
  BY <1>1, <1>3, <1>4 DEF IInv, Shape, Moved, Idle, Put, Appends
<1> QED  BY <1>7, <1>8 DEF IInv

\* The requests of a delete.
LEMMA DeleteInv ==
    ASSUME IInv, NEW c \in Client,
           HeadData(c) \/ DeleteBoth(c) \/ DeleteData(c) \/ DeleteMeta(c)
    PROVE  IInv'
<1>1. PICK q \in {"delData", "delMeta", "idle"} :
         /\ Moved(c, q)
         /\ q = "delData" => backend = "s3"
         /\ q = "delMeta" => DeleteData(c) /\ backend = "s3"
  BY Replies DEF HeadData, DeleteData, At, IInv, Shape
<1>2. client' \in [Client -> Request] /\ ops' \in Nat /\ fails' \in Nat /\ resends' \in Nat
  BY Replies
<1>3. client[c].id \in Id /\ client[c].at \in Del /\ (client[c].at = "delMeta" => DeleteMeta(c))
  BY DEF IInv, Shape, HeadData, DeleteBoth, DeleteData, DeleteMeta, At, Del
<1>4. /\ backend' = backend /\ UNCHANGED log /\ gone \subseteq gone'
      /\ DeleteData(c) => client[c].id \in gone'
      /\ data' \in [Id -> Content \cup {None}] /\ meta' \in [Id -> Content \cup {None}]
      /\ torn' \subseteq Id /\ gone' \subseteq Id /\ UNCHANGED <<burned, echoed>>
  BY <1>3 DEF IInv, TypeOK, HeadData, DeleteBoth, DeleteData, DeleteMeta, Opens, artifacts, history, log
<1>5. TypeOK'
  BY <1>2, <1>4 DEF IInv, TypeOK, log
<1>6. Shape'
  BY <1>1, <1>3, <1>4 DEF IInv, Shape, Moved, Idle, Put, Appends, Del
<1> QED  BY <1>5, <1>6 DEF IInv

LEMMA FailInv == ASSUME IInv, NEW c \in Client, Fail(c) PROVE IInv'
<1>1. client[c].id \in Id
  BY DEF Fail, At, IInv, Shape
<1>2. TypeOK'
  BY <1>1 DEF Fail, IInv, TypeOK, artifacts, log, Request, Idle, Put, Del, Appends
<1>3. Shape'
  BY DEF Fail, IInv, TypeOK, Shape, Idle, Put, Appends, artifacts
<1> QED  BY <1>2, <1>3 DEF IInv

LEMMA ExpireInv == ASSUME IInv, NEW i \in Id, Expire(i) PROVE IInv'
  BY DEF Expire, IInv, TypeOK, Shape, log, bounds

LEMMA NextIInv == IInv /\ [Next]_vars => IInv'
<1> SUFFICES ASSUME IInv, [Next]_vars PROVE IInv'
  OBVIOUS
<1>1. ASSUME NEW c \in Client, NEW i \in Id, Delete(c, i) PROVE IInv'
  BY <1>1, CallInv DEF Delete
<1>2. ASSUME NEW c \in Client, NEW i \in Id, NEW b \in Content, Ingest(c, i, b) PROVE IInv'
  BY <1>2, CallInv DEF Ingest
<1>3. ASSUME NEW c \in Client, Step(c) PROVE IInv'
  BY <1>1, <1>2, <1>3, ForwardInv, DeleteInv, FailInv DEF Step
<1>4. CASE UNCHANGED vars
  BY <1>4 DEF vars, artifacts, log, bounds, history, IInv, TypeOK, Shape
<1> QED  BY <1>3, <1>4, ExpireInv DEF Next

\* The types, and what a client carries, for any clients and faults.
THEOREM TypeCorrect == Spec => []IInv
  BY InitIInv, NextIInv, PTL DEF Spec

-----------------------------------------------------------------------------
(* Which steps touch the log. *)

LEMMA LogSteps ==
    ASSUME [Next]_vars
    PROVE  \/ UNCHANGED log
           \/ \E c \in Client : Claim(c) \/ Push(c)
  BY DEF Next, Step, Ingest, Delete, Call, PutData, PutMeta, HeadData, DeleteBoth, DeleteData,
         DeleteMeta, Fail, Expire, vars

LEMMA Grows ==
    ASSUME NEW s \in Seq(Id), NEW t \in Seq(Id)
    PROVE  s \o t = s \o SubSeq(s \o t, Len(s) + 1, Len(s \o t))
<1> DEFINE u == s \o t
<1>1. u \in Seq(Id) /\ Len(u) = Len(s) + Len(t) /\ Len(s) \in Nat /\ Len(t) \in Nat
  OBVIOUS
<1>2. SubSeq(u, Len(s) + 1, Len(u)) \in Seq(Id)
  OBVIOUS
<1>3. SubSeq(u, Len(s) + 1, Len(u)) = t
  OBVIOUS
<1> QED  BY <1>3

\* The order only grows at its end and no payload is replaced: the log is
\* append-only across clients, deaths and resent requests.
THEOREM LogIsAppendOnly == Spec => AppendOnly
<1> DEFINE A == /\ \E s \in {SubSeq(order', Len(order) + 1, Len(order'))} : order' = order \o s
                /\ \A i \in Id : items[i] # None => items'[i] = items[i]
<1>1. ASSUME IInv, [Next]_vars PROVE A
  <2>1. order \in Seq(Id)  BY <1>1 DEF IInv, TypeOK
  <2>2. CASE UNCHANGED log
    <3>1. order' = order \o <<>> /\ <<>> \in Seq(Id)  BY <2>1, <2>2 DEF log
    <3>2. order' = order \o SubSeq(order', Len(order) + 1, Len(order'))
      BY <2>1, <3>1, Grows
    <3> QED  BY <2>2, <3>2 DEF log
  <2>3. ASSUME NEW c \in Client, Claim(c) PROVE A
    <3>1. order' = order \o <<>> /\ <<>> \in Seq(Id)  BY <2>1, <2>3 DEF Claim
    <3>2. order' = order \o SubSeq(order', Len(order) + 1, Len(order'))
      BY <2>1, <3>1, Grows
    <3>3. \A i \in Id : items[i] # None => items'[i] = items[i]
      BY <1>1, <2>3 DEF Claim, IInv, TypeOK
    <3> QED  BY <3>2, <3>3
  <2>4. ASSUME NEW c \in Client, Push(c) PROVE A
    <3>1. client[c].id \in Id  BY <1>1, <2>4 DEF Push, At, IInv, Shape
    <3>2. order' = order \o <<client[c].id>> /\ <<client[c].id>> \in Seq(Id)
      BY <2>1, <2>4, <3>1 DEF Push
    <3>3. order' = order \o SubSeq(order', Len(order) + 1, Len(order'))
      BY <2>1, <3>2, Grows
    <3> QED  BY <2>4, <3>3 DEF Push
  <2> QED  BY <1>1, <2>2, <2>3, <2>4, LogSteps
<1>2. IInv /\ [Next]_vars => [A]_vars
  BY <1>1
<1> QED  BY <1>2, TypeCorrect, PTL DEF Spec, AppendOnly
-----------------------------------------------------------------------------
(* What the two requests of an append leave behind. *)

Pushed(c) == At(c, "push") /\ client[c].sent

\* One client at most is between the two requests of an append of i, and its claim
\* holds while i is not listed, unless its RPUSH was sent and the reply lost.
Claims == \A c \in Client, i \in Id : Appending(c, i) =>
             /\ items[i] # None
             /\ \A d \in Client : Appending(d, i) => c = d
             /\ ~Pushed(c) => i \notin Listed

LogInv == Claims /\ ListedOnce /\ BurnedExactly

LEMMA InitLogInv == Init => LogInv
  BY DEF Init, LogInv, Claims, ListedOnce, BurnedExactly, Appending, At, Idle, Listed

\* A step of a client that is not appending, before or after.
LEMMA QuietStep ==
    ASSUME LogInv, NEW c \in Client,
           \A d \in Client \ {c} : client'[d] = client[d],
           \A i \in Id : ~Appending(c, i) /\ ~Appending(c, i)',
           UNCHANGED <<items, order, burned, echoed>>
    PROVE  LogInv'
<1>1. \A d \in Client, i \in Id : Appending(d, i)' => Appending(d, i) /\ (Pushed(d)' <=> Pushed(d))
  BY DEF Appending, Pushed, At
<1>2. \A d \in Client, i \in Id : Appending(d, i) => Appending(d, i)'
  BY DEF Appending, At
<1>3. Listed' = Listed
  BY DEF Listed
<1>4. Claims'
  BY <1>1, <1>3 DEF LogInv, Claims
<1>5. ListedOnce'
  BY <1>3 DEF LogInv, ListedOnce
<1>6. BurnedExactly'
  BY <1>1, <1>2, <1>3 DEF LogInv, BurnedExactly
<1> QED  BY <1>4, <1>5, <1>6 DEF LogInv

\* The requests that do not touch the log.
LEMMA QuietSteps ==
    ASSUME IInv, LogInv, NEW c \in Client,
           \/ \E i \in Id : Delete(c, i) \/ \E b \in Content : Ingest(c, i, b)
           \/ PutData(c) \/ PutMeta(c)
           \/ HeadData(c) \/ DeleteBoth(c) \/ DeleteData(c) \/ DeleteMeta(c)
    PROVE  LogInv'
<1>1. UNCHANGED <<items, order, burned, echoed>>
  BY DEF Delete, Ingest, Call, PutData, PutMeta, HeadData, DeleteBoth, DeleteData, DeleteMeta,
         log, history
<1>2. /\ \A d \in Client \ {c} : client'[d] = client[d]
      /\ client[c].at \notin Appends
      /\ client'[c].at # "push" /\ (client'[c].at = "claim" => ~client'[c].sent)
  <2>1. CASE \E i \in Id : Delete(c, i) \/ \E b \in Content : Ingest(c, i, b)
    BY <2>1 DEF Delete, Ingest, Call, At, Appends, IInv, TypeOK
  <2>2. CASE PutData(c) \/ PutMeta(c) \/ HeadData(c) \/ DeleteBoth(c) \/ DeleteData(c) \/ DeleteMeta(c)
    <3>1. client[c].at \notin Appends
      BY <2>2 DEF PutData, PutMeta, HeadData, DeleteBoth, DeleteData, DeleteMeta, At, Appends
    <3>2. \E q \in {"putMeta", "claim", "delData", "delMeta", "idle"} : Moved(c, q)
      BY <2>2, Replies
    <3> QED  BY <3>1, <3>2 DEF Moved, Idle, Appends
  <2> QED  BY <2>1, <2>2
<1>3. \A i \in Id : ~Appending(c, i) /\ ~Appending(c, i)'
  BY <1>2 DEF Appending, At, Appends
<1> QED  BY <1>1, <1>2, <1>3, QuietStep

LEMMA ClaimLog ==
    ASSUME IInv, LogInv, NEW c \in Client, NEW i \in Id, i = client[c].id, Claim(c)
    PROVE  LogInv'
<1>1. /\ client[c].content \in Content /\ client[c] \in Request /\ client[c].at = "claim"
      /\ items \in [Id -> Content \cup {None}]
  BY DEF IInv, Shape, TypeOK, Claim, At, Appends, Put
<1>2. /\ \A d \in Client \ {c} : client'[d] = client[d]
      /\ order' = order /\ echoed' = echoed
  BY Replies DEF Claim, Moved
<1>3. Listed' = Listed /\ Listed \subseteq Id
  BY <1>2 DEF Listed, IInv, TypeOK
<1>4. \A d \in Client \ {c}, j \in Id : (Appending(d, j)' <=> Appending(d, j)) /\ (Pushed(d)' <=> Pushed(d))
  BY <1>2 DEF Appending, Pushed, At
<1>5. CASE items[i] = None
  <2>1. /\ \A j \in Id \ {i} : items'[j] = items[j] /\ ~Appending(c, j) /\ ~Appending(c, j)'
        /\ items'[i] # None /\ burned' = burned
        /\ Appending(c, i)' /\ ~Pushed(c)'
    <3>1. Moved(c, "push")
      BY <1>5, Replies
    <3>2. Appending(c, i)' /\ ~Pushed(c)' /\ \A j \in Id \ {i} : ~Appending(c, j) /\ ~Appending(c, j)'
      BY <1>1, <3>1 DEF Moved, Appending, Pushed, At
    <3> QED  BY <1>1, <1>5, <3>2, NoneAssumption DEF Claim
  <2>2. i \notin Listed /\ i \notin burned /\ \A d \in Client : ~Appending(d, i)
    BY <1>1, <1>5 DEF LogInv, ListedOnce, BurnedExactly, Claims
  <2>3. Claims'
    <3> SUFFICES ASSUME NEW d \in Client, NEW j \in Id, Appending(d, j)'
                 PROVE  /\ items'[j] # None
                        /\ \A e \in Client : Appending(e, j)' => d = e
                        /\ ~Pushed(d)' => j \notin Listed'
      BY DEF Claims
    <3>1. CASE j = i  BY <1>3, <1>4, <2>1, <2>2, <3>1
    <3>2. CASE j # i  BY <1>3, <1>4, <2>1, <3>2 DEF LogInv, Claims
    <3> QED  BY <3>1, <3>2
  <2>4. ListedOnce'
    BY <1>2, <1>3, <2>1, <2>2 DEF LogInv, ListedOnce
  <2>5. BurnedExactly'
    <3> SUFFICES ASSUME NEW j \in Id
                 PROVE  (j \in burned') <=> (items'[j] # None /\ j \notin Listed' /\ \A d \in Client : ~Appending(d, j)')
      BY DEF BurnedExactly
    <3>1. CASE j = i  BY <1>3, <2>1, <2>2, <3>1
    <3>2. CASE j # i  BY <1>3, <1>4, <2>1, <3>2 DEF LogInv, BurnedExactly
    <3> QED  BY <3>1, <3>2
  <2> QED  BY <2>3, <2>4, <2>5 DEF LogInv
<1>6. CASE items[i] # None
  <2>1. /\ items' = items /\ \A j \in Id : ~Appending(c, j)'
        /\ burned' = IF client[c].sent THEN burned \cup {i} ELSE burned
    BY <1>6, Replies DEF Claim, Appending, At, Idle
  <2>2. \A j \in Id : Appending(c, j) <=> (j = i /\ client[c].sent)
    BY <1>1 DEF Appending, At
  <2>3. ~Pushed(c)
    BY <1>1 DEF Pushed, At
  <2>4. client[c].sent => i \notin Listed /\ \A d \in Client \ {c} : ~Appending(d, i)
    BY <1>1, <2>2, <2>3 DEF LogInv, Claims
  <2>5. Claims'
    BY <1>3, <1>4, <2>1 DEF LogInv, Claims
  <2>6. ListedOnce'
    BY <1>2, <1>3, <2>1 DEF LogInv, ListedOnce
  <2>7. BurnedExactly'
    <3> SUFFICES ASSUME NEW j \in Id
                 PROVE  (j \in burned') <=> (items'[j] # None /\ j \notin Listed' /\ \A d \in Client : ~Appending(d, j)')
      BY DEF BurnedExactly
    <3>1. CASE j = i /\ client[c].sent  BY <1>3, <1>4, <1>6, <2>1, <2>4, <3>1
    <3>2. CASE ~(j = i /\ client[c].sent)
      <4>1. ~Appending(c, j)  BY <2>2, <3>2
      <4>2. (j \in burned') <=> (j \in burned)  BY <2>1, <3>2
      <4> QED  BY <1>3, <1>4, <2>1, <4>1, <4>2 DEF LogInv, BurnedExactly
    <3> QED  BY <3>1, <3>2
  <2> QED  BY <2>5, <2>6, <2>7 DEF LogInv
<1> QED  BY <1>5, <1>6

LEMMA PushLog ==
    ASSUME IInv, LogInv, NEW c \in Client, NEW i \in Id, i = client[c].id, Push(c)
    PROVE  LogInv'
<1>1. client[c].at = "push" /\ client[c] \in Request /\ order \in Seq(Id)
  BY DEF IInv, Shape, TypeOK, Push, At, Appends, Put
<1>2. /\ \A d \in Client \ {c} : client'[d] = client[d]
      /\ items' = items /\ burned' = burned
      /\ echoed' = IF client[c].sent THEN echoed \cup {i} ELSE echoed
      /\ order' = Append(order, i)
  BY Replies DEF Push, Moved
<1>3. Listed' = Listed \cup {i}
  BY <1>1, <1>2 DEF Listed
<1>4. \A d \in Client \ {c}, j \in Id : (Appending(d, j)' <=> Appending(d, j)) /\ (Pushed(d)' <=> Pushed(d))
  BY <1>2 DEF Appending, Pushed, At
<1>5. /\ Appending(c, i) /\ \A j \in Id \ {i} : ~Appending(c, j) /\ ~Appending(c, j)'
      /\ Appending(c, i)' => Pushed(c)'
      /\ Pushed(c) <=> client[c].sent
  <2>1. Moved(c, "idle")
    BY Replies
  <2> QED  BY <1>1, <2>1 DEF Moved, Appending, Pushed, At, Idle
<1>6. items[i] # None /\ i \notin burned /\ (~client[c].sent => i \notin Listed)
      /\ \A d \in Client \ {c} : ~Appending(d, i)
  BY <1>1, <1>5 DEF LogInv, Claims, BurnedExactly
<1>7. Claims'
  <2> SUFFICES ASSUME NEW d \in Client, NEW j \in Id, Appending(d, j)'
               PROVE  /\ items'[j] # None
                      /\ \A e \in Client : Appending(e, j)' => d = e
                      /\ ~Pushed(d)' => j \notin Listed'
    BY DEF Claims
  <2>1. CASE j = i  BY <1>2, <1>4, <1>5, <1>6, <2>1
  <2>2. CASE j # i  BY <1>2, <1>3, <1>4, <1>5, <2>2 DEF LogInv, Claims
  <2> QED  BY <2>1, <2>2
<1>8. ListedOnce'
  <2>1. \A j \in Listed' : items'[j] # None
    BY <1>2, <1>3, <1>6 DEF LogInv, ListedOnce
  <2>2. ASSUME NEW j \in 1..Len(order'), NEW k \in 1..Len(order'), order'[j] = order'[k]
        PROVE  j = k \/ order'[j] \in echoed'
    <3>1. /\ Len(order') = Len(order) + 1 /\ Len(order) \in Nat
          /\ order'[Len(order) + 1] = i
          /\ \A m \in 1..Len(order) : order'[m] = order[m] /\ order[m] \in Listed
      BY <1>1, <1>2 DEF Listed
    <3>2. CASE j \in 1..Len(order) /\ k \in 1..Len(order)
      BY <1>2, <2>2, <3>1, <3>2 DEF LogInv, ListedOnce
    <3>3. CASE j \notin 1..Len(order) /\ k \in 1..Len(order)
      <4>1. j = Len(order) + 1  BY <3>1, <3>3
      <4> QED  BY <1>2, <1>6, <2>2, <3>1, <3>3, <4>1
    <3>4. CASE j \in 1..Len(order) /\ k \notin 1..Len(order)
      <4>1. k = Len(order) + 1  BY <3>1, <3>4
      <4> QED  BY <1>2, <1>6, <2>2, <3>1, <3>4, <4>1
    <3>5. CASE j \notin 1..Len(order) /\ k \notin 1..Len(order)
      BY <3>1, <3>5
    <3> QED  BY <3>2, <3>3, <3>4, <3>5
  <2> QED  BY <2>1, <2>2 DEF ListedOnce
<1>9. BurnedExactly'
  <2> SUFFICES ASSUME NEW j \in Id
               PROVE  (j \in burned') <=> (items'[j] # None /\ j \notin Listed' /\ \A d \in Client : ~Appending(d, j)')
    BY DEF BurnedExactly
  <2>1. CASE j = i  BY <1>2, <1>3, <1>6, <2>1
  <2>2. CASE j # i  BY <1>2, <1>3, <1>4, <1>5, <2>2 DEF LogInv, BurnedExactly
  <2> QED  BY <2>1, <2>2
<1> QED  BY <1>7, <1>8, <1>9 DEF LogInv

LEMMA FailLog ==
    ASSUME IInv, LogInv, NEW c \in Client, NEW i \in Id, i = client[c].id, Fail(c)
    PROVE  LogInv'
<1>2. /\ \A d \in Client \ {c} : client'[d] = client[d]
      /\ \A j \in Id : ~Appending(c, j)'
      /\ UNCHANGED <<items, order, echoed>>
      /\ burned' = IF Appending(c, i) /\ i \notin Listed THEN burned \cup {i} ELSE burned
  BY DEF Fail, log, IInv, TypeOK, Idle, Appending, At
<1>3. Listed' = Listed
  BY <1>2 DEF Listed
<1>4. \A d \in Client \ {c}, j \in Id : (Appending(d, j)' <=> Appending(d, j)) /\ (Pushed(d)' <=> Pushed(d))
  BY <1>2 DEF Appending, Pushed, At
<1>5. \A j \in Id : Appending(c, j) => j = i
  BY DEF Appending
<1>6. Claims'
  BY <1>2, <1>3, <1>4 DEF LogInv, Claims
<1>7. ListedOnce'
  BY <1>2, <1>3 DEF LogInv, ListedOnce
<1>8. BurnedExactly'
  <2> SUFFICES ASSUME NEW j \in Id
               PROVE  (j \in burned') <=> (items'[j] # None /\ j \notin Listed' /\ \A d \in Client : ~Appending(d, j)')
    BY DEF BurnedExactly
  <2>1. CASE Appending(c, j)
    <3>1. j = i /\ items[j] # None /\ \A d \in Client \ {c} : ~Appending(d, j)
      BY <1>5, <2>1 DEF LogInv, Claims
    <3>2. j \notin burned
      BY <2>1 DEF LogInv, BurnedExactly
    <3> QED  BY <1>2, <1>3, <1>4, <2>1, <3>1, <3>2
  <2>2. CASE ~Appending(c, j)
    <3>1. (j \in burned') <=> (j \in burned)  BY <1>2, <2>2
    <3> QED  BY <1>2, <1>3, <1>4, <2>2, <3>1 DEF LogInv, BurnedExactly
  <2> QED  BY <2>1, <2>2
<1> QED  BY <1>6, <1>7, <1>8 DEF LogInv

LEMMA NextLogInv == IInv /\ LogInv /\ [Next]_vars => LogInv'
<1> SUFFICES ASSUME IInv, LogInv, [Next]_vars PROVE LogInv'
  OBVIOUS
<1>1. ASSUME NEW c \in Client, Step(c) PROVE LogInv'
  <2>1. Claim(c) \/ Push(c) \/ Fail(c) => client[c].id \in Id
    BY DEF Claim, Push, Fail, At, IInv, Shape
  <2> QED  BY <1>1, <2>1, QuietSteps, ClaimLog, PushLog, FailLog DEF Step
<1>2. CASE UNCHANGED <<items, order, client, burned, echoed>>
  BY <1>2 DEF LogInv, Claims, ListedOnce, BurnedExactly, Appending, Pushed, At, Listed
<1>3. UNCHANGED vars => UNCHANGED <<items, order, client, burned, echoed>>
  BY DEF vars, log, history
<1>4. (\E i \in Id : Expire(i)) => UNCHANGED <<items, order, client, burned, echoed>>
  BY DEF Expire, log
<1> QED  BY <1>1, <1>2, <1>3, <1>4 DEF Next

\* An item is listed once unless the reply to its RPUSH was lost, and the ids that
\* get finds and all never returns are exactly those whose append was cut short
\* after its claim: whatever the clients, their deaths and the lost replies.
THEOREM LogIsWhole == Spec => []LogWhole
<1>1. LogInv => LogWhole
  BY DEF LogInv, LogWhole
<1> QED  BY <1>1, InitLogInv, NextLogInv, TypeCorrect, PTL DEF Spec

-----------------------------------------------------------------------------
(* The artifact behind every item of the log. *)

Kept(i) == i \notin gone => data[i] # None /\ meta[i] # None
Saved(i) == i \notin gone => data[i] # None

\* A client about to append has stored the artifact; one about to write the
\* metadata has stored the data.
BehindInv == /\ \A i \in Id : items[i] # None => Kept(i)
             /\ \A c \in Client, i \in Id : client[c].id = i =>
                   /\ client[c].at \in Appends => Kept(i)
                   /\ client[c].at = "putMeta" => Saved(i)

LEMMA InitBehind == Init => BehindInv
  BY DEF Init, BehindInv, Idle, Appends

\* Nothing goes missing that is not recorded as gone.
LEMMA OnlyGoneIsLost ==
    ASSUME IInv, [Next]_vars, NEW j \in Id
    PROVE  /\ j \in gone => j \in gone'
           /\ j \notin gone' => /\ data[j] # None => data'[j] # None
                                /\ meta[j] # None => meta'[j] # None
<1>1. ASSUME NEW c \in Client, PutData(c) \/ PutMeta(c) \/ DeleteBoth(c) \/ DeleteData(c) \/ DeleteMeta(c)
      PROVE  /\ j \in gone => j \in gone'
             /\ j \notin gone' => /\ data[j] # None => data'[j] # None
                                  /\ meta[j] # None => meta'[j] # None
  <2>1. /\ client[c].at \in Put => client[c].content # None
        /\ client[c].at = "delMeta" => client[c].id \in gone
        /\ client[c].id \in Id
        /\ data \in [Id -> Content \cup {None}] /\ meta \in [Id -> Content \cup {None}]
    BY <1>1, NoneAssumption DEF IInv, Shape, TypeOK, At, PutData, PutMeta, DeleteBoth, DeleteData, DeleteMeta
  <2> QED  BY <1>1, <2>1 DEF PutData, PutMeta, DeleteBoth, DeleteData, DeleteMeta, At, Put, history
<1>2. ASSUME NEW i \in Id, Expire(i)
      PROVE  /\ j \in gone => j \in gone'
             /\ j \notin gone' => data'[j] = data[j] /\ meta'[j] = meta[j]
  BY <1>2 DEF Expire, IInv, TypeOK
<1>3. UNCHANGED vars => UNCHANGED <<data, meta, gone>>
  BY DEF vars, artifacts, history
<1>4. ASSUME NEW c \in Client,
             \/ \E i \in Id : Delete(c, i) \/ \E b \in Content : Ingest(c, i, b)
             \/ Claim(c) \/ Push(c) \/ HeadData(c) \/ Fail(c)
      PROVE  UNCHANGED <<data, meta, gone>>
  BY <1>4 DEF Delete, Ingest, Call, Claim, Push, HeadData, Fail, artifacts, history
<1> QED  BY <1>1, <1>2, <1>3, <1>4 DEF Next, Step

LEMMA KeptStays ==
    ASSUME IInv, [Next]_vars, NEW i \in Id
    PROVE  /\ Kept(i) => Kept(i)'
           /\ Saved(i) => Saved(i)'
<1>1. /\ i \in gone => i \in gone'
      /\ i \notin gone' => /\ data[i] # None => data'[i] # None
                           /\ meta[i] # None => meta'[i] # None
  BY OnlyGoneIsLost
<1> QED  BY <1>1 DEF Kept, Saved

\* Client c moved, to a request whose artifact i is where it should be.
LEMMA BehindStep ==
    ASSUME IInv, BehindInv, [Next]_vars, NEW c \in Client, NEW i \in Id,
           \A d \in Client \ {c} : client'[d] = client[d],
           \A j \in Id : items'[j] # None => items[j] # None \/ (j = i /\ Kept(i)),
           client'[c].at \in Appends => client'[c].id = i /\ Kept(i)',
           client'[c].at = "putMeta" => client'[c].id = i /\ Saved(i)'
    PROVE  BehindInv'
<1>1. \A j \in Id : items'[j] # None => Kept(j)'
  BY KeptStays DEF BehindInv
<1>2. \A d \in Client, j \in Id : client'[d].id = j =>
         /\ client'[d].at \in Appends => Kept(j)'
         /\ client'[d].at = "putMeta" => Saved(j)'
  BY KeptStays DEF BehindInv
<1> QED  BY <1>1, <1>2 DEF BehindInv

LEMMA NextBehind == IInv /\ BehindInv /\ [Next]_vars => BehindInv'
<1> SUFFICES ASSUME IInv, BehindInv, [Next]_vars PROVE BehindInv'
  OBVIOUS
<1>1. ASSUME NEW c \in Client, NEW i \in Id, i = client[c].id, PutData(c) PROVE BehindInv'
  <2>1. client[c].content \in Content
    BY <1>1 DEF IInv, Shape, PutData, At, Put
  <2>2. PICK q \in {"putMeta", "claim"} : (q = "putMeta" <=> backend = "s3") /\ Moved(c, q)
    BY <1>1, Replies
  <2>3. Saved(i)' /\ (backend # "s3" => Kept(i)') /\ items' = items
    BY <1>1, <2>1, NoneAssumption DEF PutData, IInv, TypeOK, log, Saved, Kept
  <2>4. /\ \A d \in Client \ {c} : client'[d] = client[d]
        /\ client'[c].at \in Appends => client'[c].id = i /\ backend # "s3"
        /\ client'[c].at = "putMeta" => client'[c].id = i
    BY <1>1, <2>2 DEF Moved, PutData, At, Appends, Idle
  <2> QED  BY <1>1, <2>3, <2>4, BehindStep
<1>2. ASSUME NEW c \in Client, NEW i \in Id, i = client[c].id, PutMeta(c) PROVE BehindInv'
  <2>1. client[c].content \in Content /\ client[c].at = "putMeta" /\ Moved(c, "claim")
    BY <1>2, Replies DEF IInv, Shape, PutMeta, At, Put
  <2>2. Saved(i)' /\ Kept(i)' /\ items' = items
    BY <1>2, <2>1, NoneAssumption DEF PutMeta, IInv, TypeOK, BehindInv, log, history, Saved, Kept
  <2>3. /\ \A d \in Client \ {c} : client'[d] = client[d]
        /\ client'[c].id = i
    BY <1>2, <2>1 DEF Moved
  <2> QED  BY <2>2, <2>3, BehindStep
<1>3. ASSUME NEW c \in Client, NEW i \in Id, i = client[c].id, Claim(c) \/ Push(c) PROVE BehindInv'
  <2>1. client[c].at \in Appends
    BY <1>3 DEF Claim, Push, At, Appends
  <2>2. Moved(c, "push") \/ Moved(c, "idle")
    BY <1>3, Replies
  <2>3. Kept(i)
    BY <1>3, <2>1 DEF BehindInv
  <2>4. \A j \in Id : items'[j] # None => items[j] # None \/ j = i
    BY <1>3 DEF Claim, Push, IInv, TypeOK
  <2>5. /\ \A d \in Client \ {c} : client'[d] = client[d]
        /\ client'[c].at \in Appends => client'[c].id = i
        /\ client'[c].at # "putMeta"
    BY <1>3, <2>1, <2>2 DEF Moved, Idle, Appends
  <2> QED  BY <2>3, <2>4, <2>5, KeptStays, BehindStep
<1>4. ASSUME NEW c \in Client,
             \/ \E i \in Id : Delete(c, i) \/ \E b \in Content : Ingest(c, i, b)
             \/ HeadData(c) \/ DeleteBoth(c) \/ DeleteData(c) \/ DeleteMeta(c) \/ Fail(c)
      PROVE  BehindInv'
  <2>1. /\ \A d \in Client \ {c} : client'[d] = client[d]
        /\ client'[c].at \notin Appends \cup {"putMeta"}
    <3>1. CASE \E i \in Id : Delete(c, i) \/ \E b \in Content : Ingest(c, i, b)
      BY <3>1 DEF Delete, Ingest, Call, Appends, IInv, TypeOK
    <3>2. CASE HeadData(c) \/ DeleteBoth(c) \/ DeleteData(c) \/ DeleteMeta(c)
      <4>1. \E q \in {"delData", "delMeta", "idle"} : Moved(c, q)
        BY <3>2, Replies
      <4>2. client[c].at \in Del
        BY <3>2 DEF HeadData, DeleteBoth, DeleteData, DeleteMeta, At, Del
      <4> QED  BY <4>1, <4>2 DEF Moved, Idle, Appends, Del
    <3>3. CASE Fail(c)
      BY <3>3 DEF Fail, Idle, Appends, IInv, TypeOK
    <3> QED  BY <1>4, <3>1, <3>2, <3>3
  <2>2. items' = items
    BY <1>4 DEF Delete, Ingest, Call, HeadData, DeleteBoth, DeleteData, DeleteMeta, Fail, log
  <2>3. PICK i \in Id : TRUE
    BY <1>4 DEF HeadData, DeleteBoth, DeleteData, DeleteMeta, Fail, At, IInv, Shape
  <2> QED  BY <2>1, <2>2, BehindStep
<1>5. CASE UNCHANGED <<items, client>>
  BY <1>5, KeptStays DEF BehindInv
<1>6. UNCHANGED vars => UNCHANGED <<items, client>>
  BY DEF vars, log
<1>7. (\E i \in Id : Expire(i)) => UNCHANGED <<items, client>>
  BY DEF Expire, log
<1>8. \A c \in Client : PutData(c) \/ PutMeta(c) \/ Claim(c) \/ Push(c) => client[c].id \in Id
  BY DEF PutData, PutMeta, Claim, Push, At, Put, Appends, IInv, Shape
<1> QED  BY <1>1, <1>2, <1>3, <1>4, <1>5, <1>6, <1>7, <1>8 DEF Next, Step

-----------------------------------------------------------------------------
(* The two objects of an artifact. *)

\* What the data object of i holds while client c is halfway through i.
Holds(c) == IF client[c].at \in Put THEN client[c].content ELSE None

\* Of an artifact that no call overlapped, one client at most is halfway, and it
\* knows what the data object holds.
Mended(i) == /\ \A c \in Client : Halfway(c, i) =>
                   data[i] = Holds(c) /\ \A d \in Client : Halfway(d, i) => c = d
             /\ (\A c \in Client : ~Halfway(c, i)) => data[i] = meta[i]

PairInv == \A i \in Id : IF backend = "redis" THEN data[i] = meta[i] ELSE i \in torn \/ Mended(i)

LEMMA InitPair == Init => PairInv
  BY DEF Init, PairInv, Mended, Halfway, Idle

\* A step that leaves i alone.
LEMMA SameArtifact ==
    ASSUME PairInv, NEW c \in Client, NEW i \in Id,
           \A d \in Client \ {c} : client'[d] = client[d],
           ~Halfway(c, i), ~Halfway(c, i)',
           data'[i] = data[i], meta'[i] = meta[i], i \in torn => i \in torn', backend' = backend
    PROVE  IF backend' = "redis" THEN data'[i] = meta'[i] ELSE i \in torn' \/ Mended(i)'
<1>1. \A d \in Client : /\ Halfway(d, i)' <=> Halfway(d, i)
                        /\ Halfway(d, i) => Holds(d)' = Holds(d)
  BY DEF Halfway, Holds
<1> QED  BY <1>1 DEF PairInv, Mended

\* The requests that touch no artifact and are neither halfway before nor after.
LEMMA OutsideArtifacts ==
    ASSUME IInv, PairInv, NEW c \in Client,
           \/ \E i \in Id : Delete(c, i) \/ \E b \in Content : Ingest(c, i, b)
           \/ Claim(c) \/ Push(c) \/ HeadData(c)
    PROVE  PairInv'
<1>1. /\ \A d \in Client \ {c} : client'[d] = client[d]
      /\ \A i \in Id : ~Halfway(c, i) /\ ~Halfway(c, i)'
  <2>1. CASE \E i \in Id : Delete(c, i) \/ \E b \in Content : Ingest(c, i, b)
    BY <2>1 DEF Delete, Ingest, Call, At, Halfway, IInv, TypeOK
  <2>2. CASE Claim(c) \/ Push(c)
    <3>1. Moved(c, "push") \/ Moved(c, "idle")
      BY <2>2, Replies
    <3> QED  BY <2>2, <3>1 DEF Moved, Claim, Push, At, Idle, Halfway
  <2>3. CASE HeadData(c)
    <3>1. (Moved(c, "delData") \/ Moved(c, "idle")) /\ ~client'[c].sent
      BY <2>3, Replies
    <3> QED  BY <2>3, <3>1 DEF Moved, HeadData, At, Idle, Halfway
  <2> QED  BY <2>1, <2>2, <2>3
<1>2. UNCHANGED <<backend, data, meta, torn>>
  BY DEF Delete, Ingest, Call, Claim, Push, HeadData, artifacts, history
<1> QED  BY <1>1, <1>2, SameArtifact DEF PairInv

\* The first write of a put or a delete: its client is halfway after it.
LEMMA FirstWrite ==
    ASSUME IInv, PairInv, backend = "s3", NEW c \in Client, NEW i \in Id, i = client[c].id,
           PutData(c) \/ DeleteData(c)
    PROVE  PairInv'
<1>1. \/ client[c].at = "putData" /\ PutData(c) /\ Moved(c, "putMeta")
      \/ client[c].at = "delData" /\ DeleteData(c) /\ Moved(c, "delMeta")
  BY Replies DEF PutData, DeleteData, At
<1>2. /\ \A d \in Client \ {c} : client'[d] = client[d]
      /\ client'[c].id = i /\ Halfway(c, i)'
  BY <1>1 DEF Moved, Halfway
<1>3. /\ backend' = backend /\ meta' = meta /\ Opens(c, i)
      /\ \A j \in Id \ {i} : data'[j] = data[j]
  BY DEF PutData, DeleteData, IInv, TypeOK
<1>4. data'[i] = Holds(c)'
  BY <1>1 DEF PutData, DeleteData, Holds, Moved, Put, IInv, TypeOK
<1> SUFFICES ASSUME NEW j \in Id
             PROVE  IF backend' = "redis" THEN data'[j] = meta'[j] ELSE j \in torn' \/ Mended(j)'
  BY DEF PairInv
<1>5. CASE j = i
  <2>1. CASE \E d \in Client \ {c} : Halfway(d, i)
    BY <1>3, <1>5, <2>1 DEF Opens
  <2>2. CASE \A d \in Client \ {c} : ~Halfway(d, i)
    <3>1. \A d \in Client \ {c} : ~Halfway(d, i)'
      BY <1>2, <2>2 DEF Halfway
    <3> QED  BY <1>2, <1>3, <1>4, <1>5, <3>1 DEF Mended
  <2> QED  BY <2>1, <2>2
<1>6. CASE j # i
  <2>1. ~Halfway(c, j) /\ ~Halfway(c, j)' /\ (j \in torn => j \in torn')
    BY <1>2, <1>3, <1>6 DEF Halfway, Opens
  <2> QED  BY <1>2, <1>3, <1>6, <2>1, SameArtifact
<1> QED  BY <1>5, <1>6

\* The second write: both objects say the same.
LEMMA SecondWrite ==
    ASSUME IInv, PairInv, NEW c \in Client, NEW i \in Id, i = client[c].id,
           PutMeta(c) \/ DeleteMeta(c)
    PROVE  PairInv'
<1>1. /\ \/ client[c].at = "putMeta" /\ PutMeta(c) /\ Moved(c, "claim")
         \/ client[c].at = "delMeta" /\ DeleteMeta(c) /\ Moved(c, "idle")
      /\ backend = "s3" /\ Halfway(c, i)
  BY Replies DEF IInv, Shape, PutMeta, DeleteMeta, At, Halfway
<1>2. /\ \A d \in Client \ {c} : client'[d] = client[d]
      /\ \A j \in Id \ {i} : ~Halfway(c, j) /\ ~Halfway(c, j)'
      /\ Halfway(c, i)' => Holds(c)' = Holds(c)
  BY <1>1 DEF Moved, Halfway, Holds, Idle, Put
<1>3. /\ backend' = backend /\ data' = data /\ torn' = torn
      /\ \A j \in Id \ {i} : meta'[j] = meta[j]
      /\ meta'[i] = Holds(c)
  BY <1>1 DEF PutMeta, DeleteMeta, Put, Holds, history, IInv, TypeOK
<1> SUFFICES ASSUME NEW j \in Id
             PROVE  IF backend' = "redis" THEN data'[j] = meta'[j] ELSE j \in torn' \/ Mended(j)'
  BY DEF PairInv
<1>4. CASE j = i /\ i \notin torn
  <2>1. data[i] = Holds(c) /\ \A d \in Client \ {c} : ~Halfway(d, i)
    BY <1>1, <1>4 DEF PairInv, Mended
  <2>2. \A d \in Client \ {c} : ~Halfway(d, i)'
    BY <1>2, <2>1 DEF Halfway
  <2> QED  BY <1>1, <1>2, <1>3, <1>4, <2>1, <2>2 DEF Mended
<1>5. CASE j = i /\ i \in torn
  BY <1>1, <1>3, <1>5
<1>6. CASE j # i
  BY <1>2, <1>3, <1>6, SameArtifact
<1> QED  BY <1>4, <1>5, <1>6

LEMMA NextPair == IInv /\ PairInv /\ [Next]_vars => PairInv'
<1> SUFFICES ASSUME IInv, PairInv, [Next]_vars PROVE PairInv'
  OBVIOUS
<1>1. ASSUME NEW c \in Client, backend = "redis", PutData(c) \/ DeleteBoth(c) PROVE PairInv'
  BY <1>1 DEF PutData, DeleteBoth, PairInv, IInv, TypeOK
<1>2. ASSUME NEW c \in Client, backend # "redis", PutData(c) \/ DeleteData(c) PROVE PairInv'
  BY <1>2, FirstWrite DEF IInv, TypeOK, Shape, PutData, DeleteData, At, Put
<1>3. ASSUME NEW c \in Client, Fail(c) PROVE PairInv'
  <2>1. /\ \A d \in Client \ {c} : client'[d] = client[d]
        /\ \A i \in Id : ~Halfway(c, i)'
        /\ UNCHANGED <<backend, data, meta>>
        /\ torn \subseteq torn'
    BY <1>3 DEF Fail, artifacts, Halfway, Idle, IInv, TypeOK
  <2> SUFFICES ASSUME NEW i \in Id
               PROVE  IF backend' = "redis" THEN data'[i] = meta'[i] ELSE i \in torn' \/ Mended(i)'
    BY DEF PairInv
  <2>2. CASE Halfway(c, i)
    <3>1. client[c].id = i  BY <2>2 DEF Halfway
    <3>2. backend # "redis" => i \in torn'
      BY <1>3, <2>2, <3>1 DEF Fail, IInv, TypeOK
    <3> QED  BY <2>1, <3>2 DEF PairInv
  <2>3. CASE ~Halfway(c, i)
    BY <2>1, <2>3, SameArtifact
  <2> QED  BY <2>2, <2>3
<1>4. ASSUME NEW i \in Id, Expire(i) PROVE PairInv'
  BY <1>4 DEF Expire, PairInv, IInv, TypeOK
<1>5. CASE UNCHANGED vars
  BY <1>5 DEF vars, artifacts, history, PairInv, Mended, Holds, Halfway
<1>6. \A c \in Client : (DeleteData(c) => backend # "redis") /\ (DeleteBoth(c) => backend = "redis")
  BY DEF DeleteData, DeleteBoth, At, IInv, Shape
<1>7. \A c \in Client : PutMeta(c) \/ DeleteMeta(c) => client[c].id \in Id
  BY DEF PutMeta, DeleteMeta, At, IInv, Shape
<1> QED  BY <1>1, <1>2, <1>3, <1>4, <1>5, <1>6, <1>7, OutsideArtifacts, SecondWrite DEF Next, Step

\* The data and metadata of an artifact agree once its calls have ended, unless one
\* was cut short or two overlapped; and every item of the log has its artifact until
\* somebody deletes it or it expires: for any clients, deaths and lost replies.
THEOREM ArtifactsAreWhole == Spec => []ArtifactsWhole
<1>1. IInv /\ BehindInv /\ PairInv => ArtifactsWhole
  <2> SUFFICES ASSUME IInv, BehindInv, PairInv PROVE ArtifactsWhole
    OBVIOUS
  <2>1. PairedAtRest
    BY DEF PairInv, Mended, PairedAtRest
  <2>2. ArtifactBehindItem
    BY DEF BehindInv, Kept, ArtifactBehindItem, Exists, Listing
  <2> QED  BY <2>1, <2>2 DEF ArtifactsWhole, IInv
<1>2. IInv /\ BehindInv /\ PairInv /\ [Next]_vars => BehindInv' /\ PairInv'
  BY NextBehind, NextPair
<1> QED  BY <1>1, <1>2, InitBehind, InitPair, TypeCorrect, PTL DEF Spec

--------------------------------------------------------------------------------
(***************************************************************************)
(* The schema of a SQLite file, for any openers and migrations.  What is recorded is*)
(* what was applied (VersionsTrue), and an opener that is about to apply what is*)
(* already there has not been alone (Standing).                            *)
(***************************************************************************)
Stages == {"closed", "create", "read", "migrate", "commit", "open", "failed"}

SchemaTypeOK == /\ tables \in [Store -> SUBSET Nat]
                /\ DOMAIN recorded = Store
                /\ writing \in Opener \cup {None}
                /\ opener \in [Opener -> [at : Stages, next : Nat]]
                /\ beside \subseteq Opener

\* The first n migrations of a store are applied, and recorded.
Applied(s, n) == /\ tables[s] = 0..(n - 1)
                 /\ recorded[s] = tables[s] \/ (recorded[s] = None /\ n = 0)
VersionsTrue == \A s \in Store : \E n \in 0..Migrations : Applied(s, n)

\* Who is past the version table has found one; what an opener is about to apply is
\* the first migration missing, unless another opener has been on the file with it.
Standing(p) ==
    LET s == StoreOf[p]
        n == opener[p].next
    IN  /\ opener[p].at \in {"read", "migrate", "commit", "open"} => recorded[s] # None
        /\ Schema!At(p, "migrate") => n < Migrations /\ 0..(n - 1) \subseteq tables[s]
        /\ Schema!At(p, "migrate") /\ n \in tables[s] => p \in beside
        /\ Schema!At(p, "commit") => n < Migrations /\ tables[s] = 0..(n - 1)
        /\ Schema!At(p, "open") => 0..(Migrations - 1) \subseteq tables[s]
        /\ Schema!At(p, "failed") => p \in beside

\* One connection writes; openers that are under way together know it.
OneWriter == \A p \in Opener : Schema!At(p, "commit") <=> writing = p
Together == \A p, q \in Schema!Busy : p # q => p \in beside

SchemaIInv == SchemaTypeOK /\ VersionsTrue /\ (\A p \in Opener : Standing(p)) /\ OneWriter /\ Together

LEMMA SchemaInitIInv == Schema!SchemaConstants /\ Schema!Init => SchemaIInv
<1> SUFFICES ASSUME Schema!SchemaConstants, Schema!Init PROVE SchemaIInv
  OBVIOUS
<1>1. SchemaTypeOK
  BY DEF Schema!Init, SchemaTypeOK, Stages
<1>2. \A s \in Store : Applied(s, 0)
  BY DEF Schema!Init, Applied
<1>3. VersionsTrue
  BY <1>2 DEF VersionsTrue, Schema!SchemaConstants
<1>4. \A p \in Opener : opener[p].at = "closed" /\ writing # p
  BY DEF Schema!Init, Schema!SchemaConstants
<1>5. \A p \in Opener : Standing(p)
  BY <1>4 DEF Standing, Schema!At
<1>6. OneWriter /\ Together
  BY <1>4 DEF OneWriter, Together, Schema!Busy, Schema!At
<1> QED  BY <1>1, <1>3, <1>5, <1>6 DEF SchemaIInv

\* The highest of the first n versions.
LEMMA Highest ==
  ASSUME NEW n \in Nat
  PROVE  Schema!Max((0..(n - 1)) \cup {-1}) = n - 1
<1> DEFINE S == (0..(n - 1)) \cup {-1}
<1>1. n - 1 \in S /\ \A y \in S : n - 1 >= y /\ y \in Int
  OBVIOUS
<1>2. \A x \in S : (\A y \in S : x >= y) => x = n - 1
  BY <1>1
<1> HIDE DEF S
<1>3. Schema!Max(S) = n - 1
  BY <1>1, <1>2 DEF Schema!Max
<1> QED  BY <1>3 DEF S

\* A step of p: what it writes has to be right, where p comes to stand, and that the
\* others stand as well as before.
LEMMA SchemaStep ==
  ASSUME Schema!SchemaConstants, SchemaIInv, NEW p \in Opener, NEW a \in Stages, NEW n \in Nat, Schema!Goes(p, a, n),
         tables' \in [Store -> SUBSET Nat], DOMAIN recorded' = Store, VersionsTrue',
         Standing(p)', \A q \in Opener \ {p} : Standing(q)',
         beside' \subseteq Opener, beside \ {p} \subseteq beside',
         writing' \in Opener \cup {None}, a = "commit" <=> writing' = p,
         \A q \in Opener \ {p} : writing' = q <=> writing = q,
         a \in {"create", "read", "migrate", "commit"} =>
            \/ p \in Schema!Busy /\ beside \subseteq beside'
            \/ Schema!Busy = {}
            \/ Schema!Busy \cup {p} \subseteq beside'
  PROVE  SchemaIInv'
<1>1. /\ opener'[p] = [at |-> a, next |-> n]
      /\ \A q \in Opener : q # p => opener'[q] = opener[q]
      /\ opener' \in [Opener -> [at : Stages, next : Nat]]
  BY DEF Schema!Goes, SchemaIInv, SchemaTypeOK
<1>2. SchemaTypeOK'
  BY <1>1 DEF SchemaIInv, SchemaTypeOK
<1>3. \A q \in Opener : Standing(q)'
  OBVIOUS
<1>4. OneWriter'
  BY <1>1 DEF SchemaIInv, OneWriter, Schema!At
<1>5. Together'
  <2> SUFFICES ASSUME NEW q \in Schema!Busy', NEW r \in Schema!Busy', q # r PROVE q \in beside'
    BY DEF Together
  <2>1. q \in Opener /\ r \in Opener
    BY DEF Schema!Busy
  <2>2. CASE q # p /\ r # p
    BY <1>1, <2>1, <2>2 DEF SchemaIInv, Together, Schema!Busy
  <2>3. CASE q = p
    BY <1>1, <2>1, <2>3 DEF SchemaIInv, Together, Schema!Busy
  <2>4. CASE r = p
    BY <1>1, <2>1, <2>4 DEF SchemaIInv, Together, Schema!Busy
  <2> QED  BY <2>2, <2>3, <2>4
<1> QED  BY <1>2, <1>3, <1>4, <1>5 DEF SchemaIInv

LEMMA SchemaNextIInv == ASSUME Schema!SchemaConstants, SchemaIInv, [Schema!Next]_Schema!vars PROVE SchemaIInv'
<1>1. CASE UNCHANGED Schema!vars
  BY <1>1 DEF Schema!vars, SchemaIInv, SchemaTypeOK, VersionsTrue, Applied, Standing, OneWriter, Together, Schema!Busy, Schema!At
<1>2. ASSUME NEW p \in Opener, Schema!Open(p) \/ Schema!CreateVersionTable(p) \/ Schema!ReadVersion(p) \/ Schema!Migrate(p)
                               \/ Schema!Commit(p) \/ Schema!LockedOut(p) \/ Schema!Leave(p)
      PROVE  SchemaIInv'
  <2> DEFINE s == StoreOf[p]
  <2>1. /\ s \in Store /\ Migrations \in Nat /\ \A q \in Opener : StoreOf[q] \in Store /\ q # None
        /\ \A n \in 0..Migrations : None # 0..(n - 1)
    BY DEF Schema!SchemaConstants
  <2> HIDE DEF s
  <2>2. /\ Standing(p) /\ opener[p] \in [at : Stages, next : Nat]
        /\ tables \in [Store -> SUBSET Nat] /\ DOMAIN recorded = Store /\ beside \subseteq Opener
        /\ writing \in Opener \cup {None} /\ VersionsTrue
    BY DEF SchemaIInv, SchemaTypeOK
  <2>3. PICK m \in 0..Migrations : Applied(s, m)
    BY <2>1 DEF SchemaIInv, VersionsTrue
  <2>4. \A a \in Stages, n \in Nat : Schema!Goes(p, a, n) =>
           /\ opener'[p] = [at |-> a, next |-> n]
           /\ \A q \in Opener : q # p => opener'[q] = opener[q]
    BY DEF Schema!Goes, SchemaIInv, SchemaTypeOK
  <2>5. p \in Schema!Busy /\ ~Schema!At(p, "commit") => writing # p
    BY DEF SchemaIInv, OneWriter
\* Others stand as before where tables and version tables stay.
  <2>6. ASSUME UNCHANGED <<tables, recorded>>, beside \ {p} \subseteq beside',
               NEW a \in Stages, NEW n \in Nat, Schema!Goes(p, a, n)
        PROVE  VersionsTrue' /\ \A q \in Opener \ {p} : Standing(q)'
    <3>1. VersionsTrue'
      BY <2>2, <2>6 DEF VersionsTrue, Applied
    <3>2. ASSUME NEW q \in Opener, q # p PROVE Standing(q)'
      BY <2>4, <2>6, <3>2 DEF SchemaIInv, Standing, Schema!At
    <3> QED  BY <3>1, <3>2
  <2>7. CASE Schema!Open(p)
    <3>1. UNCHANGED <<tables, recorded>> /\ Schema!Goes(p, "create", 0) /\ writing' = writing
      BY <2>7 DEF Schema!Open
    <3>2. Standing(p)'
      <4>1. opener'[p] = [at |-> "create", next |-> 0]
        BY <2>4, <3>1 DEF Stages
      <4> QED  BY <4>1 DEF Standing, Schema!At
    <3>3. /\ beside' \subseteq Opener /\ beside \subseteq beside'
          /\ Schema!Busy = {} \/ Schema!Busy \cup {p} \subseteq beside'
      BY <2>2, <2>7 DEF Schema!Open, Schema!Busy
    <3>4. writing # p
      BY <2>7 DEF Schema!Open, Schema!At, SchemaIInv, OneWriter
    <3>5. VersionsTrue' /\ \A q \in Opener \ {p} : Standing(q)'
      BY <2>6, <3>1, <3>3 DEF Stages
    <3> QED  BY <2>2, <3>1, <3>2, <3>3, <3>4, <3>5, SchemaStep DEF Stages
  <2>8. CASE Schema!CreateVersionTable(p)
    <3>1. /\ Schema!At(p, "create") /\ Schema!Goes(p, "read", 0) /\ UNCHANGED <<tables, writing, beside>>
          /\ recorded' = IF recorded[s] = None THEN [recorded EXCEPT ![s] = {}] ELSE recorded
      BY <2>8 DEF Schema!CreateVersionTable, s
    <3>2. p \in Schema!Busy /\ writing # p
      BY <2>5, <3>1 DEF Schema!Busy, Schema!At
    <3>3. opener'[p] = [at |-> "read", next |-> 0]
      BY <2>4, <3>1 DEF Stages
    <3>4. None # {}
      <4>1. 0..(0 - 1) = {} /\ 0 \in 0..Migrations
        BY <2>1
      <4> QED  BY <2>1, <4>1
    <3>5. /\ DOMAIN recorded' = Store /\ recorded'[s] # None
          /\ recorded[s] # None => recorded'[s] = recorded[s]
          /\ recorded[s] = None => recorded'[s] = {}
          /\ \A r \in Store : r # s => recorded'[r] = recorded[r]
      BY <2>1, <2>2, <3>1, <3>4
    <3>6. VersionsTrue'
      <4> SUFFICES ASSUME NEW r \in Store PROVE \E n \in 0..Migrations : Applied(r, n)'
        BY DEF VersionsTrue
      <4>1. CASE r = s
        <5>1. recorded[s] = None => tables[s] = {}
          <6>1. recorded[s] = None => m = 0
            BY <2>1, <2>3 DEF Applied
          <6>2. 0..(0 - 1) = {}
            OBVIOUS
          <6> QED  BY <2>3, <6>1, <6>2 DEF Applied
        <5> QED  BY <2>3, <3>1, <3>5, <4>1, <5>1 DEF Applied
      <4>2. CASE r # s
        BY <2>2, <3>1, <3>5, <4>2 DEF Applied, VersionsTrue
      <4> QED  BY <4>1, <4>2
    <3>7. Standing(p)'
      BY <3>3, <3>5 DEF Standing, Schema!At, s
    <3>8. ASSUME NEW q \in Opener, q # p PROVE Standing(q)'
      BY <2>1, <2>4, <3>1, <3>5, <3>8 DEF SchemaIInv, Standing, Schema!At, Stages
    <3> QED  BY <2>2, <3>1, <3>2, <3>5, <3>6, <3>7, <3>8, SchemaStep DEF Stages
  <2>9. CASE Schema!ReadVersion(p)
    <3> DEFINE n == Schema!Max(recorded[s] \cup {-1}) + 1
               a == IF n = Migrations THEN "open" ELSE "migrate"
    <3>1. Schema!At(p, "read") /\ Schema!Goes(p, a, n) /\ UNCHANGED <<tables, recorded, writing, beside>>
      BY <2>9 DEF Schema!ReadVersion, s
    <3>2. recorded[s] = 0..(m - 1) /\ tables[s] = 0..(m - 1) /\ recorded[s] # None
      BY <2>2, <2>3, <3>1 DEF Standing, Applied, Schema!At, s
    <3>3. n = m
      <4>1. Schema!Max((0..(m - 1)) \cup {-1}) = m - 1
        BY <2>3, Highest
      <4> QED  BY <2>3, <3>2, <4>1
    <3> HIDE DEF n
    <3>4. a \in Stages /\ n \in Nat /\ n <= Migrations /\ a # "commit"
      BY <2>1, <2>3, <3>3 DEF Stages
    <3>5. opener'[p] = [at |-> a, next |-> n]
      BY <2>4, <3>1, <3>4
    <3>6. p \in Schema!Busy /\ writing # p
      BY <2>5, <3>1 DEF Schema!Busy, Schema!At
    <3>7. Standing(p)'
      <4>1. n \notin tables[s]
        BY <2>3, <3>2, <3>3
      <4> QED  BY <2>1, <3>1, <3>2, <3>3, <3>4, <3>5, <4>1 DEF Standing, Schema!At, s
    <3>8. VersionsTrue' /\ \A q \in Opener \ {p} : Standing(q)'
      BY <2>6, <3>1, <3>4
    <3> QED  BY <2>2, <3>1, <3>4, <3>6, <3>7, <3>8, SchemaStep
  <2>10. CASE Schema!Migrate(p)
    <3>1. Schema!At(p, "migrate") /\ UNCHANGED <<tables, recorded, beside>> /\ writing = None
      BY <2>10 DEF Schema!Migrate
    <3>2. p \in Schema!Busy
      BY <3>1 DEF Schema!Busy, Schema!At
    <3>3. CASE opener[p].next \in tables[s]
      <4>1. Schema!Goes(p, "failed", 0) /\ writing' = writing
        BY <2>10, <3>3 DEF Schema!Migrate, s
      <4>2. p \in beside
        BY <2>2, <3>1, <3>3 DEF Standing, s
      <4>3. Standing(p)'
        <5>1. opener'[p] = [at |-> "failed", next |-> 0]
          BY <2>4, <4>1 DEF Stages
        <5> QED  BY <3>1, <4>2, <5>1 DEF Standing, Schema!At
      <4>4. VersionsTrue' /\ \A q \in Opener \ {p} : Standing(q)'
        BY <2>6, <3>1, <4>1 DEF Stages
      <4> QED  BY <2>1, <2>2, <3>1, <3>2, <4>1, <4>3, <4>4, SchemaStep DEF Stages
    <3>4. CASE opener[p].next \notin tables[s]
      <4> DEFINE n == opener[p].next
      <4>1. Schema!Goes(p, "commit", n) /\ writing' = p /\ n \in Nat
        BY <2>2, <2>10, <3>4 DEF Schema!Migrate, s
      <4>2. n < Migrations /\ tables[s] = 0..(n - 1)
        <5>1. n < Migrations /\ 0..(n - 1) \subseteq tables[s] /\ n \notin 0..(m - 1)
          BY <2>2, <2>3, <3>1, <3>4 DEF Standing, Applied, s
        <5>2. 0..(m - 1) \subseteq 0..(n - 1)
          BY <2>3, <4>1, <5>1
        <5> QED  BY <2>3, <5>1, <5>2 DEF Applied
      <4>3. opener'[p] = [at |-> "commit", next |-> n]
        BY <2>4, <4>1 DEF Stages
      <4>4. Standing(p)'
        BY <2>2, <3>1, <4>2, <4>3 DEF Standing, Schema!At, s
      <4>5. VersionsTrue' /\ \A q \in Opener \ {p} : Standing(q)'
        BY <2>6, <3>1, <4>1 DEF Stages
      <4> QED  BY <2>1, <2>2, <3>1, <3>2, <4>1, <4>4, <4>5, SchemaStep DEF Stages
    <3> QED  BY <3>3, <3>4
  <2>11. CASE Schema!Commit(p)
    <3>0. PICK n : n = opener[p].next
      OBVIOUS
    <3> DEFINE a == IF n + 1 = Migrations THEN "open" ELSE "migrate"
    <3>1. /\ Schema!At(p, "commit") /\ Schema!Goes(p, a, n + 1) /\ writing' = None /\ beside' = beside
          /\ tables' = [tables EXCEPT ![s] = @ \cup {n}]
          /\ recorded' = [recorded EXCEPT ![s] = @ \cup {n}]
      BY <2>11, <3>0 DEF Schema!Commit, s
    <3>2. /\ n \in Nat /\ n < Migrations /\ tables[s] = 0..(n - 1) /\ recorded[s] = tables[s]
      BY <2>2, <2>3, <3>0, <3>1 DEF Standing, Applied, Schema!At, s
    <3>3. (0..(n - 1)) \cup {n} = 0..((n + 1) - 1)
      BY <3>2
    <3>4. /\ tables' \in [Store -> SUBSET Nat] /\ DOMAIN recorded' = Store
          /\ tables'[s] = 0..((n + 1) - 1) /\ recorded'[s] = tables'[s]
          /\ \A r \in Store : r # s => tables'[r] = tables[r] /\ recorded'[r] = recorded[r]
          /\ tables'[s] = tables[s] \cup {n}
      BY <2>1, <2>2, <3>1, <3>2, <3>3
    <3>5. /\ a \in Stages /\ n + 1 \in Nat /\ n + 1 \in 0..Migrations /\ a \in {"open", "migrate"}
          /\ a = "migrate" => n + 1 < Migrations
          /\ a = "open" => n + 1 = Migrations
      BY <2>1, <3>2 DEF Stages
    <3>6. opener'[p] = [at |-> a, next |-> n + 1]
      BY <2>4, <3>1, <3>5
    <3> HIDE DEF a
    <3>7. p \in Schema!Busy /\ writing = p
      BY <3>1 DEF Schema!Busy, Schema!At, SchemaIInv, OneWriter
    <3>8. VersionsTrue'
      <4>1. Applied(s, n + 1)'
        BY <3>4 DEF Applied
      <4> QED  BY <2>2, <3>4, <3>5, <4>1 DEF VersionsTrue, Applied
    <3>9. Standing(p)'
      <4>1. n + 1 \notin tables'[s] /\ recorded'[s] # None
        BY <2>1, <3>4, <3>5
      <4> QED  BY <3>4, <3>5, <3>6, <4>1 DEF Standing, Schema!At, s
    <3>10. ASSUME NEW q \in Opener, q # p PROVE Standing(q)'
      <4>1. opener'[q] = opener[q] /\ StoreOf[q] \in Store /\ Standing(q)
        BY <2>1, <2>4, <3>1, <3>5, <3>10 DEF SchemaIInv
      <4>2. CASE StoreOf[q] # s
        BY <3>1, <3>4, <4>1, <4>2 DEF Standing, Schema!At
      <4>3. CASE StoreOf[q] = s
        <5>1. recorded'[s] # None /\ tables[s] \subseteq tables'[s]
          BY <2>1, <3>4, <3>5
        <5>2. ~Schema!At(q, "commit")
          BY <3>7, <3>10 DEF SchemaIInv, OneWriter
        <5>3. Schema!At(q, "migrate") => q \in beside
          BY <3>7, <3>10 DEF SchemaIInv, Together, Schema!Busy, Schema!At
        <5> QED  BY <3>1, <4>1, <4>3, <5>1, <5>2, <5>3 DEF Standing, Schema!At
      <4> QED  BY <4>2, <4>3
    <3>11. \A q \in Opener \ {p} : writing' = q <=> writing = q
      BY <2>1, <3>1, <3>7
    <3> QED  BY <2>1, <2>2, <3>1, <3>4, <3>5, <3>7, <3>8, <3>9, <3>10, <3>11, SchemaStep
  <2>12. CASE Schema!LockedOut(p)
    <3>1. /\ Schema!At(p, "create") \/ Schema!At(p, "migrate")
          /\ writing # None /\ Schema!Goes(p, "failed", 0) /\ UNCHANGED <<tables, recorded, writing, beside>>
      BY <2>12 DEF Schema!LockedOut
    <3>2. p \in Schema!Busy /\ writing # p
      BY <2>5, <3>1 DEF Schema!Busy, Schema!At
    <3>3. p \in beside
      <4>1. writing \in Opener /\ Schema!At(writing, "commit")
        BY <2>2, <3>1 DEF SchemaIInv, OneWriter
      <4> QED  BY <3>2, <4>1 DEF SchemaIInv, Together, Schema!Busy, Schema!At
    <3>4. Standing(p)'
      <4>1. opener'[p] = [at |-> "failed", next |-> 0]
        BY <2>4, <3>1 DEF Stages
      <4> QED  BY <3>1, <3>3, <4>1 DEF Standing, Schema!At
    <3>5. VersionsTrue' /\ \A q \in Opener \ {p} : Standing(q)'
      BY <2>6, <3>1 DEF Stages
    <3> QED  BY <2>2, <3>1, <3>2, <3>4, <3>5, SchemaStep DEF Stages
  <2>13. CASE Schema!Leave(p)
    <3>1. /\ Schema!Goes(p, "closed", 0) /\ UNCHANGED <<tables, recorded>> /\ beside' = beside \ {p}
          /\ writing' = IF writing = p THEN None ELSE writing
      BY <2>13 DEF Schema!Leave
    <3>2. Standing(p)'
      <4>1. opener'[p] = [at |-> "closed", next |-> 0]
        BY <2>4, <3>1 DEF Stages
      <4> QED  BY <4>1 DEF Standing, Schema!At
    <3>3. VersionsTrue' /\ \A q \in Opener \ {p} : Standing(q)'
      BY <2>6, <3>1 DEF Stages
    <3>4. /\ writing' \in Opener \cup {None} /\ writing' # p
          /\ \A q \in Opener \ {p} : writing' = q <=> writing = q
          /\ beside' \subseteq Opener
      BY <2>1, <2>2, <3>1
    <3> QED  BY <2>2, <3>1, <3>2, <3>3, <3>4, SchemaStep DEF Stages
  <2> QED  BY <1>2, <2>7, <2>8, <2>9, <2>10, <2>11, <2>12, <2>13
<1> QED  BY <1>1, <1>2 DEF Schema!Next

LEMMA SchemaMeans == ASSUME Schema!SchemaConstants, SchemaIInv PROVE Schema!SchemaWhole
<1>1. ASSUME NEW p \in Opener, Schema!At(p, "open") PROVE recorded[StoreOf[p]] = 0..(Migrations - 1)
  <2>1. PICK n \in 0..Migrations : Applied(StoreOf[p], n)
    BY DEF SchemaIInv, VersionsTrue, Schema!SchemaConstants
  <2>2. 0..(Migrations - 1) \subseteq 0..(n - 1) /\ recorded[StoreOf[p]] = 0..(n - 1)
    BY <1>1, <2>1 DEF SchemaIInv, Standing, Applied, Schema!At
  <2>3. n = Migrations
    <3>1. Migrations = 0 \/ Migrations - 1 \in 0..(Migrations - 1)
      BY DEF Schema!SchemaConstants
    <3> QED  BY <2>1, <2>2, <3>1 DEF Schema!SchemaConstants
  <2> QED  BY <2>2, <2>3
<1> QED  BY <1>1 DEF Schema!SchemaWhole, SchemaIInv, VersionsTrue, Applied, Standing

LEMMA SchemaComponent == Schema!Spec => []Schema!SchemaWhole
<1>1. Schema!Init => SchemaIInv
  BY SchemaAssumption, SchemaInitIInv
<1>2. SchemaIInv /\ [Schema!Next]_Schema!vars => SchemaIInv'
  BY SchemaAssumption, SchemaNextIInv
<1>3. SchemaIInv => Schema!SchemaWhole
  BY SchemaAssumption, SchemaMeans
<1> QED  BY <1>1, <1>2, <1>3, PTL DEF Schema!Spec

\* For any number of connections, stores and migrations, whatever opens race, fail or
\* die: the version table of a store tells its migrations, which are applied in order
\* (SchemaWhole).
THEOREM MigrationsRecorded == SpecParts => []SchemaWhole
<1>1. InitParts => Schema!Init
  BY DEF InitParts
<1>2. [NextPart]_allVars => [Schema!Next]_Schema!vars
  BY DEF NextPart, Rest, Rests, allVars, schemaVars, Schema!vars
<1>3. Schema!SchemaWhole => SchemaWhole
  BY DEF SchemaWhole
<1> QED  BY <1>1, <1>2, <1>3, SchemaComponent, PTL DEF SpecParts, Schema!Spec

--------------------------------------------------------------------------------
(***************************************************************************)
(* Consolidation, for any episodes and any runs beside each other.  What a run has*)
(* put or will put is what its episodes promote, and what another run of the same*)
(* episodes puts does no harm to it (PutsHeld, Stands).                    *)
(***************************************************************************)
LEMMA MemoryCounts ==
    \A S : /\ Memory!Cardinality(S) = Cardinality(S)
           /\ Memory!IsFiniteSet(S) <=> IsFiniteSet(S)
  BY DEF Memory!Cardinality, Cardinality, Memory!IsFiniteSet, IsFiniteSet

Putting(r) == run[r].at = "putting"
UniqueIds(es) == \A i, j \in 1..Len(es) : es[i].id = es[j].id => i = j
Earned(f) == /\ Cardinality(f.from) >= MinOccurrences
             /\ Cardinality({e.session : e \in f.from}) >= MinSessions
             /\ \A e \in f.from : e.sensitivity <= f.sensitivity
             /\ f.text \subseteq UNION {e.summary : e \in f.from}

Fact == UNION {Memory!Promoted(es) : es \in Seq(Episode)}
Job == [at : {"idle", "putting"}, todo : SUBSET Fact, read : Seq(Episode), alone : BOOLEAN, call_fn : BOOLEAN]
MemoryTypeOK == /\ episodes \in Seq(Episode)
                /\ run \in [Runner -> Job]
                /\ applied \in Seq(Episode) \cup {None}

\* What is to be put was promoted from what was read, and by a run that is alone
\* from what every other run has read.
Todo == \A r \in Runner : Putting(r) => /\ run[r].todo \subseteq Memory!Promoted(run[r].read)
                                        /\ run[r].alone => \A q \in Runner : Putting(q) => run[q].read = run[r].read

\* While ids are unique they are so in everything that was read.
Unique == unique => /\ UniqueIds(episodes)
                    /\ \A r \in Runner : Putting(r) => UniqueIds(run[r].read)
                    /\ \A f \in facts : Earned(f)

\* A run that is alone has put what it need not put any more, and what was applied stands.
Agree(es) == \A r \in Runner : Putting(r) => run[r].read = es
PutsHeld == \A r \in Runner : Putting(r) /\ run[r].alone =>
               \A C \in Memory!Promoted(run[r].read) : Memory!Sole(C, run[r].read) => C \in run[r].todo \/ Memory!Held(C)
Stands == applied # None /\ Agree(applied) =>
             \A C \in Memory!Promoted(applied) : Memory!Sole(C, applied) => Memory!Held(C)

MemoryIInv == MemoryTypeOK /\ Todo /\ Unique /\ PutsHeld /\ Stands

--------------------------------------------------------------------------------
(* What is promoted *)

LEMMA FirstIndex ==
  ASSUME NEW S \in SUBSET Nat, S # {}
  PROVE  \E x \in S : \A y \in S : x <= y
<1>1. \E x \in S : \A y \in S : ~(<<y, x>> \in OpToRel(<, Nat))
  BY NatLessThanWellFounded, WFMin
<1>2. PICK x \in S : \A y \in S : ~(<<y, x>> \in OpToRel(<, Nat))
  BY <1>1
<1>3. \A y \in S : ~(y < x)
  BY <1>2 DEF OpToRel
<1> QED  BY <1>3

\* Some of the members of a finite set have the most.
LEMMA Largest ==
  ASSUME NEW N \in Nat, NEW f, \A i \in 1..N : f[i] \in Nat, NEW C \in SUBSET (1..N), C # {}
  PROVE  \E i \in C : \A j \in C : f[j] <= f[i]
<1>1. \E b \in Nat : \A i \in 1..N : f[i] <= b
  <2> DEFINE Above(n) == {b \in Nat : \A k \in 1..n : f[k] <= b}
             Bad == {n \in 0..N : Above(n) = {}}
  <2>1. SUFFICES ASSUME Bad # {} PROVE FALSE
    <3>1. N \in 0..N
      OBVIOUS
    <3> QED  BY <3>1
  <2>2. Bad \in SUBSET Nat
    OBVIOUS
  <2>3. PICK m \in Bad : \A n \in Bad : m <= n
    <3> HIDE DEF Bad
    <3> QED  BY <2>1, <2>2, FirstIndex
  <2>4. m \in 0..N /\ Above(m) = {}
    OBVIOUS
  <2>5. 0 \in Above(0)
    OBVIOUS
  <2>6. m - 1 \in 0..N /\ m - 1 < m /\ m \in 1..N /\ 1..m = 1..(m - 1) \cup {m}
    <3> HIDE DEF Above
    <3> QED  BY <2>4, <2>5
  <2>7. PICK b : b \in Above(m - 1)
    <3>1. m - 1 \notin Bad
      <4> HIDE DEF Bad
      <4> QED  BY <2>2, <2>3, <2>6
    <3> QED  BY <2>6, <3>1
  <2>8. b \in Nat /\ \A k \in 1..(m - 1) : f[k] <= b
    BY <2>7
  <2>9. PICK c \in Nat : b <= c /\ f[m] <= c
    <3>1. f[m] \in Nat
      BY <2>6
    <3>2. b + f[m] \in Nat /\ b <= b + f[m] /\ f[m] <= b + f[m]
      BY <2>8, <3>1
    <3> QED  BY <3>2
  <2>10. \A k \in 1..(m - 1) : f[k] <= c
    <3>1. \A k \in 1..(m - 1) : k \in 1..N /\ f[k] \in Nat
      BY <2>6
    <3> QED  BY <2>8, <2>9, <3>1
  <2>11. c \in Above(m)
    BY <2>6, <2>9, <2>10
  <2> QED  BY <2>4, <2>11
<1>2. PICK b \in Nat : \A i \in 1..N : f[i] <= b
  BY <1>1
<1> DEFINE D == {b - f[i] : i \in C}
<1>3. D \in SUBSET Nat /\ D # {}
  <2>1. ASSUME NEW i \in C PROVE b - f[i] \in Nat
    <3>1. f[i] \in Nat /\ f[i] <= b /\ b \in Nat
      BY <1>2
    <3> QED  BY <3>1
  <2> QED  BY <2>1
<1>4. PICK d \in D : \A e \in D : d <= e
  <2> HIDE DEF D
  <2> QED  BY <1>3, FirstIndex
<1>5. PICK i \in C : d = b - f[i]
  OBVIOUS
<1>6. ASSUME NEW j \in C PROVE f[j] <= f[i]
  <2>1. b - f[i] <= b - f[j]
    BY <1>4, <1>5
  <2>2. f[i] \in Nat /\ f[j] \in Nat
    OBVIOUS
  <2> QED  BY <1>2, <2>1, <2>2
<1> QED  BY <1>6

LEMMA EpisodeAt == ASSUME Memory!MemoryConstants, NEW es \in Seq(Episode), NEW i \in 1..Len(es)
                   PROVE  /\ es[i] \in Episode /\ es[i].id \in Nat /\ es[i].sensitivity \in Nat
                          /\ IsFiniteSet(es[i].summary) /\ Cardinality(es[i].summary) \in Nat
<1>1. es[i] \in Episode
  OBVIOUS
<1>2. IsFiniteSet(es[i].summary)
  BY MemoryCounts, <1>1 DEF Memory!MemoryConstants
<1> QED  BY <1>1, <1>2, FS_CardinalityType DEF Memory!MemoryConstants

LEMMA FirstIn == ASSUME Memory!MemoryConstants, NEW es \in Seq(Episode), NEW C \in SUBSET (1..Len(es)), C # {}
                 PROVE  Memory!First(es, C) \in C
<1> DEFINE I == {es[i].id : i \in C}
<1>1. I \in SUBSET Nat /\ I # {}
  BY EpisodeAt
<1>2. PICK n \in I : \A m \in I : n <= m
  <2> HIDE DEF I
  <2> QED  BY <1>1, FirstIndex
<1> DEFINE J == {i \in C : es[i].id = n}
<1>3. J \in SUBSET Nat /\ J # {}
  <2>1. \E i \in C : es[i].id = n
    OBVIOUS
  <2>2. Len(es) \in Nat /\ C \in SUBSET (1..Len(es))
    OBVIOUS
  <2>3. C \subseteq Nat
    BY <2>2
  <2>4. J \subseteq C
    OBVIOUS
  <2>5. J # {}
    BY <2>1
  <2> QED  BY <2>3, <2>4, <2>5
<1>4. PICK i \in J : \A j \in J : i <= j
  <2> HIDE DEF J
  <2> QED  BY <1>3, FirstIndex
<1>5. i \in C /\ es[i].id = n /\ i \in Nat
  OBVIOUS
<1>6. ASSUME NEW j \in C \ {i} PROVE Memory!Before(es, i, j)
  <2>1. n <= es[j].id /\ es[j].id \in Nat /\ n \in Nat /\ j \in Nat
    <3>1. j \in C /\ j \in 1..Len(es) /\ j \in Nat
      OBVIOUS
    <3>2. es[j].id \in I
      BY <3>1
    <3> HIDE DEF I, J
    <3>3. n <= es[j].id
      BY <1>2, <3>2
    <3>4. es[j].id \in Nat /\ n \in Nat
      BY <1>1, <3>2
    <3> QED  BY <3>1, <3>3, <3>4
  <2>2. CASE n < es[j].id
    BY <1>5, <2>2 DEF Memory!Before
  <2>3. CASE n = es[j].id
    <3>1. i <= j
      BY <1>4, <2>3
    <3> QED  BY <1>5, <2>1, <2>3, <3>1 DEF Memory!Before
  <2> QED  BY <2>1, <2>2, <2>3
<1>7. \E k \in C : \A j \in C \ {k} : Memory!Before(es, k, j)
  BY <1>5, <1>6
<1> QED  BY <1>7 DEF Memory!First

LEMMA ClusterOf == ASSUME NEW es \in Seq(Episode), NEW C \in Memory!Clusters(es)
                   PROVE  C \in SUBSET (1..Len(es)) /\ C # {}
<1> DEFINE Like(g, i) == {j \in DOMAIN es : /\ Memory!Before(es, j, i) /\ g[j] = j
                                            /\ Memory!Similar(es[i].summary, es[j].summary)}
           Is(g) == g = [i \in DOMAIN es |-> IF Like(g, i) = {} THEN i ELSE Memory!First(es, Like(g, i))]
           seed == CHOOSE g : Is(g)
<1>1. Memory!Clusters(es) = {{i \in DOMAIN es : seed[i] = k} : k \in {seed[i] : i \in DOMAIN es}}
  BY DEF Memory!Clusters
<1> HIDE DEF seed
<1>2. DOMAIN es = 1..Len(es)
  OBVIOUS
<1> QED  BY <1>1, <1>2

\* The canonical text is that of a member.
LEMMA CanonicalIn == ASSUME Memory!MemoryConstants, NEW es \in Seq(Episode), NEW C \in SUBSET (1..Len(es)), C # {}
                     PROVE  \E i \in C : Memory!Canonical(es, C) = es[i].summary
<1> DEFINE f == [i \in 1..Len(es) |-> Cardinality(es[i].summary)]
           best == {i \in C : \A j \in C : Cardinality(es[j].summary) <= Cardinality(es[i].summary)}
<1>1. Len(es) \in Nat /\ \A i \in 1..Len(es) : f[i] \in Nat
  BY EpisodeAt
<1>2. \E i \in C : \A j \in C : f[j] <= f[i]
  <2> HIDE DEF f
  <2> QED  BY <1>1, Largest
<1>3. best # {} /\ best \in SUBSET (1..Len(es)) /\ best \subseteq C
  BY <1>2
<1>4. Memory!First(es, best) \in best
  <2> HIDE DEF best
  <2> QED  BY <1>3, FirstIn
<1>5. Memory!Canonical(es, C) = es[Memory!First(es, best)].summary
  BY MemoryCounts DEF Memory!Canonical
<1> HIDE DEF best
<1> QED  BY <1>3, <1>4, <1>5

LEMMA TextAllowed == ASSUME NEW es, NEW f \in Memory!Promoted(es) PROVE f.text \in f.texts
<1>1. PICK C \in Memory!Clusters(es) : f = Memory!FactOf(es, C)
  BY DEF Memory!Promoted
<1>2. f.text = Memory!Canonical(es, C) /\ f.texts = Memory!Refined(es, C)
  BY <1>1 DEF Memory!FactOf
<1> QED  BY <1>2 DEF Memory!Refined

\* While ids are unique, whatever is put of what was promoted was earned.
LEMMA PromotedEarned ==
  ASSUME Memory!MemoryConstants, NEW es \in Seq(Episode), UniqueIds(es), NEW f \in Memory!Promoted(es), NEW t \in f.texts
  PROVE  Earned([f EXCEPT !.text = t])
<1>1. PICK C \in Memory!Clusters(es) :
         /\ f = Memory!FactOf(es, C) /\ Cardinality(C) >= MinOccurrences
         /\ Cardinality({Memory!ById(es, i).session : i \in C}) >= MinSessions
  BY MemoryCounts DEF Memory!Promoted
<1>2. C \in SUBSET (1..Len(es)) /\ C # {} /\ Len(es) \in Nat
  BY ClusterOf
<1>3. \A i \in 1..Len(es) : Memory!ById(es, i) = es[i]
  <2> SUFFICES ASSUME NEW i \in 1..Len(es) PROVE Memory!ById(es, i) = es[i]
    OBVIOUS
  <2>1. {j \in DOMAIN es : es[j].id = es[i].id} = {i}
    BY DEF UniqueIds
  <2>2. Memory!Max({i}) = i
    <3>1. \E x \in {i} : \A y \in {i} : x >= y
      OBVIOUS
    <3> QED  BY <3>1 DEF Memory!Max
  <2> QED  BY <2>1, <2>2 DEF Memory!ById
<1> DEFINE S == {Memory!ById(es, i).sensitivity : i \in C}
           from == {es[i] : i \in C}
<1>4. /\ f.from = from /\ f.texts = Memory!Refined(es, C) /\ f.sensitivity = Memory!Max(S)
      /\ [f EXCEPT !.text = t].from = f.from /\ [f EXCEPT !.text = t].text = t
      /\ [f EXCEPT !.text = t].sensitivity = f.sensitivity
  BY <1>1 DEF Memory!FactOf
<1>5. Cardinality(from) = Cardinality(C)
  <2> DEFINE g == [i \in C |-> es[i]]
  <2>1. g \in Surjection(C, from)
    BY DEF Surjection
  <2>2. \A i, j \in C : g[i] = g[j] => i = j
    <3>1. \A i, j \in C : es[i].id = es[j].id => i = j
      BY <1>2 DEF UniqueIds
    <3> QED  BY <3>1
  <2>3. IsFiniteSet(C)
    <3>1. IsFiniteSet(1..Len(es))
      BY <1>2, FS_Interval
    <3> QED  BY <1>2, <3>1, FS_Subset
  <2>4. Cardinality(from) = Cardinality(C) <=> \A i, j \in C : g[i] = g[j] => i = j
    <3> HIDE DEF g, from
    <3>1. Cardinality(from) = Cardinality(C) <=> g \in Injection(C, from)
      BY <2>1, <2>3, FS_Surjection
    <3>2. g \in [C -> from]
      BY <2>1 DEF Surjection
    <3> QED  BY <3>1, <3>2 DEF Injection, IsInjective
  <2> QED  BY <2>2, <2>4
<1>6. {e.session : e \in from} = {Memory!ById(es, i).session : i \in C}
  BY <1>2, <1>3
<1>7. \A e \in from : e.sensitivity <= Memory!Max(S)
  <2> DEFINE s == [i \in 1..Len(es) |-> es[i].sensitivity]
  <2>1. \A i \in 1..Len(es) : s[i] \in Nat
    BY EpisodeAt
  <2>2. PICK i \in C : \A j \in C : s[j] <= s[i]
    <3> HIDE DEF s
    <3> QED  BY <1>2, <2>1, Largest
  <2>3. S = {es[j].sensitivity : j \in C} /\ \A x \in S : x \in Nat
    BY <1>2, <1>3, <2>1
  <2>4. \E x \in S : \A y \in S : x >= y
    BY <1>2, <2>1, <2>2, <2>3
  <2>5. Memory!Max(S) \in S /\ \A y \in S : Memory!Max(S) >= y
    <3> HIDE DEF S
    <3> QED  BY <2>4 DEF Memory!Max
  <2> HIDE DEF S
  <2> QED  BY <2>3, <2>5
<1>8. t \subseteq UNION {e.summary : e \in from}
  <2>1. CASE t = Memory!Canonical(es, C)
    BY <1>2, <2>1, CanonicalIn
  <2>2. CASE t \subseteq UNION {Memory!ById(es, i).summary : i \in C}
    BY <1>2, <1>3, <2>2
  <2> QED  BY <1>4, <2>1, <2>2 DEF Memory!Refined
<1> QED  BY <1>1, <1>4, <1>5, <1>6, <1>7, <1>8 DEF Earned

--------------------------------------------------------------------------------
(* The episodic store *)

\* A record taken out by its position: the others stay.
LEMMA TakenOut ==
  ASSUME NEW R, NEW s \in Seq(R), NEW k \in 1..Len(s)
  PROVE  LET t == Memory!RemoveAt(s, k)
         IN /\ t \in Seq(R) /\ Len(t) = Len(s) - 1
            /\ \A i \in 1..Len(t) : t[i] = IF i < k THEN s[i] ELSE s[i + 1]
<1>1. Len(s) \in Nat /\ k \in Nat
  OBVIOUS
<1> DEFINE a == SubSeq(s, 1, k - 1)
           b == SubSeq(s, k + 1, Len(s))
<1>2. /\ a \in Seq(R) /\ Len(a) = k - 1 /\ \A i \in 1..(k - 1) : a[i] = s[i]
      /\ b \in Seq(R) /\ Len(b) = Len(s) - k /\ \A i \in 1..(Len(s) - k) : b[i] = s[i + k]
  BY <1>1, SubSeqProperties
<1>3. Memory!RemoveAt(s, k) = a \o b
  BY DEF Memory!RemoveAt
<1> HIDE DEF a, b
<1>4. /\ a \o b \in Seq(R) /\ Len(a \o b) = Len(a) + Len(b)
      /\ \A i \in 1..(Len(a) + Len(b)) : (a \o b)[i] = IF i <= Len(a) THEN a[i] ELSE b[i - Len(a)]
  BY <1>2, ConcatProperties
<1>5. Len(a \o b) = Len(s) - 1
  BY <1>1, <1>2, <1>4
<1>6. ASSUME NEW i \in 1..(Len(s) - 1) PROVE (a \o b)[i] = IF i < k THEN s[i] ELSE s[i + 1]
  <2>1. CASE i < k
    BY <1>1, <1>2, <1>4, <2>1
  <2>2. CASE ~(i < k)
    <3>1. i - (k - 1) \in 1..(Len(s) - k) /\ (i - (k - 1)) + k = i + 1
      BY <1>1, <2>2
    <3>2. (a \o b)[i] = b[i - (k - 1)]
      BY <1>1, <1>2, <1>4, <2>2
    <3> QED  BY <1>2, <2>2, <3>1, <3>2
  <2> QED  BY <2>1, <2>2
<1> QED  BY <1>3, <1>4, <1>5, <1>6

\* The first of the positions that satisfy a test.
LEMMA FirstOf ==
  ASSUME NEW I \in SUBSET Nat, NEW k, k = IF I # {} THEN Memory!Min(I) ELSE 0
  PROVE  IF I = {} THEN k = 0 ELSE k \in I
<1>1. CASE I # {}
  <2>1. \E x \in I : \A y \in I : x <= y
    BY <1>1, FirstIndex
  <2>2. k = CHOOSE x \in I : \A y \in I : x <= y
    BY <1>1 DEF Memory!Min
  <2> QED  BY <1>1, <2>1, <2>2
<1> QED  BY <1>1

LEMMA Added ==
  ASSUME NEW es \in Seq(Episode), NEW e \in Episode
  PROVE  /\ Append(es, e) \in Seq(Episode)
         /\ UniqueIds(es) /\ (\A i \in DOMAIN es : es[i].id # e.id) => UniqueIds(Append(es, e))
<1>1. /\ Append(es, e) \in Seq(Episode) /\ Len(Append(es, e)) = Len(es) + 1 /\ Len(es) \in Nat
      /\ \A i \in 1..Len(es) : Append(es, e)[i] = es[i]
      /\ Append(es, e)[Len(es) + 1] = e
  OBVIOUS
<1>2. ASSUME UniqueIds(es), \A i \in DOMAIN es : es[i].id # e.id,
             NEW i \in 1..Len(Append(es, e)), NEW j \in 1..Len(Append(es, e)),
             Append(es, e)[i].id = Append(es, e)[j].id
      PROVE  i = j
  <2>1. i \in 1..Len(es) \/ i = Len(es) + 1
    BY <1>1
  <2>2. j \in 1..Len(es) \/ j = Len(es) + 1
    BY <1>1
  <2>3. DOMAIN es = 1..Len(es)
    OBVIOUS
  <2> QED  BY <1>1, <1>2, <2>1, <2>2, <2>3 DEF UniqueIds
<1> QED  BY <1>1, <1>2 DEF UniqueIds

LEMMA Deleted ==
  ASSUME NEW es \in Seq(Episode), NEW k \in 1..Len(es), NEW new, new = Memory!RemoveAt(es, k)
  PROVE  new \in Seq(Episode) /\ (UniqueIds(es) => UniqueIds(new))
<1>1. /\ new \in Seq(Episode) /\ Len(new) = Len(es) - 1
      /\ \A i \in 1..Len(new) : new[i] = IF i < k THEN es[i] ELSE es[i + 1]
  BY TakenOut
<1>2. Len(es) \in Nat /\ k \in Nat /\ k >= 1 /\ k <= Len(es)
  OBVIOUS
<1>3. \A i \in 1..Len(new) : \E n \in 1..Len(es) : new[i] = es[n] /\ n = IF i < k THEN i ELSE i + 1
  BY <1>1, <1>2
<1>4. ASSUME UniqueIds(es), NEW i \in 1..Len(new), NEW j \in 1..Len(new), new[i].id = new[j].id
      PROVE  i = j
  <2>1. PICK m \in 1..Len(es) : new[i] = es[m] /\ m = IF i < k THEN i ELSE i + 1
    BY <1>3
  <2>2. PICK n \in 1..Len(es) : new[j] = es[n] /\ n = IF j < k THEN j ELSE j + 1
    BY <1>3
  <2>3. m = n
    BY <1>4, <2>1, <2>2 DEF UniqueIds
  <2>4. i \in Int /\ j \in Int
    BY <1>1
  <2> QED  BY <1>2, <2>1, <2>2, <2>3, <2>4
<1> QED  BY <1>1, <1>4 DEF UniqueIds

--------------------------------------------------------------------------------
(* Every step keeps the invariant *)

LEMMA MemoryInitIInv == Memory!Init => MemoryIInv
<1> SUFFICES ASSUME Memory!Init PROVE MemoryIInv
  OBVIOUS
<1>1. /\ Memory!Quiet \in Job /\ Memory!Quiet.at = "idle"
      /\ \A r \in Runner : run[r] = Memory!Quiet
  BY DEF Memory!Init, Memory!Quiet, Job
<1>2. \A r \in Runner : ~Putting(r)
  BY <1>1 DEF Putting
<1>3. MemoryTypeOK
  BY <1>1 DEF Memory!Init, MemoryTypeOK
<1>4. Todo /\ PutsHeld
  BY <1>2 DEF Todo, PutsHeld
<1>5. Unique
  BY <1>2 DEF Memory!Init, Unique, UniqueIds
<1>6. Stands
  <2>1. Memory!Clusters(<<>>) = {}
    BY DEF Memory!Clusters
  <2>2. Memory!Promoted(<<>>) = {}
    BY <2>1 DEF Memory!Promoted
  <2> QED  BY <2>2 DEF Memory!Init, Stands
<1> QED  BY <1>3, <1>4, <1>5, <1>6 DEF MemoryIInv

\* The episodes change, and nothing else.
LEMMA WriteIInv ==
  ASSUME MemoryIInv, NEW es \in Seq(Episode), Memory!Write(es), unique' => unique /\ (UniqueIds(episodes) => UniqueIds(es))
  PROVE  MemoryIInv'
<1>1. episodes' = es /\ facts' = facts /\ run' = run /\ applied' = applied
  BY DEF Memory!Write
<1>2. MemoryTypeOK' /\ Todo'
  BY <1>1 DEF MemoryIInv, MemoryTypeOK, Todo, Putting
<1>3. Unique'
  BY <1>1 DEF MemoryIInv, Unique, Putting
<1>4. PutsHeld'
  BY <1>1 DEF MemoryIInv, PutsHeld, Putting, Memory!Held
<1>5. Stands'
  BY <1>1 DEF MemoryIInv, Stands, Agree, Putting, Memory!Held
<1> QED  BY <1>2, <1>3, <1>4, <1>5 DEF MemoryIInv

LEMMA AddIInv == ASSUME MemoryIInv, NEW e \in Episode, Memory!AddEpisode(e) \/ Memory!ServerAdd(e) PROVE MemoryIInv'
<1>1. episodes \in Seq(Episode)
  BY DEF MemoryIInv, MemoryTypeOK
<1>2. Memory!Write(Append(episodes, e)) /\ (unique' => unique /\ ~Memory!Known(e.id))
  <2>1. CASE Memory!AddEpisode(e)
    BY <2>1, Zenon DEF Memory!AddEpisode
  <2>2. CASE Memory!ServerAdd(e)
    BY <2>2, Zenon DEF Memory!ServerAdd
  <2> QED  BY <2>1, <2>2
<1>3. /\ Append(episodes, e) \in Seq(Episode)
      /\ UniqueIds(episodes) /\ ~Memory!Known(e.id) => UniqueIds(Append(episodes, e))
  BY <1>1, Added DEF Memory!Known
<1> QED  BY <1>2, <1>3, WriteIInv

LEMMA DeleteIInv == ASSUME MemoryIInv, NEW id \in Memory!EpisodeId, Memory!DeleteEpisode(id) PROVE MemoryIInv'
<1> DEFINE I == {i \in 1..Len(episodes) : episodes[i].id = id}
           k == IF I # {} THEN Memory!Min(I) ELSE 0
           new == Memory!RemoveAt(episodes, k)
<1>1. episodes \in Seq(Episode) /\ Memory!Known(id) /\ Memory!Write(new) /\ unique' = unique
  BY DEF MemoryIInv, MemoryTypeOK, Memory!DeleteEpisode, Memory!SelectInSeq
<1>2. I \in SUBSET Nat /\ I # {}
  <2>1. DOMAIN episodes = 1..Len(episodes) /\ Len(episodes) \in Nat
    BY <1>1
  <2>2. I # {}
    BY <1>1, <2>1 DEF Memory!Known
  <2>3. 1..Len(episodes) \subseteq Nat
    BY <2>1
  <2> QED  BY <2>2, <2>3
<1>3. k \in I
  <2> HIDE DEF I
  <2> QED  BY <1>2, FirstOf
<1>4. k \in 1..Len(episodes)
  BY <1>3
<1> HIDE DEF k, I
<1>5. new \in Seq(Episode) /\ (UniqueIds(episodes) => UniqueIds(new))
  BY <1>1, <1>4, Deleted
<1> HIDE DEF new
<1> QED  BY <1>1, <1>5, WriteIInv

LEMMA ReadIInv == ASSUME MemoryIInv, NEW r \in Runner, NEW call_fn \in BOOLEAN, Memory!Read(r, call_fn) PROVE MemoryIInv'
<1> DEFINE others == {q \in Memory!Beside(r) : run[q].read # episodes}
<1>1. /\ run[r].at = "idle" /\ episodes' = episodes /\ facts' = facts /\ unique' = unique /\ applied' = applied
      /\ run' = [q \in Runner |->
            IF q = r THEN [at |-> "putting", todo |-> Memory!Promoted(episodes), read |-> episodes,
                           alone |-> others = {}, call_fn |-> call_fn]
            ELSE IF q \in others THEN [run[q] EXCEPT !.alone = FALSE] ELSE run[q]]
  BY DEF Memory!Read
<1>2. /\ episodes \in Seq(Episode) /\ run \in [Runner -> Job]
      /\ \A q \in Runner : q \in others <=> q # r /\ Putting(q) /\ run[q].read # episodes
  BY DEF MemoryIInv, MemoryTypeOK, Memory!Beside, Putting
<1> HIDE DEF others
<1>3. Memory!Promoted(episodes) \subseteq Fact
  BY <1>2 DEF Fact
<1>4. run' \in [Runner -> Job]
  <2>1. ASSUME NEW q \in Runner PROVE run'[q] \in Job
    <3>1. run[q] \in Job
      BY <1>2
    <3> QED  BY <1>1, <1>2, <1>3, <3>1 DEF Job
  <2>2. run' = [q \in Runner |-> run'[q]]
    BY <1>1
  <2> QED  BY <2>1, <2>2
<1>5. /\ run'[r].at = "putting" /\ run'[r].read = episodes /\ run'[r].todo = Memory!Promoted(episodes)
      /\ run'[r].alone <=> others = {}
      /\ \A q \in Runner \ {r} : /\ run'[q].at = run[q].at /\ run'[q].read = run[q].read /\ run'[q].todo = run[q].todo
                                 /\ run'[q].alone => run[q].alone /\ q \notin others
  BY <1>1, <1>2 DEF Job
<1>6. Todo'
  <2>1. ASSUME NEW q \in Runner, Putting(q)' PROVE run'[q].todo \subseteq Memory!Promoted(run'[q].read)
    BY <1>5, <2>1 DEF MemoryIInv, Todo, Putting
  <2>2. ASSUME NEW q \in Runner, NEW p \in Runner, Putting(q)', run'[q].alone, Putting(p)'
        PROVE  run'[p].read = run'[q].read
    BY <1>2, <1>5, <2>2 DEF MemoryIInv, Todo, Putting
  <2> QED  BY <2>1, <2>2 DEF Todo
<1>7. Unique'
  BY <1>1, <1>5 DEF MemoryIInv, Unique, Putting
<1>8. PutsHeld'
  <2>1. \A C : Memory!Held(C)' <=> Memory!Held(C)
    BY <1>1 DEF Memory!Held
  <2> QED  BY <1>5, <2>1 DEF MemoryIInv, PutsHeld, Putting
<1>9. Stands'
  <2>1. Agree(applied)' => Agree(applied)
    BY <1>1, <1>5 DEF Agree, Putting
  <2>2. \A C : Memory!Held(C)' <=> Memory!Held(C)
    BY <1>1 DEF Memory!Held
  <2> QED  BY <1>1, <2>1, <2>2 DEF MemoryIInv, Stands
<1> QED  BY <1>1, <1>2, <1>4, <1>6, <1>7, <1>8, <1>9 DEF MemoryIInv, MemoryTypeOK

\* A put of what was promoted takes nothing away that it promoted as well.
LEMMA PutKeeps ==
  ASSUME NEW es, NEW f \in Memory!Promoted(es), NEW t \in f.texts, NEW C \in Memory!Promoted(es), Memory!Sole(C, es),
         facts' = {g \in facts : g.id # f.id} \cup {[f EXCEPT !.text = t]},
         C = f \/ Memory!Held(C)
  PROVE  Memory!Held(C)'
<1>1. [f EXCEPT !.text = t].id = f.id /\ [f EXCEPT !.text = t].sensitivity = f.sensitivity
      /\ [f EXCEPT !.text = t].text = t
  <2>1. PICK D \in Memory!Clusters(es) : f = Memory!FactOf(es, D)
    BY DEF Memory!Promoted
  <2> QED  BY <2>1 DEF Memory!FactOf
<1>2. [f EXCEPT !.text = t] \in facts'
  OBVIOUS
<1>3. CASE C = f
  BY <1>1, <1>2, <1>3 DEF Memory!Held
<1>4. CASE Memory!Held(C) /\ C.id # f.id
  BY <1>4 DEF Memory!Held
<1>5. CASE C.id = f.id
  <2>1. C = f
    BY <1>5 DEF Memory!Sole
  <2> QED  BY <1>3, <2>1
<1> QED  BY <1>3, <1>4, <1>5

LEMMA PutFactIInv == ASSUME Memory!MemoryConstants, MemoryIInv, NEW r \in Runner, NEW f \in run[r].todo, Memory!PutFact(r, f) PROVE MemoryIInv'
<1>1. run \in [Runner -> Job] /\ run[r] \in Job /\ Putting(r)
  BY DEF MemoryIInv, MemoryTypeOK, Memory!PutFact, Putting
<1>2. /\ run' = [run EXCEPT ![r].todo = @ \ {f}]
      /\ episodes' = episodes /\ unique' = unique /\ applied' = applied
      /\ run[r].read \in Seq(Episode)
  BY <1>1 DEF Memory!PutFact, Job
<1>3. f \in Memory!Promoted(run[r].read)
  BY <1>1 DEF MemoryIInv, Todo
<1>4. PICK t \in f.texts : facts' = {g \in facts : g.id # f.id} \cup {[f EXCEPT !.text = t]}
  <2>1. f.text \in f.texts
    BY <1>3, TextAllowed
  <2> QED  BY <2>1 DEF Memory!PutFact
<1>5. run' \in [Runner -> Job]
  BY <1>1, <1>2 DEF Job
<1>6. /\ run'[r].todo = run[r].todo \ {f}
      /\ \A q \in Runner \ {r} : run'[q].todo = run[q].todo
      /\ \A q \in Runner : /\ run'[q].at = run[q].at /\ run'[q].read = run[q].read
                           /\ run'[q].alone = run[q].alone
  BY <1>1, <1>2 DEF Job
<1>7. Todo'
  BY <1>6 DEF MemoryIInv, Todo, Putting
<1>8. Unique'
  <2> SUFFICES ASSUME unique PROVE Unique'
    BY <1>2 DEF Unique
  <2>1. UniqueIds(run[r].read)
    BY <1>1 DEF MemoryIInv, Unique
  <2>2. Earned([f EXCEPT !.text = t])
    BY <1>2, <1>3, <2>1, PromotedEarned
  <2>3. \A g \in facts' : Earned(g)
    BY <1>4, <2>2 DEF MemoryIInv, Unique
  <2> QED  BY <1>2, <1>6, <2>3 DEF MemoryIInv, Unique, Putting
<1>9. PutsHeld'
  <2> SUFFICES ASSUME NEW q \in Runner, Putting(q)', run'[q].alone,
                      NEW C \in Memory!Promoted(run'[q].read), Memory!Sole(C, run'[q].read), C \notin run'[q].todo
               PROVE  Memory!Held(C)'
    BY DEF PutsHeld
  <2>1. Putting(q) /\ run[q].alone /\ C \in Memory!Promoted(run[q].read) /\ Memory!Sole(C, run[q].read)
    BY <1>6 DEF Putting
  <2>2. run[r].read = run[q].read
    BY <1>1, <2>1 DEF MemoryIInv, Todo
  <2>3. C = f \/ Memory!Held(C)
    BY <1>6, <2>1 DEF MemoryIInv, PutsHeld
  <2>4. f \in Memory!Promoted(run[q].read)
    BY <1>3, <2>2
  <2> QED  BY <1>4, <2>1, <2>3, <2>4, PutKeeps
<1>10. Stands'
  <2> SUFFICES ASSUME applied' # None, Agree(applied)', NEW C \in Memory!Promoted(applied'), Memory!Sole(C, applied')
               PROVE  Memory!Held(C)'
    BY DEF Stands
  <2>1. Agree(applied) /\ run[r].read = applied
    BY <1>1, <1>2, <1>6 DEF Agree, Putting
  <2>2. Memory!Held(C)
    BY <1>2, <2>1 DEF MemoryIInv, Stands
  <2>3. f \in Memory!Promoted(applied) /\ C \in Memory!Promoted(applied) /\ Memory!Sole(C, applied)
    BY <1>2, <1>3, <2>1
  <2> QED  BY <1>4, <2>2, <2>3, PutKeeps
<1> QED  BY <1>2, <1>5, <1>7, <1>8, <1>9, <1>10 DEF MemoryIInv, MemoryTypeOK

\* A run ends: what is left of it is what was applied, if that.
LEMMA EndIInv == ASSUME MemoryIInv, NEW r \in Runner, Memory!Finish(r) \/ Memory!Crash(r) PROVE MemoryIInv'
<1>1. run \in [Runner -> Job] /\ run[r] \in Job /\ Putting(r)
  BY DEF MemoryIInv, MemoryTypeOK, Memory!Finish, Memory!Crash, Putting
<1>2. /\ run' = [run EXCEPT ![r] = Memory!Quiet]
      /\ episodes' = episodes /\ facts' = facts /\ unique' = unique
      /\ \/ applied' = None
         \/ applied' = run[r].read /\ run[r].alone /\ run[r].todo = {}
         \/ applied' = run[r].read /\ applied' = applied
  BY DEF Memory!Finish, Memory!Crash
<1>3. Memory!Quiet \in Job /\ Memory!Quiet.at = "idle"
  BY DEF Memory!Quiet, Job
<1>4. run' \in [Runner -> Job]
  BY <1>1, <1>2, <1>3
<1>5. ~Putting(r)' /\ \A q \in Runner \ {r} : run'[q] = run[q]
  BY <1>1, <1>2, <1>3 DEF Putting
<1>6. applied' \in Seq(Episode) \cup {None}
  BY <1>1, <1>2 DEF Job
<1>7. Todo' /\ Unique'
  BY <1>2, <1>5 DEF MemoryIInv, Todo, Unique, Putting
<1>8. \A C : Memory!Held(C)' <=> Memory!Held(C)
  BY <1>2 DEF Memory!Held
<1>9. PutsHeld'
  BY <1>5, <1>8 DEF MemoryIInv, PutsHeld, Putting
<1>10. Stands'
  <2> SUFFICES ASSUME applied' # None, Agree(applied)', NEW C \in Memory!Promoted(applied'), Memory!Sole(C, applied')
               PROVE  Memory!Held(C)
    BY <1>8 DEF Stands
  <2>1. CASE applied' = run[r].read /\ run[r].alone /\ run[r].todo = {}
    BY <1>1, <2>1 DEF MemoryIInv, PutsHeld
  <2>2. CASE applied' = run[r].read /\ applied' = applied
    <3>1. Agree(applied)
      BY <1>5, <2>2 DEF Agree, Putting
    <3> QED  BY <2>2, <3>1 DEF MemoryIInv, Stands
  <2> QED  BY <1>2, <2>1, <2>2
<1> QED  BY <1>2, <1>4, <1>6, <1>7, <1>9, <1>10 DEF MemoryIInv, MemoryTypeOK

LEMMA MemoryNextIInv == ASSUME Memory!MemoryConstants, MemoryIInv, [Memory!Next]_Memory!vars PROVE MemoryIInv'
<1>1. CASE UNCHANGED Memory!vars
  BY <1>1 DEF Memory!vars, MemoryIInv, MemoryTypeOK, Todo, Unique, PutsHeld, Stands, Putting, Agree, Memory!Held
<1>2. CASE \E e \in Episode : Memory!AddEpisode(e) \/ Memory!ServerAdd(e)
  BY <1>2, AddIInv
<1>3. CASE \E id \in Memory!EpisodeId : Memory!DeleteEpisode(id)
  BY <1>3, DeleteIInv
<1>4. CASE \E r \in Runner : \E call_fn \in BOOLEAN : Memory!Read(r, call_fn)
  BY <1>4, ReadIInv
<1>5. CASE \E r \in Runner : \E f \in run[r].todo : Memory!PutFact(r, f)
  BY <1>5, PutFactIInv
<1>6. CASE \E r \in Runner : Memory!Finish(r) \/ Memory!Crash(r)
  BY <1>6, EndIInv
<1> QED  BY <1>1, <1>2, <1>3, <1>4, <1>5, <1>6 DEF Memory!Next

LEMMA MemoryMeans == ASSUME Memory!MemoryConstants, MemoryIInv PROVE Memory!MemoryWhole
<1>1. Memory!FactsEarned
  BY MemoryCounts DEF MemoryIInv, Unique, Memory!FactsEarned, Earned
<1>2. Memory!FactsStand
  <2> SUFFICES ASSUME applied = episodes, Agree(episodes), NEW C \in Memory!Promoted(episodes), Memory!Sole(C, episodes)
               PROVE  Memory!Held(C)
    BY DEF Memory!FactsStand, Agree, Putting
  <2>1. applied # None
    BY DEF MemoryIInv, MemoryTypeOK, Memory!MemoryConstants
  <2> QED  BY <2>1 DEF MemoryIInv, Stands
<1> QED  BY <1>1, <1>2 DEF Memory!MemoryWhole

LEMMA MemoryComponent == Memory!Spec => []Memory!MemoryWhole
<1>1. Memory!Init => MemoryIInv
  BY MemoryInitIInv
<1>2. MemoryIInv /\ [Memory!Next]_Memory!vars => MemoryIInv'
  BY MemoryAssumption, MemoryNextIInv
<1>3. MemoryIInv => Memory!MemoryWhole
  BY MemoryAssumption, MemoryMeans
<1> QED  BY <1>1, <1>2, <1>3, PTL DEF Memory!Spec

\* What consolidation leaves in the fact store: facts that enough episodes earned,
\* and, once one has ended undisturbed, all of them, however many runs were cut
\* short before it or put the same facts beside it (MemoryWhole).
THEOREM MemoryIsWhole == SpecParts => []MemoryWhole
<1>1. InitParts => Memory!Init
  BY DEF InitParts
<1>2. [NextPart]_allVars => [Memory!Next]_Memory!vars
  BY DEF NextPart, Rest, Rests, allVars, memoryVars, Memory!vars
<1>3. Memory!MemoryWhole => MemoryWhole
  BY DEF MemoryWhole
<1> QED  BY <1>1, <1>2, <1>3, MemoryComponent, PTL DEF SpecParts, Memory!Spec

--------------------------------------------------------------------------------
(***************************************************************************)
(* The fact stores on top of a memory service, for any writers and ids.  Every*)
(* call has a value of its own, so that a value names a record (ValuesApart); who*)
(* puts an id that no other writer touches knows what the service holds of it*)
(* (PutsAlone), and an id has one record with the value of its last put (HeldOnce).*)
(***************************************************************************)
LEMMA FactsCount == \A S : Facts!Cardinality(S) = Cardinality(S)
  BY DEF Facts!Cardinality, Cardinality

Item == [id : Nat, value : Nat]
Stage == {"idle", "seed", "get", "find", "delete", "add"}
Pen == [at : Stage, id : Nat \cup {None}, value : Nat \cup {None}, old : Nat \cup {None}, mints : BOOLEAN]
In(t) == {t[k] : k \in 1..Len(t)}
Held == In(records)
Busy(w) == writer[w].at # "idle"

FactsTypeOK == /\ service \in {"langmem", "mem0", "zep"}
               /\ records \in Seq(Item)
               /\ writer \in [Writer -> Pen]
               /\ \A w \in Writer : /\ writer[w].at \in {"get", "find", "delete", "add"} => writer[w].id \in Nat
                                    /\ Busy(w) => writer[w].value \in Nat
                                    /\ writer[w].at = "delete" => writer[w].old \in Nat
                                    /\ writer[w].at \in {"seed", "get"} => writer[w].mints
               /\ seq \in [Writer -> Nat \cup {None}]
               /\ \A w \in Writer : writer[w].at # "idle" /\ writer[w].at # "seed" /\ writer[w].mints => seq[w] \in Nat
               /\ factOps \in Nat
               /\ latest \in [Facts!Ids -> Nat \cup {None}]
               /\ muddled \subseteq Nat
               /\ minted \subseteq Nat \X Nat

\* Every call has a value of its own, so a value names a record.
ValuesApart ==
    /\ \A j, k \in 1..Len(records) : records[j].value = records[k].value => j = k
    /\ \A r \in Held : r.value <= factOps
    /\ \A w \in Writer : Busy(w) => writer[w].value <= factOps /\ \A r \in Held : r.value # writer[w].value
    /\ \A v, w \in Writer : Busy(v) /\ Busy(w) /\ writer[v].value = writer[w].value => v = w
    /\ \A w \in Writer : writer[w].at = "delete" =>
          /\ writer[w].old <= factOps
          /\ \A v \in Writer : Busy(v) => writer[v].value # writer[w].old
          /\ \A r \in Held : r.value = writer[w].old => r.id = writer[w].id

\* Whoever puts an id that is not muddled is alone in it, and knows what is there.
PutsAlone ==
    /\ \A v, w \in Writer : \A id \in Nat \ muddled : Facts!PutsNow(v, id) /\ Facts!PutsNow(w, id) => v = w
    /\ \A w \in Writer : writer[w].at = "add" /\ writer[w].id \notin muddled
          => \A r \in Held : r.id # writer[w].id
    /\ \A w \in Writer : writer[w].at = "delete" /\ writer[w].id \notin muddled
          => \A r \in Held : r.id = writer[w].id => r.value = writer[w].old
    /\ \A w \in Writer : \A m \in minted : Facts!PutsNow(w, m[1]) => m[1] \in muddled

\* An id has one record, with the value of its last put.
HeldOnce ==
    /\ \A r, s \in Held : r.id = s.id /\ r.id \notin muddled => r = s
    /\ \A id \in Facts!Ids \ muddled : /\ \A r \in Held : r.id = id => r.value = latest[id]
                                       /\ latest[id] # None => \E r \in Held : r.id = id
    /\ \A m \in minted : m[1] \notin muddled => \E r \in Held : r.id = m[1] /\ r.value = m[2]

\* LangMem has an upsert of its own.
UpsertAtOnce == service = "langmem" => /\ \A w \in Writer : writer[w].at \notin {"delete", "add"}
                                       /\ \A r, s \in Held : r.id = s.id => r = s

FactsIInv == FactsTypeOK /\ ValuesApart /\ PutsAlone /\ HeldOnce /\ UpsertAtOnce

LEMMA FactsInitIInv == Facts!FactConstants /\ Facts!Init => FactsIInv
<1> SUFFICES ASSUME Facts!FactConstants, Facts!Init PROVE FactsIInv
  OBVIOUS
<1>1. Held = {} /\ \A w \in Writer : writer[w] = Facts!Idle
  BY DEF Facts!Init, Held, In
<1>2. Facts!Idle \in Pen /\ Facts!Idle.at = "idle"
  BY DEF Facts!Idle, Pen, Stage
<1>3. FactsTypeOK
  BY <1>1, <1>2 DEF Facts!Init, FactsTypeOK, Busy
<1>4. ValuesApart
  BY <1>1, <1>2 DEF Facts!Init, ValuesApart, Busy
<1>5. PutsAlone
  BY <1>1, <1>2 DEF Facts!Init, PutsAlone, Facts!PutsNow
<1>6. HeldOnce /\ UpsertAtOnce
  BY <1>1, <1>2 DEF Facts!Init, HeldOnce, UpsertAtOnce
<1> QED  BY <1>3, <1>4, <1>5, <1>6 DEF FactsIInv

--------------------------------------------------------------------------------
(* Sequences of records *)

\* A record taken out by its position: the others stay.
LEMMA FactOut ==
  ASSUME NEW R, NEW s \in Seq(R), NEW k \in 1..Len(s)
  PROVE  LET t == Facts!RemoveAt(s, k)
         IN /\ t \in Seq(R) /\ Len(t) = Len(s) - 1
            /\ \A i \in 1..Len(t) : t[i] = IF i < k THEN s[i] ELSE s[i + 1]
<1>1. Facts!RemoveAt(s, k) = Memory!RemoveAt(s, k)
  BY DEF Facts!RemoveAt, Memory!RemoveAt
<1> QED  BY <1>1, TakenOut

\* What the records are once one of them is gone.
LEMMA Without ==
  ASSUME records \in Seq(Item), NEW k \in 1..Len(records), NEW t, t = Facts!RemoveAt(records, k),
         \A i, j \in 1..Len(records) : records[i].value = records[j].value => i = j
  PROVE  /\ t \in Seq(Item)
         /\ \A i, j \in 1..Len(t) : t[i].value = t[j].value => i = j
         /\ \A r : r \in In(t) <=> r \in Held /\ r # records[k]
<1>1. /\ t \in Seq(Item) /\ Len(t) = Len(records) - 1
      /\ \A i \in 1..Len(t) : t[i] = IF i < k THEN records[i] ELSE records[i + 1]
  BY FactOut
<1>2. Len(records) \in Nat /\ k \in Nat /\ k >= 1 /\ k <= Len(records)
  OBVIOUS
<1>3. \A i \in 1..Len(t) : \E n \in 1..Len(records) :
         n # k /\ t[i] = records[n] /\ n = IF i < k THEN i ELSE i + 1
  BY <1>1, <1>2
<1>4. \A n \in 1..Len(records) : n # k => \E i \in 1..Len(t) : t[i] = records[n]
  <2> SUFFICES ASSUME NEW n \in 1..Len(records), n # k PROVE \E i \in 1..Len(t) : t[i] = records[n]
    OBVIOUS
  <2>1. CASE n < k
    <3>1. n \in 1..Len(t) /\ t[n] = records[n]
      BY <1>1, <1>2, <2>1
    <3> QED  BY <3>1
  <2>2. CASE n > k
    <3>1. n - 1 \in 1..Len(t) /\ ~(n - 1 < k) /\ (n - 1) + 1 = n
      BY <1>1, <1>2, <2>2
    <3>2. t[n - 1] = records[n]
      BY <1>1, <3>1
    <3> QED  BY <3>1, <3>2
  <2> QED  BY <1>2, <2>1, <2>2
<1>5. \A i, j \in 1..Len(t) : t[i].value = t[j].value => i = j
  <2> SUFFICES ASSUME NEW i \in 1..Len(t), NEW j \in 1..Len(t), t[i].value = t[j].value PROVE i = j
    OBVIOUS
  <2>1. PICK m \in 1..Len(records) : t[i] = records[m] /\ m = IF i < k THEN i ELSE i + 1
    BY <1>3
  <2>2. PICK n \in 1..Len(records) : t[j] = records[n] /\ n = IF j < k THEN j ELSE j + 1
    BY <1>3
  <2>3. m = n
    BY <2>1, <2>2
  <2> QED  BY <1>2, <2>1, <2>2, <2>3
<1>6. \A n \in 1..Len(records) : n # k => records[n] # records[k]
  OBVIOUS
<1>7. ASSUME NEW r, r \in In(t) PROVE r \in Held /\ r # records[k]
  <2>1. PICK i \in 1..Len(t) : r = t[i]
    BY <1>7 DEF In
  <2>2. PICK n \in 1..Len(records) : n # k /\ t[i] = records[n]
    BY <1>3
  <2> QED  BY <1>6, <2>1, <2>2 DEF Held, In
<1>8. ASSUME NEW r, r \in Held, r # records[k] PROVE r \in In(t)
  <2>1. PICK n \in 1..Len(records) : r = records[n]
    BY <1>8 DEF Held, In
  <2>2. PICK i \in 1..Len(t) : t[i] = records[n]
    BY <1>4, <1>8, <2>1
  <2> QED  BY <2>1, <2>2 DEF In
<1> QED  BY <1>1, <1>5, <1>7, <1>8

ApartValues == \A i, j \in 1..Len(records) : records[i].value = records[j].value => i = j

\* The first of the positions that satisfy a test.
LEMMA FirstFact ==
  ASSUME NEW I \in SUBSET Nat, NEW k, k = IF I # {} THEN Facts!Min(I) ELSE 0
  PROVE  IF I = {} THEN k = 0 ELSE k \in I
<1>1. CASE I # {}
  <2>1. \E x \in I : \A y \in I : x <= y
    BY <1>1, FirstIndex
  <2>2. k = CHOOSE x \in I : \A y \in I : x <= y
    BY <1>1 DEF Facts!Min
  <2> QED  BY <1>1, <2>1, <2>2
<1> QED  BY <1>1

LEMMA FoundAt ==
  ASSUME records \in Seq(Item), NEW id
  PROVE  /\ Facts!Found(id) \in 0..Len(records)
         /\ Facts!Found(id) = 0 => \A r \in Held : r.id # id
         /\ Facts!Found(id) # 0 => records[Facts!Found(id)].id = id /\ records[Facts!Found(id)] \in Held
<1> DEFINE I == {i \in 1..Len(records) : records[i].id = id}
<1>1. Facts!Found(id) = IF I # {} THEN Facts!Min(I) ELSE 0
  BY DEF Facts!Found, Facts!SelectInSeq
<1>2. I \in SUBSET Nat
  OBVIOUS
<1>3. IF I = {} THEN Facts!Found(id) = 0 ELSE Facts!Found(id) \in I
  <2> HIDE DEF I
  <2> QED  BY <1>1, <1>2, FirstFact
<1> QED  BY <1>3 DEF Held, In

LEMMA ValueGone ==
  ASSUME records \in Seq(Item), ApartValues, NEW v
  PROVE  /\ Facts!WithoutValue(v) \in Seq(Item)
         /\ \A i, j \in 1..Len(Facts!WithoutValue(v)) : Facts!WithoutValue(v)[i].value = Facts!WithoutValue(v)[j].value => i = j
         /\ \A r : r \in In(Facts!WithoutValue(v)) <=> r \in Held /\ r.value # v
<1>1. CASE \E i \in 1..Len(records) : records[i].value = v
  <2> DEFINE I == {i \in 1..Len(records) : records[i].value = v}
             k == IF I # {} THEN Facts!Min(I) ELSE 0
  <2>1. Facts!WithoutValue(v) = Facts!RemoveAt(records, k)
    BY <1>1 DEF Facts!WithoutValue, Facts!RemoveFirstMatch, Facts!SelectInSeq
  <2>2. I \in SUBSET Nat /\ I # {}
    BY <1>1
  <2>3. k \in I
    <3> HIDE DEF I
    <3> QED  BY <2>2, FirstFact
  <2>4. k \in 1..Len(records) /\ records[k].value = v
    BY <2>3
  <2> HIDE DEF k, I
  <2>5. \A r \in Held : r # records[k] <=> r.value # v
    BY <2>4 DEF ApartValues, Held, In
  <2> QED  BY <2>1, <2>4, <2>5, Without DEF ApartValues
<1>2. CASE ~\E i \in 1..Len(records) : records[i].value = v
  <2>1. Facts!WithoutValue(v) = records
    BY <1>2 DEF Facts!WithoutValue, Facts!RemoveFirstMatch
  <2> QED  BY <1>2, <2>1 DEF ApartValues, Held, In
<1> QED  BY <1>1, <1>2

LEMMA IdGone ==
  ASSUME records \in Seq(Item), ApartValues, NEW id, \A r, s \in Held : r.id = s.id => r = s
  PROVE  /\ Facts!WithoutId(id) \in Seq(Item)
         /\ \A i, j \in 1..Len(Facts!WithoutId(id)) : Facts!WithoutId(id)[i].value = Facts!WithoutId(id)[j].value => i = j
         /\ \A r : r \in In(Facts!WithoutId(id)) <=> r \in Held /\ r.id # id
<1>1. CASE \E i \in 1..Len(records) : records[i].id = id
  <2> DEFINE I == {i \in 1..Len(records) : records[i].id = id}
             k == IF I # {} THEN Facts!Min(I) ELSE 0
  <2>1. Facts!WithoutId(id) = Facts!RemoveAt(records, k)
    BY <1>1 DEF Facts!WithoutId, Facts!RemoveFirstMatch, Facts!SelectInSeq
  <2>2. I \in SUBSET Nat /\ I # {}
    BY <1>1
  <2>3. k \in I
    <3> HIDE DEF I
    <3> QED  BY <2>2, FirstFact
  <2>4. k \in 1..Len(records) /\ records[k].id = id
    BY <2>3
  <2> HIDE DEF k, I
  <2>5. \A r \in Held : r # records[k] <=> r.id # id
    BY <2>4 DEF Held, In
  <2> QED  BY <2>1, <2>4, <2>5, Without DEF ApartValues
<1>2. CASE ~\E i \in 1..Len(records) : records[i].id = id
  <2>1. Facts!WithoutId(id) = records
    BY <1>2 DEF Facts!WithoutId, Facts!RemoveFirstMatch
  <2> QED  BY <1>2, <2>1 DEF ApartValues, Held, In
<1> QED  BY <1>1, <1>2

LEMMA Appended ==
  ASSUME NEW t \in Seq(Item), NEW r \in Item,
         \A i, j \in 1..Len(t) : t[i].value = t[j].value => i = j, \A q \in In(t) : q.value # r.value
  PROVE  /\ Append(t, r) \in Seq(Item)
         /\ \A i, j \in 1..Len(Append(t, r)) : Append(t, r)[i].value = Append(t, r)[j].value => i = j
         /\ In(Append(t, r)) = In(t) \cup {r}
<1>1. /\ Append(t, r) \in Seq(Item) /\ Len(Append(t, r)) = Len(t) + 1 /\ Len(t) \in Nat
      /\ \A i \in 1..Len(t) : Append(t, r)[i] = t[i]
      /\ Append(t, r)[Len(t) + 1] = r
  BY AppendProperties
<1> PICK u : u = Append(t, r)
  OBVIOUS
<1>2. 1..Len(u) = 1..Len(t) \cup {Len(t) + 1}
  BY <1>1
<1>3. \A i \in 1..Len(t) : t[i].value # r.value
  BY DEF In
<1>4. \A i, j \in 1..Len(u) : u[i].value = u[j].value => i = j
  BY <1>1, <1>2, <1>3
<1>5. In(u) = In(t) \cup {r}
  <2>1. \A x : x \in In(u) <=> \E i \in 1..Len(t) \cup {Len(t) + 1} : x = u[i]
    BY <1>2 DEF In
  <2>2. \A x : x \in In(u) <=> x = u[Len(t) + 1] \/ \E i \in 1..Len(t) : x = u[i]
    BY <2>1
  <2> QED  BY <1>1, <2>2 DEF In
<1> QED  BY <1>1, <1>4, <1>5

--------------------------------------------------------------------------------
(* Steps *)

Puts(o, id) == o.id = id /\ o.at \in {"find", "delete", "add"}

\* Writer w goes on to o, and the records stay as they are.
Turns(w, o) == /\ writer' = [writer EXCEPT ![w] = o] /\ UNCHANGED <<service, records, latest>>
               /\ factOps' \in Nat /\ factOps <= factOps'
               /\ muddled \subseteq muddled' /\ muddled' \subseteq Nat /\ minted' \subseteq minted
               /\ seq' \in [Writer -> Nat \cup {None}] /\ \A v \in Writer \ {w} : seq'[v] = seq[v]
Fits(w, o) == /\ o \in Pen
              /\ o.at \in {"get", "find", "delete", "add"} => o.id \in Nat
              /\ o.at \in {"seed", "get"} => o.mints
              /\ o.at # "idle" /\ o.at # "seed" /\ o.mints => seq'[w] \in Nat
              /\ o.at # "idle" => /\ o.value \in Nat /\ o.value <= factOps'
                                  /\ (Busy(w) /\ o.value = writer[w].value) \/ o.value > factOps
Knows(w, o) == /\ o.at = "delete" => \E r \in Held : r.id = o.id /\ r.value = o.old
               /\ \A id \in Nat \ muddled' : Puts(o, id) => /\ \A v \in Writer \ {w} : ~Facts!PutsNow(v, id)
                                                            /\ \A m \in minted' : m[1] # id
               /\ o.at = "add" /\ o.id \notin muddled' => \A r \in Held : r.id # o.id
               /\ service = "langmem" => o.at \notin {"delete", "add"}

LEMMA FactsTurns ==
  ASSUME Facts!FactConstants, FactsIInv, NEW w \in Writer, NEW o, Turns(w, o), Fits(w, o), Knows(w, o)
  PROVE  FactsIInv'
<1> USE DEF Turns, Fits, Knows
<1>1. FactsTypeOK /\ ValuesApart /\ PutsAlone /\ HeldOnce /\ UpsertAtOnce
  BY DEF FactsIInv
<1>2. writer'[w] = o /\ \A v \in Writer : v # w => writer'[v] = writer[v]
  BY <1>1 DEF FactsTypeOK
<1>3. Held' = Held
  BY DEF Held, In
<1>4. \A r \in Held : r.id \in Nat /\ r.value \in Nat /\ r.value <= factOps
  <2>1. \A k \in 1..Len(records) : records[k] \in Item
    BY <1>1 DEF FactsTypeOK
  <2> QED  BY <1>1, <2>1 DEF ValuesApart, Held, In, Item
<1>5. FactsTypeOK'
  <2>1. writer' \in [Writer -> Pen]
    BY <1>1 DEF FactsTypeOK
  <2>2. \A v \in Writer : /\ writer'[v].at \in {"get", "find", "delete", "add"} => writer'[v].id \in Nat
                          /\ Busy(v)' => writer'[v].value \in Nat
                          /\ writer'[v].at = "delete" => writer'[v].old \in Nat
                          /\ writer'[v].at \in {"seed", "get"} => writer'[v].mints
                          /\ writer'[v].at # "idle" /\ writer'[v].at # "seed" /\ writer'[v].mints => seq'[v] \in Nat
    <3> SUFFICES ASSUME NEW v \in Writer
                 PROVE /\ writer'[v].at \in {"get", "find", "delete", "add"} => writer'[v].id \in Nat
                       /\ Busy(v)' => writer'[v].value \in Nat
                       /\ writer'[v].at = "delete" => writer'[v].old \in Nat
                       /\ writer'[v].at \in {"seed", "get"} => writer'[v].mints
                       /\ writer'[v].at # "idle" /\ writer'[v].at # "seed" /\ writer'[v].mints => seq'[v] \in Nat
      OBVIOUS
    <3>1. CASE v = w
      BY <1>2, <1>4, <3>1 DEF Busy
    <3>2. CASE v # w
      BY <1>1, <1>2, <3>2 DEF Busy, FactsTypeOK
    <3> QED  BY <3>1, <3>2
  <2>3. minted' \subseteq Nat \X Nat
    BY <1>1 DEF FactsTypeOK
  <2> QED  BY <1>1, <2>1, <2>2, <2>3 DEF FactsTypeOK, Facts!Ids
\* What the writers hold.
<1>6. \A v \in Writer : Busy(v) => writer[v].value \in Nat /\ writer[v].value <= factOps
  BY <1>1 DEF FactsTypeOK, ValuesApart
<1>7. o.at # "idle" => /\ \A r \in Held : r.value # o.value
                       /\ \A v \in Writer : v # w /\ Busy(v) => writer[v].value # o.value
                       /\ \A v \in Writer : v # w /\ writer[v].at = "delete" => writer[v].old # o.value
  <2>1. CASE Busy(w) /\ o.value = writer[w].value
    BY <1>1, <2>1 DEF ValuesApart
  <2>2. CASE o.at # "idle" /\ o.value > factOps
    <3>1. \A v \in Writer : writer[v].at = "delete" => writer[v].old \in Nat /\ writer[v].old <= factOps
      BY <1>1 DEF FactsTypeOK, ValuesApart
    <3>2. factOps \in Nat
      BY <1>1 DEF FactsTypeOK
    <3> QED  BY <1>4, <1>6, <2>2, <3>1, <3>2
  <2> QED  BY <2>1, <2>2
<1>8. factOps \in Nat
  BY <1>1 DEF FactsTypeOK
<1>9. ValuesApart'
  <2>1. \A j, k \in 1..Len(records') : records'[j].value = records'[k].value => j = k
    BY <1>1 DEF ValuesApart
  <2>2. \A r \in Held : r.value <= factOps'
    BY <1>4, <1>8
  <2>3. ASSUME NEW v \in Writer, Busy(v)'
        PROVE  writer'[v].value <= factOps' /\ \A r \in Held : r.value # writer'[v].value
    <3>1. CASE v = w
      BY <1>2, <1>7, <2>3, <3>1 DEF Busy
    <3>2. CASE v # w
      <4>1. Busy(v) /\ writer'[v] = writer[v]
        BY <1>2, <2>3, <3>2 DEF Busy
      <4> QED  BY <1>1, <1>6, <1>8, <4>1 DEF ValuesApart
    <3> QED  BY <3>1, <3>2
  <2>4. \A u, v \in Writer : Busy(u)' /\ Busy(v)' /\ writer'[u].value = writer'[v].value => u = v
    <3>1. \A u, v \in Writer : u # w /\ v # w /\ Busy(u)' /\ Busy(v)' /\ writer'[u].value = writer'[v].value => u = v
      BY <1>1, <1>2 DEF ValuesApart, Busy
    <3>2. \A v \in Writer : v # w /\ Busy(w)' /\ Busy(v)' => writer'[w].value # writer'[v].value
      BY <1>2, <1>7 DEF Busy
    <3> QED  BY <3>1, <3>2
  <2>5. ASSUME NEW u \in Writer, writer'[u].at = "delete"
        PROVE  /\ writer'[u].old <= factOps'
               /\ \A v \in Writer : Busy(v)' => writer'[v].value # writer'[u].old
               /\ \A r \in Held : r.value = writer'[u].old => r.id = writer'[u].id
    <3>1. CASE u = w
      <4>1. PICK r \in Held : r.id = o.id /\ r.value = o.old
        BY <1>2, <2>5, <3>1
      <4>2. o.old <= factOps'
        BY <1>4, <1>8, <4>1
      <4>3. \A v \in Writer : Busy(v)' => writer'[v].value # o.old
        BY <2>3, <4>1
      <4>4. \A q \in Held : q.value = r.value => q = r
        BY <1>1 DEF ValuesApart, Held, In
      <4> QED  BY <1>2, <3>1, <4>1, <4>2, <4>3, <4>4
    <3>2. CASE u # w
      <4>1. writer[u].at = "delete" /\ writer'[u] = writer[u] /\ writer[u].old \in Nat
        BY <1>1, <1>2, <2>5, <3>2 DEF FactsTypeOK
      <4>2. writer'[u].old <= factOps'
        BY <1>1, <1>8, <4>1 DEF ValuesApart
      <4>3. ASSUME NEW v \in Writer, Busy(v)' PROVE writer'[v].value # writer'[u].old
        <5>1. CASE v = w
          BY <1>2, <1>7, <3>2, <4>1, <4>3, <5>1 DEF Busy
        <5>2. CASE v # w
          BY <1>1, <1>2, <4>1, <4>3, <5>2 DEF Busy, ValuesApart
        <5> QED  BY <5>1, <5>2
      <4> QED  BY <1>1, <4>1, <4>2, <4>3 DEF ValuesApart
    <3> QED  BY <3>1, <3>2
  <2> QED  BY <1>3, <2>1, <2>2, <2>3, <2>4, <2>5 DEF ValuesApart
<1>10. PutsAlone'
  <2>1. \A v \in Writer : \A id : v # w => (Facts!PutsNow(v, id)' <=> Facts!PutsNow(v, id))
    BY <1>2 DEF Facts!PutsNow
  <2>2. \A id : Facts!PutsNow(w, id)' <=> Puts(o, id)
    BY <1>2 DEF Facts!PutsNow, Puts
  <2>3. \A u, v \in Writer : \A id \in Nat \ muddled' : Facts!PutsNow(u, id)' /\ Facts!PutsNow(v, id)' => u = v
    BY <1>1, <2>1, <2>2 DEF PutsAlone
  <2>4. ASSUME NEW v \in Writer, writer'[v].at = "add", writer'[v].id \notin muddled'
        PROVE  \A r \in Held : r.id # writer'[v].id
    <3>1. CASE v = w
      BY <1>2, <2>4, <3>1
    <3>2. CASE v # w
      <4>1. writer[v].at = "add" /\ writer'[v] = writer[v] /\ writer[v].id \notin muddled
        BY <1>2, <2>4, <3>2
      <4> QED  BY <1>1, <4>1 DEF PutsAlone
    <3> QED  BY <3>1, <3>2
  <2>5. ASSUME NEW v \in Writer, writer'[v].at = "delete", writer'[v].id \notin muddled'
        PROVE  \A r \in Held : r.id = writer'[v].id => r.value = writer'[v].old
    <3>1. CASE v = w
      BY <1>1, <1>2, <2>5, <3>1 DEF HeldOnce
    <3>2. CASE v # w
      <4>1. writer[v].at = "delete" /\ writer'[v] = writer[v] /\ writer[v].id \notin muddled
        BY <1>2, <2>5, <3>2
      <4> QED  BY <1>1, <4>1 DEF PutsAlone
    <3> QED  BY <3>1, <3>2
  <2>6. ASSUME NEW v \in Writer, NEW m \in minted', Facts!PutsNow(v, m[1])' PROVE m[1] \in muddled'
    <3>1. m[1] \in Nat
      BY <1>1 DEF FactsTypeOK
    <3>2. CASE v = w
      BY <2>2, <2>6, <3>1, <3>2
    <3>3. CASE v # w
      BY <1>1, <2>1, <2>6, <3>3 DEF PutsAlone
    <3> QED  BY <3>2, <3>3
  <2> QED  BY <1>3, <2>3, <2>4, <2>5, <2>6 DEF PutsAlone
<1>11. HeldOnce'
  BY <1>1, <1>3 DEF HeldOnce, Facts!Ids
<1>12. UpsertAtOnce'
  BY <1>1, <1>2, <1>3 DEF UpsertAtOnce
<1> QED  BY <1>5, <1>9, <1>10, <1>11, <1>12 DEF FactsIInv

LEMMA KeepFactIInv == ASSUME Facts!FactConstants, FactsIInv, NEW w \in Writer, NEW id \in Given, Facts!PutFact(w, id) PROVE FactsIInv'
<1> PICK n : n = factOps + 1
  OBVIOUS
<1> PICK o : o = [Facts!Idle EXCEPT !.at = "find", !.id = id, !.value = n]
  OBVIOUS
<1>1. /\ factOps' = n /\ writer' = [writer EXCEPT ![w] = o]
      /\ UNCHANGED <<service, records, seq, latest>>
      /\ muddled' = IF Facts!Beside(w, id) THEN muddled \cup {id} ELSE muddled
      /\ minted' = {m \in minted : m[1] # id}
  <2>2. factOps' = n /\ writer' = [writer EXCEPT ![w] = [Facts!Idle EXCEPT !.at = "find", !.id = id, !.value = n]]
    BY DEF Facts!PutFact, Facts!Begin
  <2> QED  BY <2>2 DEF Facts!PutFact, Facts!Begin
<1>2. FactsTypeOK
  BY DEF FactsIInv
<1>3. n \in Nat /\ n > factOps /\ id \in Nat /\ factOps \in Nat /\ factOps <= n
  BY <1>2 DEF FactsTypeOK, Facts!FactConstants
<1>4. /\ o \in Pen /\ o.at = "find" /\ o.id = id /\ o.value = n /\ o.old = None /\ o.mints = FALSE
  BY <1>3 DEF Pen, Stage, Facts!Idle
<1>5. muddled \subseteq muddled' /\ muddled' \subseteq Nat /\ minted' \subseteq minted
  BY <1>1, <1>2, <1>3 DEF FactsTypeOK
<1>6. \A i \in Nat \ muddled' : Puts(o, i) =>
            /\ \A v \in Writer \ {w} : ~Facts!PutsNow(v, i)
            /\ \A m \in minted' : m[1] # i
  BY <1>1, <1>4 DEF Puts, Facts!Beside
<1>7. seq' \in [Writer -> Nat \cup {None}] /\ seq' = seq
  BY <1>1, <1>2 DEF FactsTypeOK
<1>8. Turns(w, o)
  BY <1>1, <1>3, <1>5, <1>7 DEF Turns
<1>9. Fits(w, o)
  BY <1>1, <1>3, <1>4 DEF Fits
<1>10. Knows(w, o)
  BY <1>4, <1>6 DEF Knows
<1> QED  BY <1>8, <1>9, <1>10, FactsTurns

LEMMA AddFactIInv == ASSUME Facts!FactConstants, FactsIInv, NEW w \in Writer, Facts!AddFact(w) PROVE FactsIInv'
<1> PICK n : n = factOps + 1
  OBVIOUS
<1> PICK q : q = IF seq[w] = None THEN "seed" ELSE "get"
  OBVIOUS
<1> PICK o : o = [Facts!Idle EXCEPT !.at = q, !.id = seq[w], !.value = n, !.mints = TRUE]
  OBVIOUS
<1>1. /\ factOps' = n /\ writer' = [writer EXCEPT ![w] = o]
      /\ UNCHANGED <<service, records, seq, Facts!history>>
  <2>2. /\ factOps' = n
        /\ writer' = [writer EXCEPT ![w] = [Facts!Idle EXCEPT !.at = q, !.id = seq[w], !.value = n, !.mints = TRUE]]
    BY DEF Facts!AddFact, Facts!Begin
  <2> QED  BY <2>2 DEF Facts!AddFact, Facts!Begin
<1>2. FactsTypeOK
  BY DEF FactsIInv
<1>3. n \in Nat /\ n > factOps /\ factOps \in Nat /\ factOps <= n /\ seq[w] \in Nat \cup {None}
  BY <1>2 DEF FactsTypeOK
<1>4. /\ q = "seed" \/ (q = "get" /\ seq[w] \in Nat)
      /\ q \in Stage
  BY <1>3 DEF Stage
<1>8. /\ o \in Pen /\ o.at = q /\ o.id = seq[w] /\ o.value = n /\ o.old = None /\ o.mints = TRUE
  BY <1>3, <1>4 DEF Pen, Facts!Idle
<1>5. muddled' = muddled /\ minted' = minted /\ latest' = latest /\ muddled \subseteq Nat
  BY <1>1, <1>2 DEF FactsTypeOK, Facts!history
<1>6. \A i : ~Puts(o, i)
  BY <1>4, <1>8 DEF Puts
<1>7. seq' \in [Writer -> Nat \cup {None}] /\ seq' = seq
  BY <1>1, <1>2 DEF FactsTypeOK
<1>9. Turns(w, o)
  BY <1>1, <1>3, <1>5, <1>7 DEF Turns
<1>10. Fits(w, o)
  BY <1>1, <1>3, <1>4, <1>7, <1>8 DEF Fits
<1>11. Knows(w, o)
  BY <1>4, <1>6, <1>8 DEF Knows
<1> QED  BY <1>9, <1>10, <1>11, FactsTurns

\* The ids of the records have a largest one, or there are none: the next is an id.
LEMMA NextId == ASSUME records \in Seq(Item)
                PROVE  Facts!Max({r.id : r \in Facts!ToSet(records)} \cup {-1}) + 1 \in Nat
<1>1. \A k \in 1..Len(records) : records[k].id \in Nat
  <2>1. \A k \in 1..Len(records) : records[k] \in Item
    OBVIOUS
  <2> QED  BY <2>1 DEF Item
<1>2. \E b \in Nat : \A k \in 1..Len(records) : records[k].id <= b
  <2> DEFINE Above(n) == {b \in Nat : \A k \in 1..n : records[k].id <= b}
             Bad == {n \in 0..Len(records) : Above(n) = {}}
  <2>1. SUFFICES ASSUME Bad # {} PROVE FALSE
    <3>1. Len(records) \in 0..Len(records)
      OBVIOUS
    <3> QED  BY <3>1
  <2>2. Bad \in SUBSET Nat
    OBVIOUS
  <2>3. PICK m \in Bad : \A n \in Bad : m <= n
    <3> HIDE DEF Bad
    <3> QED  BY <2>1, <2>2, FirstIndex
  <2>4. m \in 0..Len(records) /\ Above(m) = {}
    OBVIOUS
  <2>5. 0 \in Above(0)
    OBVIOUS
  <2>6. m - 1 \in 0..Len(records) /\ m - 1 < m /\ m \in 1..Len(records) /\ 1..m = 1..(m - 1) \cup {m}
    <3> HIDE DEF Above
    <3> QED  BY <2>4, <2>5
  <2>7. PICK b : b \in Above(m - 1)
    <3>1. m - 1 \notin Bad
      <4> HIDE DEF Bad
      <4> QED  BY <2>2, <2>3, <2>6
    <3> QED  BY <2>6, <3>1
  <2>8. b \in Nat /\ \A k \in 1..(m - 1) : records[k].id <= b
    BY <2>7
  <2>9. PICK c \in Nat : b <= c /\ records[m].id <= c
    <3>1. records[m].id \in Nat
      BY <1>1, <2>6
    <3>2. b + records[m].id \in Nat /\ b <= b + records[m].id /\ records[m].id <= b + records[m].id
      BY <2>8, <3>1
    <3> QED  BY <3>2
  <2>10. \A k \in 1..(m - 1) : records[k].id <= c
    <3>1. \A k \in 1..(m - 1) : k \in 1..Len(records)
      BY <2>6
    <3> QED  BY <1>1, <2>8, <2>9, <3>1
  <2>11. c \in Above(m)
    BY <2>6, <2>9, <2>10
  <2> QED  BY <2>4, <2>11
<1>3. PICK b \in Nat : \A k \in 1..Len(records) : records[k].id <= b
  BY <1>2
<1> DEFINE S == {r.id : r \in Facts!ToSet(records)} \cup {-1}
<1>4. \A x \in S : x \in Int /\ x >= -1 /\ x <= b
  <2>1. \A r \in Facts!ToSet(records) : \E k \in 1..Len(records) : r = records[k]
    BY DEF Facts!ToSet
  <2>2. \A r \in Facts!ToSet(records) : r.id \in Nat /\ r.id <= b
    BY <1>1, <1>3, <2>1
  <2> QED  BY <2>2
<1>5. -1 \in S
  OBVIOUS
<1> HIDE DEF S
<1> DEFINE D == {b - x : x \in S}
<1>6. D \in SUBSET Nat /\ D # {}
  BY <1>4, <1>5
<1>7. PICK d \in D : \A e \in D : d <= e
  <2> HIDE DEF D
  <2> QED  BY <1>6, FirstIndex
<1>8. PICK x \in S : d = b - x
  OBVIOUS
<1>9. \A y \in S : x >= y
  <2> SUFFICES ASSUME NEW y \in S PROVE x >= y
    OBVIOUS
  <2>1. b - x <= b - y
    BY <1>7, <1>8
  <2> QED  BY <1>4, <2>1
<1>10. Facts!Max(S) \in S
  BY <1>9 DEF Facts!Max
<1> PICK m : m = Facts!Max(S)
  OBVIOUS
<1>11. m \in Int /\ m >= -1
  BY <1>4, <1>10
<1>12. m + 1 \in Nat
  BY <1>11
<1> QED  BY <1>12 DEF S

LEMMA CrashIInv == ASSUME Facts!FactConstants, FactsIInv, NEW w \in Writer, Facts!Crash(w) PROVE FactsIInv'
<1>1. /\ writer' = [writer EXCEPT ![w] = Facts!Idle] /\ seq' = [seq EXCEPT ![w] = None]
      /\ service' = service /\ records' = records /\ factOps' = factOps
      /\ latest' = latest /\ muddled' = muddled /\ minted' = minted
  BY DEF Facts!Crash, Facts!history
<1>2. FactsTypeOK
  BY DEF FactsIInv
<1>3. Facts!Idle \in Pen /\ Facts!Idle.at = "idle"
  BY DEF Facts!Idle, Pen, Stage
<1>4. Turns(w, Facts!Idle)
  <2>1. factOps' \in Nat /\ factOps <= factOps'
    BY <1>1, <1>2 DEF FactsTypeOK
  <2> QED  BY <1>1, <1>2, <2>1 DEF Turns, FactsTypeOK
<1>5. Fits(w, Facts!Idle) /\ Knows(w, Facts!Idle)
  BY <1>3 DEF Fits, Knows, Puts
<1> QED  BY <1>4, <1>5, FactsTurns

LEMMA SeedIInv == ASSUME Facts!FactConstants, FactsIInv, NEW w \in Writer, Facts!Seed(w) PROVE FactsIInv'
<1> PICK next : next = Facts!Max({r.id : r \in Facts!ToSet(records)} \cup {-1}) + 1
  OBVIOUS
<1>1. /\ writer[w].at = "seed"
      /\ service' = service /\ records' = records /\ factOps' = factOps
      /\ latest' = latest /\ muddled' = muddled /\ minted' = minted
      /\ \/ /\ seq' = [seq EXCEPT ![w] = next]
            /\ writer' = [writer EXCEPT ![w] = [writer[w] EXCEPT !.at = "get", !.id = next]]
         \/ seq' = seq /\ writer' = [writer EXCEPT ![w] = Facts!Idle]
  BY DEF Facts!Seed, Facts!Goes, Facts!At, Facts!history, Facts!bounds
<1>2. FactsTypeOK
  BY DEF FactsIInv
<1>3. next \in Nat
  BY <1>2, NextId DEF FactsTypeOK
<1>4. factOps' \in Nat /\ factOps <= factOps'
  BY <1>1, <1>2 DEF FactsTypeOK
<1>5. CASE /\ seq' = [seq EXCEPT ![w] = next]
           /\ writer' = [writer EXCEPT ![w] = [writer[w] EXCEPT !.at = "get", !.id = next]]
  <2> PICK o : o = [writer[w] EXCEPT !.at = "get", !.id = next]
    OBVIOUS
  <2>1. writer[w] \in Pen /\ writer[w].mints /\ writer[w].value \in Nat /\ Busy(w)
    BY <1>1, <1>2 DEF FactsTypeOK, Busy
  <2>2. o \in Pen /\ o.at = "get" /\ o.id = next /\ o.value = writer[w].value /\ o.mints = writer[w].mints
    BY <1>3, <2>1 DEF Pen, Stage
  <2>3. writer[w].value <= factOps
    BY <2>1 DEF FactsIInv, ValuesApart
  <2>4. Turns(w, o)
    BY <1>1, <1>2, <1>3, <1>4, <1>5 DEF Turns, FactsTypeOK
  <2>5. Fits(w, o)
    BY <1>1, <1>2, <1>3, <1>5, <2>1, <2>2, <2>3 DEF Fits, FactsTypeOK
  <2>6. Knows(w, o)
    BY <2>2 DEF Knows, Puts
  <2> QED  BY <2>4, <2>5, <2>6, FactsTurns
<1>6. CASE seq' = seq /\ writer' = [writer EXCEPT ![w] = Facts!Idle]
  <2>1. Facts!Idle \in Pen /\ Facts!Idle.at = "idle"
    BY DEF Facts!Idle, Pen, Stage
  <2>2. Turns(w, Facts!Idle)
    BY <1>1, <1>2, <1>4, <1>6 DEF Turns, FactsTypeOK
  <2>3. Fits(w, Facts!Idle) /\ Knows(w, Facts!Idle)
    BY <2>1 DEF Fits, Knows, Puts
  <2> QED  BY <2>2, <2>3, FactsTurns
<1> QED  BY <1>1, <1>5, <1>6

LEMMA GetIInv == ASSUME Facts!FactConstants, FactsIInv, NEW w \in Writer, Facts!Get(w) PROVE FactsIInv'
<1> PICK id : id = writer[w].id
  OBVIOUS
<1>1. /\ writer[w].at = "get"
      /\ service' = service /\ records' = records /\ factOps' = factOps
      /\ seq' = seq /\ latest' = latest /\ minted' = minted
      /\ \/ /\ Facts!Found(id) = 0
            /\ writer' = [writer EXCEPT ![w] = [writer[w] EXCEPT !.at = "find"]]
            /\ muddled' = IF Facts!Beside(w, id) THEN muddled \cup {id} ELSE muddled
         \/ muddled' = muddled /\ writer' = [writer EXCEPT ![w] = Facts!Idle]
  BY DEF Facts!Get, Facts!Goes, Facts!At, Facts!bounds
<1>2. FactsTypeOK
  BY DEF FactsIInv
<1>3. factOps' \in Nat /\ factOps <= factOps' /\ factOps' = factOps
  BY <1>1, <1>2 DEF FactsTypeOK
<1>4. CASE /\ Facts!Found(id) = 0
           /\ writer' = [writer EXCEPT ![w] = [writer[w] EXCEPT !.at = "find"]]
           /\ muddled' = IF Facts!Beside(w, id) THEN muddled \cup {id} ELSE muddled
  <2> PICK o : o = [writer[w] EXCEPT !.at = "find"]
    OBVIOUS
  <2>1. writer[w] \in Pen /\ writer[w].mints /\ writer[w].value \in Nat /\ Busy(w) /\ id \in Nat /\ seq[w] \in Nat
    BY <1>1, <1>2 DEF FactsTypeOK, Busy
  <2>2. o \in Pen /\ o.at = "find" /\ o.id = id /\ o.value = writer[w].value /\ o.mints = writer[w].mints
    BY <2>1 DEF Pen, Stage
  <2>3. writer[w].value <= factOps
    BY <2>1 DEF FactsIInv, ValuesApart
  <2>4. Turns(w, o)
    BY <1>1, <1>2, <1>3, <1>4, <2>1 DEF Turns, FactsTypeOK
  <2>5. Fits(w, o)
    BY <1>1, <1>3, <2>1, <2>2, <2>3 DEF Fits
  <2>6. ASSUME NEW i \in Nat \ muddled', Puts(o, i)
        PROVE  /\ \A v \in Writer \ {w} : ~Facts!PutsNow(v, i)
               /\ \A m \in minted' : m[1] # i
    <3>1. i = id /\ ~Facts!Beside(w, id) /\ id \notin muddled
      BY <1>4, <2>2, <2>6 DEF Puts
    <3>2. \A r \in Held : r.id # id
      BY <1>2, <1>4, FoundAt DEF FactsTypeOK
    <3>3. \A m \in minted : m[1] # id
      BY <3>1, <3>2 DEF FactsIInv, HeldOnce
    <3> QED  BY <1>1, <3>1, <3>3 DEF Facts!Beside
  <2>7. Knows(w, o)
    BY <2>2, <2>6 DEF Knows
  <2> QED  BY <2>4, <2>5, <2>7, FactsTurns
<1>5. CASE muddled' = muddled /\ writer' = [writer EXCEPT ![w] = Facts!Idle]
  <2>1. Facts!Idle \in Pen /\ Facts!Idle.at = "idle"
    BY DEF Facts!Idle, Pen, Stage
  <2>2. Turns(w, Facts!Idle)
    BY <1>1, <1>2, <1>3, <1>5 DEF Turns, FactsTypeOK
  <2>3. Fits(w, Facts!Idle) /\ Knows(w, Facts!Idle)
    BY <2>1 DEF Fits, Knows, Puts
  <2> QED  BY <2>2, <2>3, FactsTurns
<1> QED  BY <1>1, <1>4, <1>5

LEMMA FindIInv == ASSUME Facts!FactConstants, FactsIInv, NEW w \in Writer, Facts!Find(w) PROVE FactsIInv'
<1> PICK id : id = writer[w].id
  OBVIOUS
<1> PICK k : k = Facts!Found(id)
  OBVIOUS
<1>1. /\ writer[w].at = "find" /\ service # "langmem"
      /\ service' = service /\ records' = records /\ factOps' = factOps
      /\ seq' = seq /\ latest' = latest /\ minted' = minted
      /\ \/ /\ writer' = [writer EXCEPT ![w] = [writer[w] EXCEPT
                             !.at = IF k = 0 THEN "add" ELSE "delete",
                             !.old = IF k = 0 THEN None ELSE records[k].value]]
            /\ muddled' = muddled
         \/ /\ writer' = [writer EXCEPT ![w] = [writer[w] EXCEPT !.at = "add"]]
            /\ muddled' = muddled \cup {id}
         \/ muddled' = muddled /\ writer' = [writer EXCEPT ![w] = Facts!Idle]
  BY DEF Facts!Find, Facts!Goes, Facts!At, Facts!bounds
<1>2. FactsTypeOK
  BY DEF FactsIInv
<1>3. factOps' \in Nat /\ factOps <= factOps' /\ factOps' = factOps
  BY <1>1, <1>2 DEF FactsTypeOK
<1>4. /\ writer[w] \in Pen /\ writer[w].value \in Nat /\ Busy(w) /\ id \in Nat /\ writer[w].value <= factOps
      /\ writer[w].mints => seq[w] \in Nat
  BY <1>1, <1>2 DEF FactsIInv, ValuesApart, FactsTypeOK, Busy
<1>5. /\ Facts!PutsNow(w, id)
      /\ \A i \in Nat \ muddled' : i = id => /\ \A v \in Writer \ {w} : ~Facts!PutsNow(v, i)
                                             /\ \A m \in minted' : m[1] # i
  <2>1. Facts!PutsNow(w, id)
    BY <1>1 DEF Facts!PutsNow
  <2>2. muddled \subseteq muddled'
    BY <1>1
  <2>3. ASSUME id \notin muddled' PROVE /\ \A v \in Writer \ {w} : ~Facts!PutsNow(v, id)
                                        /\ \A m \in minted' : m[1] # id
    <3>1. id \notin muddled
      BY <2>2, <2>3
    <3>2. \A v \in Writer \ {w} : ~Facts!PutsNow(v, id)
      BY <1>4, <2>1, <3>1 DEF FactsIInv, PutsAlone
    <3>3. \A m \in minted' : m[1] # id
      BY <1>1, <2>1, <3>1 DEF FactsIInv, PutsAlone
    <3> QED  BY <3>2, <3>3
  <2> QED  BY <2>1, <2>3
<1>6. ASSUME NEW o \in Pen, o.id = id, o.value = writer[w].value, o.mints = writer[w].mints,
             writer' = [writer EXCEPT ![w] = o], muddled \subseteq muddled', muddled' \subseteq Nat,
             o.at = "delete" => \E r \in Held : r.id = id /\ r.value = o.old,
             o.at \in {"add", "delete"}, o.at = "add" /\ id \notin muddled' => \A r \in Held : r.id # id
      PROVE  FactsIInv'
  <2>1. Turns(w, o)
    BY <1>1, <1>2, <1>3, <1>6 DEF Turns, FactsTypeOK
  <2>2. Fits(w, o)
    BY <1>1, <1>3, <1>4, <1>6 DEF Fits
  <2>3. Knows(w, o)
    BY <1>1, <1>5, <1>6 DEF Knows, Puts
  <2> QED  BY <2>1, <2>2, <2>3, FactsTurns
<1>7. /\ k \in 0..Len(records)
      /\ k = 0 => \A r \in Held : r.id # id
      /\ k # 0 => records[k].id = id /\ records[k] \in Held /\ records[k].value \in Nat
  <2>1. \A i \in 1..Len(records) : records[i] \in Item
    BY <1>2 DEF FactsTypeOK
  <2> QED  BY <1>2, <2>1, FoundAt DEF FactsTypeOK, Item
<1>8. CASE /\ writer' = [writer EXCEPT ![w] = [writer[w] EXCEPT
                             !.at = IF k = 0 THEN "add" ELSE "delete",
                             !.old = IF k = 0 THEN None ELSE records[k].value]]
           /\ muddled' = muddled
  <2> PICK old : old = IF k = 0 THEN None ELSE records[k].value
    OBVIOUS
  <2> PICK at : at = IF k = 0 THEN "add" ELSE "delete"
    OBVIOUS
  <2> PICK o : o = [writer[w] EXCEPT !.at = at, !.old = old]
    OBVIOUS
  <2>1. at \in Stage /\ old \in Nat \cup {None}
    BY <1>7 DEF Stage
  <2>2. /\ o \in Pen /\ o.id = id /\ o.value = writer[w].value /\ o.mints = writer[w].mints
        /\ o.at = at /\ o.old = old
    BY <1>4, <2>1 DEF Pen
  <2>3. writer' = [writer EXCEPT ![w] = o]
    BY <1>8
  <2>4. o.at = "delete" => \E r \in Held : r.id = id /\ r.value = o.old
    BY <1>7, <2>2
  <2>5. o.at \in {"add", "delete"} /\ (o.at = "add" => \A r \in Held : r.id # id)
    BY <1>7, <2>2
  <2>6. muddled \subseteq muddled' /\ muddled' \subseteq Nat
    BY <1>2, <1>8 DEF FactsTypeOK
  <2> QED  BY <1>6, <2>2, <2>3, <2>4, <2>5, <2>6
<1>9. CASE /\ writer' = [writer EXCEPT ![w] = [writer[w] EXCEPT !.at = "add"]]
           /\ muddled' = muddled \cup {id}
  <2> PICK o : o = [writer[w] EXCEPT !.at = "add"]
    OBVIOUS
  <2>1. o \in Pen /\ o.id = id /\ o.value = writer[w].value /\ o.mints = writer[w].mints /\ o.at = "add"
    BY <1>4 DEF Pen, Stage
  <2>2. muddled \subseteq muddled' /\ muddled' \subseteq Nat /\ id \in muddled'
    BY <1>2, <1>4, <1>9 DEF FactsTypeOK
  <2> QED  BY <1>6, <1>9, <2>1, <2>2
<1>10. CASE muddled' = muddled /\ writer' = [writer EXCEPT ![w] = Facts!Idle]
  <2>1. Facts!Idle \in Pen /\ Facts!Idle.at = "idle"
    BY DEF Facts!Idle, Pen, Stage
  <2>2. Turns(w, Facts!Idle)
    BY <1>1, <1>2, <1>3, <1>10 DEF Turns, FactsTypeOK
  <2>3. Fits(w, Facts!Idle) /\ Knows(w, Facts!Idle)
    BY <2>1 DEF Fits, Knows, Puts
  <2> QED  BY <2>2, <2>3, FactsTurns
<1> QED  BY <1>1, <1>8, <1>9, <1>10

LEMMA DeleteFactIInv == ASSUME Facts!FactConstants, FactsIInv, NEW w \in Writer, NEW id \in Given, Facts!DeleteFact(w, id) PROVE FactsIInv'
<1> PICK k : k = Facts!Found(id)
  OBVIOUS
<1>1. /\ k # 0 /\ records' = Facts!RemoveAt(records, k)
      /\ factOps' = factOps + 1 /\ latest' = [latest EXCEPT ![id] = None]
      /\ muddled' = IF Facts!Beside(w, id) THEN muddled \cup {id} ELSE muddled
      /\ minted' = {m \in minted : m[1] # id}
      /\ service' = service /\ writer' = writer /\ seq' = seq
  BY DEF Facts!DeleteFact
<1>2. FactsTypeOK /\ ValuesApart /\ PutsAlone /\ HeldOnce /\ UpsertAtOnce
  BY DEF FactsIInv
<1>3. id \in Nat
  BY DEF Facts!FactConstants
<1>4. /\ k \in 1..Len(records) /\ records[k].id = id /\ records[k] \in Held
  BY <1>1, <1>2, FoundAt DEF FactsTypeOK
<1> PICK x : x = records[k]
  OBVIOUS
<1>5. /\ records' \in Seq(Item)
      /\ \A i, j \in 1..Len(records') : records'[i].value = records'[j].value => i = j
      /\ \A r : r \in Held' <=> r \in Held /\ r # x
  BY <1>1, <1>2, <1>4, Without DEF FactsTypeOK, ValuesApart, Held
<1>6. /\ muddled \subseteq muddled' /\ muddled' \subseteq Nat /\ minted' \subseteq minted
      /\ minted \subseteq Nat \X Nat
  BY <1>1, <1>2, <1>3 DEF FactsTypeOK
<1>7. factOps' \in Nat /\ factOps \in Nat /\ factOps <= factOps'
  BY <1>1, <1>2 DEF FactsTypeOK
<1>8. /\ latest' \in [Facts!Ids -> Nat \cup {None}]
      /\ \A i \in Facts!Ids : latest'[i] = IF i = id THEN None ELSE latest[i]
  BY <1>1, <1>2 DEF FactsTypeOK
<1>9. FactsTypeOK'
  <2>1. minted' \subseteq Nat \X Nat
    BY <1>6
  <2> QED  BY <1>1, <1>2, <1>5, <1>6, <1>7, <1>8, <2>1 DEF FactsTypeOK, Busy, Facts!Ids
<1>10. ValuesApart'
  <2>1. \A r \in Held : r.value \in Nat /\ r.value <= factOps
    <3>1. \A i \in 1..Len(records) : records[i] \in Item
      BY <1>2 DEF FactsTypeOK
    <3> QED  BY <1>2, <3>1 DEF ValuesApart, Held, In, Item
  <2>2. \A v \in Writer : Busy(v) => writer[v].value \in Nat /\ writer[v].value <= factOps'
    BY <1>2, <1>7 DEF ValuesApart, FactsTypeOK
  <2>3. \A v \in Writer : writer[v].at = "delete" => writer[v].old \in Nat /\ writer[v].old <= factOps'
    BY <1>2, <1>7 DEF ValuesApart, FactsTypeOK
  <2>4. \A r \in Held' : r \in Held /\ r.value <= factOps'
    BY <1>5, <1>7, <2>1
  <2> QED  BY <1>1, <1>2, <1>5, <2>2, <2>3, <2>4 DEF ValuesApart, Busy
<1>11. PutsAlone'
  <2>1. \A v \in Writer : \A i : Facts!PutsNow(v, i)' <=> Facts!PutsNow(v, i)
    BY <1>1 DEF Facts!PutsNow
  <2>2. \A u, v \in Writer : \A i \in Nat \ muddled' : Facts!PutsNow(u, i)' /\ Facts!PutsNow(v, i)' => u = v
    BY <1>2, <1>6, <2>1 DEF PutsAlone
  <2>3. \A v \in Writer : writer'[v].at = "add" /\ writer'[v].id \notin muddled'
          => \A r \in Held' : r.id # writer'[v].id
    BY <1>1, <1>2, <1>5, <1>6 DEF PutsAlone
  <2>4. \A v \in Writer : writer'[v].at = "delete" /\ writer'[v].id \notin muddled'
          => \A r \in Held' : r.id = writer'[v].id => r.value = writer'[v].old
    BY <1>1, <1>2, <1>5, <1>6 DEF PutsAlone
  <2>5. \A v \in Writer : \A m \in minted' : Facts!PutsNow(v, m[1])' => m[1] \in muddled'
    BY <1>2, <1>6, <2>1 DEF PutsAlone
  <2> QED  BY <2>2, <2>3, <2>4, <2>5 DEF PutsAlone
<1>12. HeldOnce'
  <2>1. \A r, s \in Held' : r.id = s.id /\ r.id \notin muddled' => r = s
    BY <1>2, <1>5, <1>6 DEF HeldOnce
  <2>2. ASSUME NEW i \in Facts!Ids \ muddled'
        PROVE  /\ \A r \in Held' : r.id = i => r.value = latest'[i]
               /\ latest'[i] # None => \E r \in Held' : r.id = i
    <3>1. CASE i = id
      <4>1. \A r \in Held' : r.id # id
        <5>1. id \notin muddled /\ x \in Held /\ x.id = id
          BY <1>4, <1>6, <2>2, <3>1
        <5>2. \A r \in Held : r.id = id => r = x
          BY <1>2, <5>1 DEF HeldOnce
        <5> QED  BY <1>5, <5>2
      <4> QED  BY <1>8, <2>2, <3>1, <4>1
    <3>2. CASE i # id
      <4>1. latest'[i] = latest[i] /\ i \notin muddled
        BY <1>6, <1>8, <2>2, <3>2
      <4>2. \A r : r.id = i => (r \in Held' <=> r \in Held)
        BY <1>4, <1>5, <3>2
      <4> QED  BY <1>2, <2>2, <4>1, <4>2 DEF HeldOnce
    <3> QED  BY <3>1, <3>2
  <2>3. ASSUME NEW m \in minted', m[1] \notin muddled' PROVE \E r \in Held' : r.id = m[1] /\ r.value = m[2]
    <3>1. m \in minted /\ m[1] # id /\ m[1] \notin muddled
      BY <1>1, <1>6, <2>3
    <3>2. PICK r \in Held : r.id = m[1] /\ r.value = m[2]
      BY <1>2, <3>1 DEF HeldOnce
    <3> QED  BY <1>4, <1>5, <3>1, <3>2
  <2> QED  BY <2>1, <2>2, <2>3 DEF HeldOnce, Facts!Ids
<1>13. UpsertAtOnce'
  BY <1>1, <1>2, <1>5 DEF UpsertAtOnce
<1> QED  BY <1>9, <1>10, <1>11, <1>12, <1>13 DEF FactsIInv

LEMMA DeleteOldIInv == ASSUME Facts!FactConstants, FactsIInv, NEW w \in Writer, Facts!DeleteOld(w) PROVE FactsIInv'
<1> PICK id : id = writer[w].id
  OBVIOUS
<1> PICK old : old = writer[w].old
  OBVIOUS
<1> PICK o : o = [writer[w] EXCEPT !.at = "add"]
  OBVIOUS
<1>1. /\ writer[w].at = "delete" /\ records' = Facts!WithoutValue(old)
      /\ latest' = [latest EXCEPT ![id] = None] /\ writer' = [writer EXCEPT ![w] = o]
      /\ service' = service /\ factOps' = factOps /\ seq' = seq /\ muddled' = muddled /\ minted' = minted
  BY DEF Facts!DeleteOld, Facts!Goes, Facts!At, Facts!bounds
<1>2. FactsTypeOK /\ ValuesApart /\ PutsAlone /\ HeldOnce /\ UpsertAtOnce
  BY DEF FactsIInv
<1>3. writer[w] \in Pen /\ id \in Nat /\ old \in Nat /\ Busy(w) /\ writer[w].value \in Nat
      /\ (writer[w].mints => seq[w] \in Nat)
  BY <1>1, <1>2 DEF FactsTypeOK, Busy
<1>4. o \in Pen /\ o.at = "add" /\ o.id = id /\ o.value = writer[w].value /\ o.mints = writer[w].mints
  BY <1>3 DEF Pen, Stage
<1>5. writer'[w] = o /\ (\A v \in Writer : v # w => writer'[v] = writer[v]) /\ writer' \in [Writer -> Pen]
  BY <1>1, <1>2, <1>4 DEF FactsTypeOK
<1>6. /\ records' \in Seq(Item)
      /\ \A i, j \in 1..Len(records') : records'[i].value = records'[j].value => i = j
      /\ \A r : r \in Held' <=> r \in Held /\ r.value # old
  BY <1>1, <1>2, ValueGone DEF FactsTypeOK, ValuesApart, ApartValues, Held
<1>7. /\ latest' \in [Facts!Ids -> Nat \cup {None}]
      /\ \A i \in Facts!Ids : latest'[i] = IF i = id THEN None ELSE latest[i]
  BY <1>1, <1>2 DEF FactsTypeOK
<1>8. Facts!PutsNow(w, id) /\ \A v \in Writer : \A i : Facts!PutsNow(v, i)' <=> Facts!PutsNow(v, i)
  BY <1>1, <1>4, <1>5 DEF Facts!PutsNow
<1>9. \A v \in Writer : /\ Busy(v)' <=> Busy(v)
                        /\ writer'[v].value = writer[v].value /\ writer'[v].id = writer[v].id
                        /\ writer'[v].mints = writer[v].mints
                        /\ writer'[v].at = "delete" => v # w /\ writer'[v] = writer[v]
  BY <1>3, <1>4, <1>5 DEF Busy
<1>10. \A r \in Held : r.value = old => r.id = id
  BY <1>1, <1>2 DEF ValuesApart
<1>11. FactsTypeOK'
  <2>1. \A v \in Writer : /\ writer'[v].at \in {"get", "find", "delete", "add"} => writer'[v].id \in Nat
                          /\ Busy(v)' => writer'[v].value \in Nat
                          /\ writer'[v].at = "delete" => writer'[v].old \in Nat
                          /\ writer'[v].at \in {"seed", "get"} => writer'[v].mints
                          /\ writer'[v].at # "idle" /\ writer'[v].at # "seed" /\ writer'[v].mints => seq'[v] \in Nat
    <3> SUFFICES ASSUME NEW v \in Writer
                 PROVE /\ writer'[v].at \in {"get", "find", "delete", "add"} => writer'[v].id \in Nat
                       /\ Busy(v)' => writer'[v].value \in Nat
                       /\ writer'[v].at = "delete" => writer'[v].old \in Nat
                       /\ writer'[v].at \in {"seed", "get"} => writer'[v].mints
                       /\ writer'[v].at # "idle" /\ writer'[v].at # "seed" /\ writer'[v].mints => seq'[v] \in Nat
      OBVIOUS
    <3>1. CASE v = w
      BY <1>1, <1>3, <1>4, <1>5, <3>1
    <3>2. CASE v # w
      BY <1>1, <1>2, <1>5, <3>2 DEF Busy, FactsTypeOK
    <3> QED  BY <3>1, <3>2
  <2> QED  BY <1>1, <1>2, <1>5, <1>6, <1>7, <2>1 DEF FactsTypeOK, Facts!Ids
<1>12. ValuesApart'
  BY <1>1, <1>2, <1>6, <1>9 DEF ValuesApart
<1>13. PutsAlone'
  <2>1. \A u, v \in Writer : \A i \in Nat \ muddled' : Facts!PutsNow(u, i)' /\ Facts!PutsNow(v, i)' => u = v
    BY <1>1, <1>2, <1>8 DEF PutsAlone
  <2>2. ASSUME NEW v \in Writer, writer'[v].at = "add", writer'[v].id \notin muddled'
        PROVE  \A r \in Held' : r.id # writer'[v].id
    <3>1. CASE v = w
      <4>1. \A r \in Held : r.id = id => r.value = old
        BY <1>1, <1>2, <1>4, <1>5, <2>2, <3>1 DEF PutsAlone
      <4> QED  BY <1>4, <1>5, <1>6, <3>1, <4>1
    <3>2. CASE v # w
      BY <1>1, <1>2, <1>5, <1>6, <2>2, <3>2 DEF PutsAlone
    <3> QED  BY <3>1, <3>2
  <2>3. \A v \in Writer : writer'[v].at = "delete" /\ writer'[v].id \notin muddled'
          => \A r \in Held' : r.id = writer'[v].id => r.value = writer'[v].old
    BY <1>1, <1>2, <1>6, <1>9 DEF PutsAlone
  <2>4. \A v \in Writer : \A m \in minted' : Facts!PutsNow(v, m[1])' => m[1] \in muddled'
    BY <1>1, <1>2, <1>8 DEF PutsAlone
  <2> QED  BY <2>1, <2>2, <2>3, <2>4 DEF PutsAlone
<1>14. HeldOnce'
  <2>1. \A r, s \in Held' : r.id = s.id /\ r.id \notin muddled' => r = s
    BY <1>1, <1>2, <1>6 DEF HeldOnce
  <2>2. ASSUME NEW i \in Facts!Ids \ muddled'
        PROVE  /\ \A r \in Held' : r.id = i => r.value = latest'[i]
               /\ latest'[i] # None => \E r \in Held' : r.id = i
    <3>1. CASE i = id
      <4>1. \A r \in Held : r.id = id => r.value = old
        BY <1>1, <1>2, <2>2, <3>1 DEF PutsAlone
      <4> QED  BY <1>6, <1>7, <2>2, <3>1, <4>1
    <3>2. CASE i # id
      <4>1. latest'[i] = latest[i] /\ i \notin muddled
        BY <1>1, <1>7, <2>2, <3>2
      <4>2. \A r : r.id = i => (r \in Held' <=> r \in Held)
        BY <1>6, <1>10, <3>2
      <4> QED  BY <1>2, <2>2, <4>1, <4>2 DEF HeldOnce
    <3> QED  BY <3>1, <3>2
  <2>3. ASSUME NEW m \in minted', m[1] \notin muddled' PROVE \E r \in Held' : r.id = m[1] /\ r.value = m[2]
    <3>1. m \in minted /\ m[1] # id /\ m[1] \notin muddled
      BY <1>1, <1>2, <1>8, <2>3 DEF PutsAlone
    <3>2. PICK r \in Held : r.id = m[1] /\ r.value = m[2]
      BY <1>2, <3>1 DEF HeldOnce
    <3> QED  BY <1>6, <1>10, <3>1, <3>2
  <2> QED  BY <2>1, <2>2, <2>3 DEF HeldOnce, Facts!Ids
<1>15. UpsertAtOnce'
  BY <1>1, <1>2 DEF UpsertAtOnce
<1> QED  BY <1>11, <1>12, <1>13, <1>14, <1>15 DEF FactsIInv

\* The writer's record goes to the end of what is left of the others.
LEMMA PutIn ==
  ASSUME Facts!FactConstants, FactsIInv, NEW w \in Writer, NEW id, id = writer[w].id, Facts!PutsNow(w, id),
         NEW t \in Seq(Item), \A i, j \in 1..Len(t) : t[i].value = t[j].value => i = j,
         In(t) \subseteq Held, \A r \in Held : r.id # id => r \in In(t),
         id \notin muddled \/ service = "langmem" => \A r \in In(t) : r.id # id,
         records' = Append(t, Facts!Record(w)), Facts!Done(w)
  PROVE  FactsIInv'
<1> PICK v : v = writer[w].value
  OBVIOUS
<1> PICK rec : rec = Facts!Record(w)
  OBVIOUS
<1>1. /\ latest' = [latest EXCEPT ![id] = v] /\ writer' = [writer EXCEPT ![w] = Facts!Idle]
      /\ service' = service /\ factOps' = factOps /\ muddled' = muddled
      /\ IF writer[w].mints THEN seq' = [seq EXCEPT ![w] = @ + 1] /\ minted' = minted \cup {<<id, v>>}
         ELSE seq' = seq /\ minted' = minted
  BY DEF Facts!Done, Facts!Goes, Facts!bounds
<1>2. FactsTypeOK /\ ValuesApart /\ PutsAlone /\ HeldOnce /\ UpsertAtOnce
  BY DEF FactsIInv
<1>3. /\ Busy(w) /\ writer[w].at # "seed" /\ id \in Nat /\ v \in Nat /\ v <= factOps
      /\ (writer[w].mints => seq[w] \in Nat)
  BY <1>2 DEF FactsTypeOK, ValuesApart, Facts!PutsNow, Busy
<1>4. rec \in Item /\ rec.id = id /\ rec.value = v
  BY <1>3 DEF Facts!Record, Item
<1>5. \A r \in Held : r.value # v /\ r.value <= factOps
  BY <1>2, <1>3 DEF ValuesApart
<1>6. /\ records' \in Seq(Item)
      /\ \A i, j \in 1..Len(records') : records'[i].value = records'[j].value => i = j
      /\ Held' = In(t) \cup {rec}
  <2>1. \A q \in In(t) : q.value # rec.value
    BY <1>4, <1>5
  <2> QED  BY <1>4, <2>1, Appended DEF Held
<1>7. Facts!Idle \in Pen /\ Facts!Idle.at = "idle"
  BY DEF Facts!Idle, Pen, Stage
<1>8. /\ writer' \in [Writer -> Pen]
      /\ \A u \in Writer : u # w => writer'[u] = writer[u] /\ (Busy(u)' <=> Busy(u)) /\ seq'[u] = seq[u]
                                    /\ \A i : Facts!PutsNow(u, i)' <=> Facts!PutsNow(u, i)
      /\ \A u \in Writer : Busy(u)' => u # w
      /\ \A u \in Writer : \A i : Facts!PutsNow(u, i)' => u # w
      /\ \A u \in Writer : writer'[u].at # "idle" => u # w
  BY <1>1, <1>2, <1>7 DEF FactsTypeOK, Busy, Facts!PutsNow
<1>9. seq' \in [Writer -> Nat \cup {None}]
  <2>1. CASE writer[w].mints
    <3>1. seq[w] + 1 \in Nat
      BY <1>3, <2>1
    <3>2. seq' = [seq EXCEPT ![w] = seq[w] + 1]
      BY <1>1, <2>1
    <3> QED  BY <1>2, <3>1, <3>2 DEF FactsTypeOK
  <2>2. CASE ~writer[w].mints
    BY <1>1, <1>2, <2>2 DEF FactsTypeOK
  <2> QED  BY <2>1, <2>2
<1>10. /\ latest' \in [Facts!Ids -> Nat \cup {None}]
       /\ \A i \in Facts!Ids : latest'[i] = IF i = id THEN v ELSE latest[i]
  BY <1>1, <1>2, <1>3 DEF FactsTypeOK
<1>11. minted' \subseteq Nat \X Nat /\ \A m \in minted' : m \in minted \/ m = <<id, v>>
  BY <1>1, <1>2, <1>3 DEF FactsTypeOK
<1>12. FactsTypeOK'
  <2>1. \A u \in Writer : /\ writer'[u].at \in {"get", "find", "delete", "add"} => writer'[u].id \in Nat
                          /\ Busy(u)' => writer'[u].value \in Nat
                          /\ writer'[u].at = "delete" => writer'[u].old \in Nat
                          /\ writer'[u].at \in {"seed", "get"} => writer'[u].mints
                          /\ writer'[u].at # "idle" /\ writer'[u].at # "seed" /\ writer'[u].mints => seq'[u] \in Nat
    <3> SUFFICES ASSUME NEW u \in Writer, u # w
                 PROVE /\ writer'[u].at \in {"get", "find", "delete", "add"} => writer'[u].id \in Nat
                       /\ Busy(u)' => writer'[u].value \in Nat
                       /\ writer'[u].at = "delete" => writer'[u].old \in Nat
                       /\ writer'[u].at \in {"seed", "get"} => writer'[u].mints
                       /\ writer'[u].at # "idle" /\ writer'[u].at # "seed" /\ writer'[u].mints => seq'[u] \in Nat
      BY <1>8
    <3> QED  BY <1>2, <1>8 DEF Busy, FactsTypeOK
  <2> QED  BY <1>1, <1>2, <1>6, <1>8, <1>9, <1>10, <1>11, <2>1 DEF FactsTypeOK, Facts!Ids
<1>13. ValuesApart'
  <2>1. \A r \in Held' : r.value <= factOps'
    BY <1>1, <1>3, <1>4, <1>5, <1>6
  <2>2. ASSUME NEW u \in Writer, Busy(u)'
        PROVE  writer'[u].value <= factOps' /\ \A r \in Held' : r.value # writer'[u].value
    <3>1. u # w /\ Busy(u) /\ writer'[u] = writer[u]
      BY <1>8, <2>2
    <3>2. writer[u].value # v
      BY <1>2, <1>3, <3>1 DEF ValuesApart
    <3> QED  BY <1>1, <1>2, <1>4, <1>6, <3>1, <3>2 DEF ValuesApart
  <2>3. \A u, y \in Writer : Busy(u)' /\ Busy(y)' /\ writer'[u].value = writer'[y].value => u = y
    BY <1>2, <1>8 DEF ValuesApart
  <2>4. ASSUME NEW u \in Writer, writer'[u].at = "delete"
        PROVE  /\ writer'[u].old <= factOps'
               /\ \A y \in Writer : Busy(y)' => writer'[y].value # writer'[u].old
               /\ \A r \in Held' : r.value = writer'[u].old => r.id = writer'[u].id
    <3>1. u # w /\ writer'[u] = writer[u] /\ writer[u].at = "delete"
      BY <1>8, <2>4
    <3>2. v # writer[u].old
      BY <1>2, <1>3, <3>1 DEF ValuesApart
    <3>3. \A y \in Writer : Busy(y)' => writer'[y].value # writer[u].old
      BY <1>2, <1>8, <3>1 DEF ValuesApart
    <3> QED  BY <1>1, <1>2, <1>4, <1>6, <3>1, <3>2, <3>3 DEF ValuesApart
  <2> QED  BY <1>6, <2>1, <2>2, <2>3, <2>4 DEF ValuesApart
<1>14. \A u \in Writer : u # w /\ Facts!PutsNow(u, id) => id \in muddled
  BY <1>2, <1>3 DEF PutsAlone
<1>15. PutsAlone'
  <2>1. \A u, y \in Writer : \A i \in Nat \ muddled' : Facts!PutsNow(u, i)' /\ Facts!PutsNow(y, i)' => u = y
    BY <1>1, <1>2, <1>8 DEF PutsAlone
  <2>2. ASSUME NEW u \in Writer, writer'[u].at = "add", writer'[u].id \notin muddled'
        PROVE  \A r \in Held' : r.id # writer'[u].id
    <3>1. u # w /\ writer'[u] = writer[u] /\ writer[u].at = "add" /\ writer[u].id \notin muddled
      BY <1>1, <1>8, <2>2
    <3>2. writer[u].id # id
      BY <1>14, <3>1 DEF Facts!PutsNow
    <3>3. \A r \in Held : r.id # writer[u].id
      BY <1>2, <3>1 DEF PutsAlone
    <3> QED  BY <1>4, <1>6, <3>1, <3>2, <3>3
  <2>3. ASSUME NEW u \in Writer, writer'[u].at = "delete", writer'[u].id \notin muddled'
        PROVE  \A r \in Held' : r.id = writer'[u].id => r.value = writer'[u].old
    <3>1. u # w /\ writer'[u] = writer[u] /\ writer[u].at = "delete" /\ writer[u].id \notin muddled
      BY <1>1, <1>8, <2>3
    <3>2. writer[u].id # id
      BY <1>14, <3>1 DEF Facts!PutsNow
    <3>3. \A r \in Held : r.id = writer[u].id => r.value = writer[u].old
      BY <1>2, <3>1 DEF PutsAlone
    <3> QED  BY <1>4, <1>6, <3>1, <3>2, <3>3
  <2>4. ASSUME NEW u \in Writer, NEW m \in minted', Facts!PutsNow(u, m[1])' PROVE m[1] \in muddled'
    <3>1. u # w /\ Facts!PutsNow(u, m[1])
      BY <1>8, <2>4
    <3>2. CASE m \in minted
      BY <1>1, <1>2, <3>1, <3>2 DEF PutsAlone
    <3>3. CASE m = <<id, v>>
      BY <1>1, <1>14, <3>1, <3>3
    <3> QED  BY <1>11, <3>2, <3>3
  <2> QED  BY <2>1, <2>2, <2>3, <2>4 DEF PutsAlone
<1>16. HeldOnce'
  <2>1. ASSUME NEW r \in Held', NEW s \in Held', r.id = s.id, r.id \notin muddled' PROVE r = s
    <3>1. CASE r \in In(t) /\ s \in In(t)
      BY <1>1, <1>2, <2>1, <3>1 DEF HeldOnce
    <3>2. CASE r.id = id
      <4>1. \A q \in In(t) : q.id # id
        BY <1>1, <2>1, <3>2
      <4> QED  BY <1>6, <2>1, <3>2, <4>1
    <3>3. CASE r.id # id
      <4>1. r \in In(t) /\ s \in In(t)
        BY <1>4, <1>6, <2>1, <3>3
      <4> QED  BY <3>1, <4>1
    <3> QED  BY <3>2, <3>3
  <2>2. ASSUME NEW i \in Facts!Ids \ muddled'
        PROVE  /\ \A r \in Held' : r.id = i => r.value = latest'[i]
               /\ latest'[i] # None => \E r \in Held' : r.id = i
    <3>1. CASE i = id
      <4>1. \A q \in In(t) : q.id # id
        BY <1>1, <2>2, <3>1
      <4>2. latest'[i] = v
        BY <1>10, <2>2, <3>1
      <4> QED  BY <1>4, <1>6, <3>1, <4>1, <4>2
    <3>2. CASE i # id
      <4>1. latest'[i] = latest[i] /\ i \notin muddled
        BY <1>1, <1>10, <2>2, <3>2
      <4>2. \A r : r.id = i => (r \in Held' <=> r \in Held)
        BY <1>4, <1>6, <3>2
      <4> QED  BY <1>2, <2>2, <4>1, <4>2 DEF HeldOnce
    <3> QED  BY <3>1, <3>2
  <2>3. ASSUME NEW m \in minted', m[1] \notin muddled' PROVE \E r \in Held' : r.id = m[1] /\ r.value = m[2]
    <3>1. CASE m = <<id, v>>
      BY <1>4, <1>6, <3>1
    <3>2. CASE m \in minted
      <4>1. m[1] # id /\ m[1] \notin muddled
        BY <1>1, <1>2, <2>3, <3>2 DEF PutsAlone
      <4>2. PICK r \in Held : r.id = m[1] /\ r.value = m[2]
        BY <1>2, <3>2, <4>1 DEF HeldOnce
      <4> QED  BY <1>6, <4>1, <4>2
    <3> QED  BY <1>11, <3>1, <3>2
  <2> QED  BY <2>1, <2>2, <2>3 DEF HeldOnce, Facts!Ids
<1>17. UpsertAtOnce'
  <2> SUFFICES ASSUME service = "langmem"
               PROVE  /\ \A u \in Writer : writer'[u].at \notin {"delete", "add"}
                      /\ \A r, s \in Held' : r.id = s.id => r = s
    BY <1>1 DEF UpsertAtOnce
  <2>1. \A u \in Writer : writer'[u].at \notin {"delete", "add"}
    BY <1>2, <1>8 DEF UpsertAtOnce
  <2>2. \A q \in In(t) : q.id # id
    OBVIOUS
  <2>3. \A r, s \in In(t) : r.id = s.id => r = s
    BY <1>2 DEF UpsertAtOnce
  <2> QED  BY <1>4, <1>6, <2>1, <2>2, <2>3
<1> QED  BY <1>12, <1>13, <1>15, <1>16, <1>17 DEF FactsIInv

LEMMA AddNewIInv == ASSUME Facts!FactConstants, FactsIInv, NEW w \in Writer, Facts!AddNew(w) PROVE FactsIInv'
<1> PICK id : id = writer[w].id
  OBVIOUS
<1>1. writer[w].at = "add" /\ records' = Append(records, Facts!Record(w)) /\ Facts!Done(w)
  BY DEF Facts!AddNew, Facts!At
<1>2. Facts!PutsNow(w, id)
  BY <1>1 DEF Facts!PutsNow
<1>3. records \in Seq(Item) /\ \A i, j \in 1..Len(records) : records[i].value = records[j].value => i = j
  BY DEF FactsIInv, FactsTypeOK, ValuesApart
<1>4. In(records) = Held
  BY DEF Held
<1>5. id \notin muddled \/ service = "langmem" => \A r \in In(records) : r.id # id
  BY <1>1, <1>4 DEF FactsIInv, PutsAlone, UpsertAtOnce
<1>6. In(records) \subseteq Held /\ \A r \in Held : r.id # id => r \in In(records)
  BY <1>4
<1> HIDE DEF Held, In
<1> QED  BY <1>1, <1>2, <1>3, <1>5, <1>6, PutIn

LEMMA UpsertIInv == ASSUME Facts!FactConstants, FactsIInv, NEW w \in Writer, Facts!Upsert(w) PROVE FactsIInv'
<1> PICK id : id = writer[w].id
  OBVIOUS
<1> PICK t : t = Facts!WithoutId(id)
  OBVIOUS
<1>1. /\ writer[w].at = "find" /\ service = "langmem"
      /\ records' = Append(t, Facts!Record(w)) /\ Facts!Done(w)
  BY DEF Facts!Upsert, Facts!At
<1>2. Facts!PutsNow(w, id)
  BY <1>1 DEF Facts!PutsNow
<1>3. /\ t \in Seq(Item)
      /\ \A i, j \in 1..Len(t) : t[i].value = t[j].value => i = j
      /\ \A r : r \in In(t) <=> r \in Held /\ r.id # id
  BY <1>1, IdGone DEF FactsIInv, FactsTypeOK, ValuesApart, ApartValues, UpsertAtOnce
<1>4. In(t) \subseteq Held /\ (\A r \in Held : r.id # id => r \in In(t)) /\ \A r \in In(t) : r.id # id
  BY <1>3
<1> QED  BY <1>1, <1>2, <1>3, <1>4, PutIn

LEMMA FactsNextIInv == Facts!FactConstants /\ FactsIInv /\ [Facts!Next]_Facts!vars => FactsIInv'
<1> SUFFICES ASSUME Facts!FactConstants, FactsIInv, [Facts!Next]_Facts!vars PROVE FactsIInv'
  OBVIOUS
<1>1. ASSUME NEW w \in Writer, Facts!Step(w) PROVE FactsIInv'
  BY <1>1, AddFactIInv, KeepFactIInv, DeleteFactIInv, SeedIInv, GetIInv, FindIInv, DeleteOldIInv,
     AddNewIInv, UpsertIInv, CrashIInv DEF Facts!Step
<1>2. CASE UNCHANGED Facts!vars
  <2>1. UNCHANGED <<service, records, writer, seq, factOps, latest, muddled, minted>>
    BY <1>2 DEF Facts!vars, Facts!bounds, Facts!history
  <2>2. FactsTypeOK' /\ ValuesApart'
    BY <2>1 DEF FactsIInv, FactsTypeOK, ValuesApart, Busy, Held, In, Facts!Ids
  <2> QED  BY <2>1, <2>2 DEF FactsIInv, PutsAlone, Facts!PutsNow, HeldOnce, UpsertAtOnce, Held, In, Facts!Ids
<1> QED  BY <1>1, <1>2 DEF Facts!Next

LEMMA FactsMeans == Facts!FactConstants /\ FactsIInv => Facts!FactsKept
<1> SUFFICES ASSUME Facts!FactConstants, FactsIInv PROVE Facts!FactsKept
  OBVIOUS
<1>1. Len(records) \in Nat /\ DOMAIN records = 1..Len(records)
  BY DEF FactsIInv, FactsTypeOK
<1>2. Facts!ToSet(records) = Held
  BY <1>1 DEF Facts!ToSet, Held, In
<1>3. \A i : Facts!Values(i) = {r.value : r \in {s \in Held : s.id = i}}
  BY <1>2 DEF Facts!Values
<1>4. Facts!UpsertHolds
  <2> SUFFICES ASSUME NEW i \in Facts!Ids \ muddled PROVE Facts!Count(i) <= 1 /\ Facts!Values(i) = {latest[i]} \ {None}
    BY DEF Facts!UpsertHolds
  <2> DEFINE K == {k \in DOMAIN records : records[k].id = i}
  <2>1. \A j, k \in K : j = k
    <3>1. \A j, k \in K : records[j] = records[k]
      BY <1>1 DEF FactsIInv, HeldOnce, Held, In
    <3> QED  BY <1>1, <3>1 DEF FactsIInv, ValuesApart
  <2>2. Cardinality(K) <= 1
    <3>1. CASE K = {}
      BY <3>1, FS_EmptySet
    <3>2. CASE K # {}
      <4>1. PICK k : k \in K
        BY <3>2
      <4>2. K = {k}
        BY <2>1, <4>1
      <4>3. Cardinality({k}) = 1
        BY FS_Singleton
      <4> HIDE DEF K
      <4> QED  BY <4>2, <4>3
    <3> QED  BY <3>1, <3>2
  <2>3. \A r \in Held : r.id = i => r.value = latest[i]
    BY DEF FactsIInv, HeldOnce
  <2>4. latest[i] # None => \E r \in Held : r.id = i
    BY DEF FactsIInv, HeldOnce
  <2>5. \A r \in Held : r.value # None
    <3>1. \A k \in 1..Len(records) : records[k] \in Item
      BY DEF FactsIInv, FactsTypeOK
    <3> QED  BY <3>1 DEF Facts!FactConstants, Held, In, Item
  <2>6. Facts!Values(i) = {latest[i]} \ {None}
    BY <1>3, <2>3, <2>4, <2>5
  <2> QED  BY FactsCount, <2>2, <2>6 DEF Facts!Count
<1>5. Facts!MintedStays
  <2> SUFFICES ASSUME NEW m \in minted, m[1] \notin muddled PROVE Facts!Values(m[1]) = {m[2]}
    BY DEF Facts!MintedStays
  <2>1. PICK r \in Held : r.id = m[1] /\ r.value = m[2]
    BY DEF FactsIInv, HeldOnce
  <2>2. \A s \in Held : s.id = m[1] => s = r
    BY <2>1 DEF FactsIInv, HeldOnce
  <2> QED  BY <1>3, <2>1, <2>2
<1> QED  BY <1>4, <1>5 DEF Facts!FactsKept

LEMMA FactComponent == Facts!Spec => []Facts!FactsKept
<1>1. Facts!Init => FactsIInv
  BY FactAssumption, FactsInitIInv
<1>2. FactsIInv /\ [Facts!Next]_Facts!vars => FactsIInv'
  BY FactAssumption, FactsNextIInv
<1>3. FactsIInv => Facts!FactsKept
  BY FactAssumption, FactsMeans
<1> QED  BY <1>1, <1>2, <1>3, PTL DEF Facts!Spec

\* A memory service without upsert holds what its callers were told, for any
\* number of writers, crashes and calls: one value per id, that of its last put,
\* and a minted fact until somebody replaces it, unless two writers met on the id
\* (FactsKept).
THEOREM FactsAreKept == SpecParts => []FactsKept
<1>1. InitParts => Facts!Init
  BY DEF InitParts
<1>2. [NextPart]_allVars => [Facts!Next]_Facts!vars
  BY DEF NextPart, Rest, Rests, allVars, factVars, Facts!vars, Facts!bounds, Facts!history
<1>3. Facts!FactsKept => FactsKept
  BY DEF FactsKept
<1> QED  BY <1>1, <1>2, <1>3, FactComponent, PTL DEF SpecParts, Facts!Spec

--------------------------------------------------------------------------------
(* The directories of compiled bundles *)

Behind(input, i) == {j \in 1..Len(input) : Compiles!Before(input, j, i)}
Sourced(input) == /\ Len(input) \in Nat /\ \A i \in 1..Len(input) : input[i].source \in Int

\* The places of the sources of a list number it.
LEMMA Places ==
    ASSUME NEW input, Sourced(input), NEW k \in 1..Len(input)
    PROVE  /\ \E i \in 1..Len(input) : Cardinality(Behind(input, i)) = k - 1
           /\ \A i, j \in 1..Len(input) :
                 Cardinality(Behind(input, i)) = Cardinality(Behind(input, j)) => i = j
<1> DEFINE n == Len(input)
           count(i) == Cardinality(Behind(input, i))
           f == [i \in 1..n |-> count(i) + 1]
<1>1. n \in Nat /\ IsFiniteSet(1..n) /\ Cardinality(1..n) = n
  <2>1. n \in Nat
    BY DEF Sourced
  <2> HIDE DEF n
  <2>2. IsFiniteSet(1..n) /\ Cardinality(1..n) = IF 1 > n THEN 0 ELSE (n - 1) + 1
    BY <2>1, FS_Interval
  <2> QED  BY <2>1, <2>2
<1>2. \A i \in 1..n : /\ IsFiniteSet(Behind(input, i)) /\ count(i) \in Nat
                      /\ Behind(input, i) \subseteq 1..n /\ i \notin Behind(input, i)
  <2> SUFFICES ASSUME NEW i \in 1..n
               PROVE  /\ IsFiniteSet(Behind(input, i)) /\ count(i) \in Nat
                      /\ Behind(input, i) \subseteq 1..n /\ i \notin Behind(input, i)
    OBVIOUS
  <2>1. Behind(input, i) \subseteq 1..n /\ i \notin Behind(input, i)
    BY <1>1 DEF Behind, Compiles!Before, Sourced
  <2> QED  BY <1>1, <2>1, FS_Subset, FS_CardinalityType
<1>3. \A i \in 1..n : count(i) + 1 \in 1..n
  <2> SUFFICES ASSUME NEW i \in 1..n PROVE count(i) < n
    BY <1>1, <1>2
  <2>1. Behind(input, i) \in SUBSET (1..n) /\ Behind(input, i) # 1..n
    BY <1>2
  <2> QED  BY <1>1, <1>2, <2>1, FS_Subset
<1>4. \A i, j \in 1..n : Compiles!Before(input, i, j) => count(i) < count(j)
  <2> SUFFICES ASSUME NEW i \in 1..n, NEW j \in 1..n, Compiles!Before(input, i, j)
               PROVE  count(i) < count(j)
    OBVIOUS
  <2>1. \A m \in 1..n : Compiles!Before(input, m, i) => Compiles!Before(input, m, j)
    BY <1>1 DEF Compiles!Before, Sourced
  <2>2. Behind(input, i) \in SUBSET Behind(input, j) /\ Behind(input, i) # Behind(input, j)
    BY <1>2, <2>1 DEF Behind
  <2> QED  BY <1>2, <2>2, FS_Subset
<1>5. \A i, j \in 1..n : count(i) = count(j) => i = j
  <2> SUFFICES ASSUME NEW i \in 1..n, NEW j \in 1..n, i # j PROVE count(i) # count(j)
    OBVIOUS
  <2>1. Compiles!Before(input, i, j) \/ Compiles!Before(input, j, i)
    BY <1>1 DEF Compiles!Before, Sourced
  <2> QED  BY <1>2, <1>4, <2>1
<1>6. f \in Injection(1..n, 1..n)
  <2>1. f \in [1..n -> 1..n] /\ \A i \in 1..n : f[i] = count(i) + 1
    BY <1>3
  <2> HIDE DEF f
  <2>2. \A i, j \in 1..n : f[i] = f[j] => i = j
    BY <1>2, <1>5, <2>1
  <2> QED  BY <2>1, <2>2 DEF Injection, IsInjective
<1>7. f \in Surjection(1..n, 1..n)
  BY <1>1, <1>6, FS_Injection
<1>8. PICK i \in 1..n : f[i] = k
  BY <1>7 DEF Surjection
<1>9. count(i) = k - 1
  BY <1>2, <1>8
<1> QED  BY <1>5, <1>9

\* What comes k-th of the m sources of a list.
Sourcing(x, m, k) == x[CHOOSE i \in 1..m : Cardinality(Behind(x, i)) = k - 1]

LEMMA SourcesSorted ==
    ASSUME NEW x, NEW m, m = Len(x)
    PROVE  Compiles!Sources(x) = [k \in 1..m |-> Sourcing(x, m, k)]
<1>1. Compiles!Sources(x) = [k \in 1..Len(x) |-> Sourcing(x, Len(x), k)]
  BY DEF Compiles!Sources, Behind, Sourcing, Compiles!Cardinality, Cardinality
<1> QED  BY <1>1

\* Sorting does not see the order in which sources came that all differ.
LEMMA SourcesFree ==
    ASSUME NEW S, NEW input \in Seq(S), Sourced(input),
           \A i, j \in 1..Len(input) : i # j => input[i].source # input[j].source
    PROVE  Compiles!Sources(Compiles!Reverse(input)) = Compiles!Sources(input)
<1> DEFINE n == Len(input)
           r == Compiles!Reverse(input)
           other(i) == (n - i) + 1
<1>1. n \in Nat /\ r = [i \in 1..n |-> input[other(i)]]
  BY DEF Compiles!Reverse
<1>2. \A i \in 1..n : other(i) \in 1..n /\ other(other(i)) = i
  BY <1>1
<1>3. r \in Seq(S) /\ Len(r) = n /\ \A i \in 1..n : r[i] = input[other(i)]
  <2>1. \A i \in 1..n : input[other(i)] \in S
    BY <1>2
  <2>2. r \in Seq(S)
    BY <1>1, <2>1
  <2> QED  BY <1>1, <2>2
<1>4. Sourced(r)
  BY <1>2, <1>3 DEF Sourced
<1> HIDE DEF r
<1>5. \A i \in 1..n : Cardinality(Behind(r, other(i))) = Cardinality(Behind(input, i))
  <2> SUFFICES ASSUME NEW i \in 1..n
               PROVE  Cardinality(Behind(r, other(i))) = Cardinality(Behind(input, i))
    OBVIOUS
  <2> DEFINE f == [j \in Behind(input, i) |-> other(j)]
  <2>1. \A j \in 1..n : Compiles!Before(r, other(j), other(i)) <=> Compiles!Before(input, j, i)
    BY <1>1, <1>2, <1>3 DEF Compiles!Before, Sourced
  <2>2. Behind(r, other(i)) = {other(j) : j \in Behind(input, i)}
    <3>1. \A j \in 1..n : j \in Behind(input, i) <=> other(j) \in Behind(r, other(i))
      BY <1>2, <1>3, <2>1 DEF Behind
    <3>2. \A m \in Behind(r, other(i)) : m \in 1..n
      BY <1>3 DEF Behind
    <3>3. \A j \in Behind(input, i) : j \in 1..n
      BY DEF Behind
    <3> HIDE DEF other
    <3> QED  BY <1>2, <3>1, <3>2, <3>3
  <2>3. Behind(input, i) \subseteq 1..n
    BY DEF Behind
  <2>4. f \in Bijection(Behind(input, i), Behind(r, other(i)))
    <3>1. \A j, m \in Behind(input, i) : other(j) = other(m) => j = m
      BY <1>1, <2>3
    <3>2. f \in [Behind(input, i) -> Behind(r, other(i))] /\ \A j \in Behind(input, i) : f[j] = other(j)
      BY <2>2
    <3> HIDE DEF f, other
    <3> QED  BY <2>2, <3>1, <3>2 DEF Bijection, Injection, Surjection, IsInjective
  <2>5. IsFiniteSet(Behind(input, i))
    <3>1. IsFiniteSet(1..n)
      BY <1>1, FS_Interval
    <3> QED  BY <2>3, <3>1, FS_Subset
  <2> QED  BY <2>4, <2>5, FS_Bijection DEF ExistsBijection
<1>6. ASSUME NEW k \in 1..n
      PROVE  Sourcing(r, n, k) = Sourcing(input, n, k)
  <2>1. PICK i \in 1..n : Cardinality(Behind(input, i)) = k - 1
    BY Places
  <2>2. Cardinality(Behind(r, other(i))) = k - 1 /\ other(i) \in 1..n
    BY <1>2, <1>5, <2>1
  <2>3. (CHOOSE j \in 1..n : Cardinality(Behind(input, j)) = k - 1) = i
    BY <2>1, Places
  <2>4. (CHOOSE j \in 1..n : Cardinality(Behind(r, j)) = k - 1) = other(i)
    BY <1>3, <1>4, <2>2, Places
  <2> QED  BY <1>2, <1>3, <2>2, <2>3, <2>4 DEF Sourcing
<1>7. n = Len(r) /\ n = Len(input)
  BY <1>3
<1> HIDE DEF n
<1>8. Compiles!Sources(r) = Compiles!Sources(input)
  <2>1. Compiles!Sources(r) = [k \in 1..n |-> Sourcing(r, n, k)]
    BY <1>7, SourcesSorted
  <2>2. Compiles!Sources(input) = [k \in 1..n |-> Sourcing(input, n, k)]
    BY <1>7, SourcesSorted
  <2>3. [k \in 1..n |-> Sourcing(r, n, k)] = [k \in 1..n |-> Sourcing(input, n, k)]
    BY <1>6
  <2> QED  BY <2>1, <2>2, <2>3
<1> QED  BY <1>8 DEF r

\* A definition of a list: that of the first source that has one.
Merging(x, m, field, k) == x[CHOOSE i \in 1..m : k \in DOMAIN x[i][field]][field][k]
Defined(x, m, field) == UNION {DOMAIN x[i][field] : i \in 1..m}

LEMMA MergedIs ==
    ASSUME NEW x, NEW m, m = Len(x), NEW field
    PROVE  Compiles!Merged(x, field) = [k \in Defined(x, m, field) |-> Merging(x, m, field, k)]
<1>1. Compiles!Merged(x, field) =
         [k \in Defined(x, Len(x), field) |-> Merging(x, Len(x), field, k)]
  BY DEF Compiles!Merged, Defined, Merging
<1> QED  BY <1>1

\* Sources that agree may be merged in any order, and each keeps its definitions.
LEMMA MergedKeeps ==
    ASSUME NEW x, NEW m \in Nat, m = Len(x), ~Compiles!Conflict(x), NEW field \in {"capabilities", "resources"},
           NEW i \in 1..m, NEW k \in DOMAIN x[i][field]
    PROVE  Merging(x, m, field, k) = x[i][field][k] /\ k \in Defined(x, m, field)
<1>1. PICK j : j = (CHOOSE i0 \in 1..m : k \in DOMAIN x[i0][field])
  OBVIOUS
<1>2. j \in 1..m /\ k \in DOMAIN x[j][field]
  BY <1>1
<1>3. x[i][field][k] = x[j][field][k]
  BY <1>2 DEF Compiles!Conflict
<1> QED  BY <1>1, <1>3 DEF Merging, Defined

LEMMA MergedFree ==
    ASSUME NEW S, NEW input \in Seq(S), ~Compiles!Conflict(input), NEW field \in {"capabilities", "resources"}
    PROVE  Compiles!Merged(Compiles!Reverse(input), field) = Compiles!Merged(input, field)
<1> DEFINE n == Len(input)
           r == Compiles!Reverse(input)
           other(i) == (n - i) + 1
<1>1. n \in Nat /\ r = [i \in 1..n |-> input[other(i)]]
  BY DEF Compiles!Reverse
<1>2. \A i \in 1..n : other(i) \in 1..n /\ other(other(i)) = i
  BY <1>1
<1>3. Len(r) = n /\ \A i \in 1..n : r[i] = input[other(i)]
  <2>1. \A i \in 1..n : input[other(i)] \in S
    BY <1>2
  <2>2. r \in Seq(S)
    BY <1>1, <2>1
  <2> QED  BY <1>1, <2>2
<1>4. ~Compiles!Conflict(r)
  <2> SUFFICES ASSUME NEW i \in 1..n, NEW j \in 1..n, NEW g \in {"capabilities", "resources"},
                      NEW k \in DOMAIN r[i][g] \cap DOMAIN r[j][g]
               PROVE  r[i][g][k] = r[j][g][k]
    BY <1>3 DEF Compiles!Conflict
  <2>1. /\ other(i) \in 1..n /\ other(j) \in 1..n
        /\ r[i] = input[other(i)] /\ r[j] = input[other(j)]
    BY <1>2, <1>3
  <2>2. k \in DOMAIN input[other(i)][g] \cap DOMAIN input[other(j)][g]
    BY <2>1
  <2>3. input[other(i)][g][k] = input[other(j)][g][k]
    BY <2>1, <2>2 DEF Compiles!Conflict
  <2> QED  BY <2>1, <2>3
<1>n. n \in Nat
  BY <1>1
<1> HIDE DEF r, n, other
<1>5. Defined(r, n, field) = Defined(input, n, field)
  <2>1. \A k : k \in Defined(r, n, field) => k \in Defined(input, n, field)
    BY <1>2, <1>3 DEF Defined
  <2>2. \A k : k \in Defined(input, n, field) => k \in Defined(r, n, field)
    <3> SUFFICES ASSUME NEW i \in 1..n, NEW k \in DOMAIN input[i][field]
                 PROVE  k \in Defined(r, n, field)
      BY DEF Defined
    <3>1. r[other(i)] = input[i] /\ other(i) \in 1..n
      BY <1>2, <1>3
    <3> QED  BY <3>1 DEF Defined
  <2> QED  BY <2>1, <2>2
<1>6. ASSUME NEW k \in Defined(input, n, field)
      PROVE  Merging(r, n, field, k) = Merging(input, n, field, k)
  <2>1. PICK i \in 1..n : k \in DOMAIN input[i][field]
    BY DEF Defined
  <2>2. r[other(i)] = input[i] /\ other(i) \in 1..n
    BY <1>2, <1>3, <2>1
  <2>3. Merging(input, n, field, k) = input[i][field][k]
    BY <1>1, <2>1, MergedKeeps DEF n
  <2>4. n = Len(r) /\ k \in DOMAIN r[other(i)][field]
    BY <1>3, <2>1, <2>2
  <2>5. Merging(r, n, field, k) = r[other(i)][field][k]
    BY <1>n, <1>4, <2>2, <2>4, MergedKeeps
  <2> QED  BY <2>2, <2>3, <2>5
<1>7. Compiles!Merged(r, field) = [k \in Defined(r, n, field) |-> Merging(r, n, field, k)]
  BY <1>3, MergedIs
<1>8. Compiles!Merged(input, field) = [k \in Defined(input, n, field) |-> Merging(input, n, field, k)]
  BY MergedIs DEF n
<1>9. Compiles!Merged(r, field) = Compiles!Merged(input, field)
  BY <1>5, <1>6, <1>7, <1>8
<1> QED  BY <1>9 DEF r

LEMMA OrderIsFree == Compiles!BundleConstants => Compiles!OrderFree
<1> SUFFICES ASSUME Compiles!BundleConstants, NEW p \in 1..Len(Lists),
                    NEW input, input = Lists[p]
             PROVE  /\ (\A i, j \in 1..Len(input) : i # j => input[i].source # input[j].source) =>
                          Compiles!Compiled(Compiles!Reverse(input)) = Compiles!Compiled(input) \/ Compiles!Conflict(input)
                    /\ ~Compiles!Conflict(input) => \A i \in 1..Len(input) :
                          \A c \in DOMAIN input[i].capabilities :
                              Compiles!Compiled(input).capabilities[c] = input[i].capabilities[c]
  BY DEF Compiles!OrderFree
<1>1. input \in Seq(Compiles!Snapshot) /\ Len(input) \in Nat
  BY DEF Compiles!BundleConstants
<1>2. Sourced(input)
  BY <1>1 DEF Sourced, Compiles!BundleConstants
<1>3. ASSUME \A i, j \in 1..Len(input) : i # j => input[i].source # input[j].source, ~Compiles!Conflict(input)
      PROVE  Compiles!Compiled(Compiles!Reverse(input)) = Compiles!Compiled(input)
  <2>1. Compiles!Sources(Compiles!Reverse(input)) = Compiles!Sources(input)
    BY <1>1, <1>2, <1>3, SourcesFree
  <2>2. /\ Compiles!Merged(Compiles!Reverse(input), "capabilities") = Compiles!Merged(input, "capabilities")
        /\ Compiles!Merged(Compiles!Reverse(input), "resources") = Compiles!Merged(input, "resources")
    BY <1>1, <1>3, MergedFree
  <2> QED  BY <2>1, <2>2 DEF Compiles!Compiled
<1>4. ASSUME ~Compiles!Conflict(input), NEW i \in 1..Len(input), NEW c \in DOMAIN input[i].capabilities
      PROVE  Compiles!Compiled(input).capabilities[c] = input[i].capabilities[c]
  <2>1. PICK m : m = Len(input)
    OBVIOUS
  <2>2. /\ Merging(input, m, "capabilities", c) = input[i]["capabilities"][c]
        /\ c \in Defined(input, m, "capabilities")
    BY <1>1, <1>4, <2>1, MergedKeeps
  <2>3. Compiles!Merged(input, "capabilities")[c] = input[i].capabilities[c]
    BY <2>1, <2>2, MergedIs
  <2> QED  BY <2>3 DEF Compiles!Compiled
<1> QED  BY <1>3, <1>4

\* Bundles and the marks of a file that is missing or empty; what a runner may be at.
Marks == Compiles!Bundle \cup {None, Emptied}
ActorRecord == [doing : {"nothing", "refused", "writing", "written", "verifying", "loading", "loaded", "failed"},
                dir : Compiles!Bundle \cup {None}, at : 0..9, seen : Seq(Marks), sure : BOOLEAN]
BundleActor ==
    {r \in ActorRecord :
        /\ r.doing \in {"writing", "verifying", "loading", "loaded"} => r.dir \in Compiles!Bundle
        /\ r.doing = "verifying" => Len(r.seen) < 7 /\ r.at = 0
        /\ r.doing = "loading" => Len(r.seen) < 5
        /\ r.doing = "loaded" => Len(r.seen) = 5}
BundleTypeOK ==
    /\ disk \in [Compiles!Bundle -> [Compiles!File -> Marks]]
    /\ actor \in [Runner -> BundleActor]
    /\ unsure \subseteq Compiles!Bundle

\* Runner a writes directory b; it has emptied the k-th file and not filled it yet.
WritesTo(a, b) == actor[a].doing = "writing" /\ actor[a].dir = b
Past(a) == actor[a].at \div 2
Fills(a, k) == actor[a].at % 2 = 1 /\ k = Past(a) + 1
Filling(b, k) == \E a \in Runner : WritesTo(a, b) /\ Fills(a, k)
FileAt(k) == Compiles!WriteOrder[k]

\* The k-th file of b is that of b, or somebody is about to write it.
Good(b, k) == \/ disk[b][FileAt(k)] = b
              \/ disk[b][FileAt(k)] = Emptied /\ Filling(b, k)

\* A directory nobody left half-way or changed since has files of its own, and those
\* not written yet are being written; a writer that is sure leaves good files behind it,
\* and any writer files that exist.
Regular == \A b \in Compiles!Bundle \ unsure : \A k \in 1..5 :
              disk[b][FileAt(k)] = None \/ Good(b, k)
Complete == \A b \in Compiles!Bundle \ unsure :
              (\E k \in 1..5 : disk[b][FileAt(k)] # None) =>
                  \/ \A k \in 1..5 : disk[b][FileAt(k)] # None
                  \/ \E a \in Runner : WritesTo(a, b) /\ actor[a].at > 0
Behindhand == \A a \in Runner : \A b \in Compiles!Bundle : WritesTo(a, b) =>
              /\ actor[a].sure => \A k \in 1..5 : k <= Past(a) => Good(b, k)
              /\ \A k \in 1..5 : k <= Past(a) \/ Fills(a, k) => disk[b][FileAt(k)] # None

\* What a runner that is sure has read of a directory is what the directory says, or
\* somebody has written it anew; what it verified stays what the name stands for.
Says(b, f) == Compiles!TextOf(disk[b][f], f) = Compiles!TextOf(b, f)
SeesTruly(r) == r.doing = "verifying" /\ r.sure =>
    \A i \in 1..Len(r.seen) :
        disk[r.dir][Compiles!VerifyOrder[i]] \in {Emptied, r.dir, r.seen[i]}
LoadsTruly(r) == r.doing \in {"loading", "loaded"} /\ r.at = 1 /\ r.sure =>
    /\ \A f \in Compiles!File : disk[r.dir][f] \in {None, Emptied} \/ Says(r.dir, f)
    /\ \A i \in 1..Len(r.seen) : Compiles!TextOf(r.seen[i], Compiles!LoadOrder[i])
                                 = Compiles!TextOf(r.dir, Compiles!LoadOrder[i])
Truthful == \A a \in Runner : SeesTruly(actor[a]) /\ LoadsTruly(actor[a])

BundlesIInv == BundleTypeOK /\ Regular /\ Complete /\ Behindhand /\ Truthful

\* The five files, in the orders they are written and read.
LEMMA FileOrders ==
    /\ Compiles!File = {FileAt(k) : k \in 1..5}
    /\ \A k, m \in 1..5 : FileAt(k) = FileAt(m) => k = m
    /\ Compiles!File = {Compiles!VerifyOrder[k] : k \in 1..5}
    /\ Compiles!File = {Compiles!LoadOrder[k] : k \in 1..5}
    /\ Compiles!VerifyOrder[1] = "manifest"
    /\ \A k \in 2..5 : Compiles!VerifyOrder[k] # "manifest"
    /\ \A k \in 1..7 : Compiles!VerifyOrder[k] \in Compiles!File
    /\ Len(Compiles!WriteOrder) = 5 /\ Len(Compiles!VerifyOrder) = 7 /\ Len(Compiles!LoadOrder) = 5
<1> USE DEF Compiles!File, Compiles!Component, Compiles!WriteOrder, Compiles!VerifyOrder,
        Compiles!LoadOrder, FileAt
<1>1. /\ FileAt(1) = "agent" /\ FileAt(2) = "capabilities" /\ FileAt(3) = "resources"
      /\ FileAt(4) = "lock" /\ FileAt(5) = "manifest"
  OBVIOUS
<1>2. /\ Compiles!VerifyOrder[1] = "manifest" /\ Compiles!VerifyOrder[2] = "agent"
      /\ Compiles!VerifyOrder[3] = "capabilities" /\ Compiles!VerifyOrder[4] = "resources"
      /\ Compiles!VerifyOrder[5] = "lock" /\ Compiles!VerifyOrder[6] = "resources"
      /\ Compiles!VerifyOrder[7] = "lock"
  OBVIOUS
<1>3. /\ Compiles!LoadOrder[1] = "agent" /\ Compiles!LoadOrder[2] = "capabilities"
      /\ Compiles!LoadOrder[3] = "resources" /\ Compiles!LoadOrder[4] = "lock"
      /\ Compiles!LoadOrder[5] = "manifest"
  OBVIOUS
<1>4. Len(Compiles!WriteOrder) = 5 /\ Len(Compiles!VerifyOrder) = 7 /\ Len(Compiles!LoadOrder) = 5
  OBVIOUS
<1>5. Compiles!File = {"agent", "capabilities", "resources", "lock", "manifest"}
  OBVIOUS
<1>6. 1..5 = {1, 2, 3, 4, 5} /\ 2..5 = {2, 3, 4, 5} /\ 1..7 = {1, 2, 3, 4, 5, 6, 7}
  OBVIOUS
<1> HIDE DEF Compiles!File, Compiles!Component, Compiles!WriteOrder, Compiles!VerifyOrder,
        Compiles!LoadOrder, FileAt
<1>7. Compiles!File = {FileAt(k) : k \in 1..5}
  BY <1>1, <1>5, <1>6
<1>8. Compiles!File = {Compiles!VerifyOrder[k] : k \in 1..5}
  BY <1>2, <1>5, <1>6
<1>9. Compiles!File = {Compiles!LoadOrder[k] : k \in 1..5}
  BY <1>3, <1>5, <1>6
<1>10. \A k, m \in 1..5 : FileAt(k) = FileAt(m) => k = m
  BY <1>1, <1>6
<1> QED  BY <1>2, <1>4, <1>5, <1>6, <1>7, <1>8, <1>9, <1>10

\* Bundles have numbers, so they are no marks.
LEMMA BundlesNumbered ==
    ASSUME Compiles!BundleConstants
    PROVE  /\ Compiles!Bundle \subseteq Nat
           /\ \A b \in Compiles!Bundle : b \notin {None, Emptied}
           /\ None # Emptied
<1>1. ASSUME NEW i \in Compiles!Accepted PROVE Compiles!Named(i) \in Nat
  <2> DEFINE T == {j \in Compiles!Accepted : Compiles!Payload(j) = Compiles!Payload(i)}
  <2>1. T \subseteq Nat /\ T # {}
    BY DEF Compiles!Accepted
  <2>2. PICK m \in T : \A k \in T : ~(<<k, m>> \in OpToRel(<, Nat))
    BY <2>1, NatLessThanWellFounded, WFMin
  <2>3. \A k \in T : m <= k
    <3> HIDE DEF T
    <3>1. \A k \in T : ~(k < m)
      BY <2>1, <2>2 DEF OpToRel
    <3>2. m \in Nat /\ \A k \in T : k \in Nat
      BY <2>1
    <3> QED  BY <3>1, <3>2
  <2>4. Compiles!Named(i) = CHOOSE x \in T : \A y \in T : x <= y
    BY DEF Compiles!Named, Compiles!Min
  <2> HIDE DEF T
  <2>5. Compiles!Named(i) \in T
    BY <2>2, <2>3, <2>4
  <2> QED  BY <2>1, <2>5
<1>2. Compiles!Bundle \subseteq Nat
  BY <1>1 DEF Compiles!Bundle
<1> QED  BY <1>2 DEF Compiles!BundleConstants

\* A step that leaves the files alone, of a runner that writes nothing yet.
LEMMA BundlesAside ==
    ASSUME Compiles!BundleConstants, BundlesIInv, NEW a \in Runner, NEW new \in BundleActor,
           actor' = [actor EXCEPT ![a] = new], UNCHANGED <<disk, unsure>>,
           actor[a].doing # "writing", new.doing = "writing" => new.at = 0,
           SeesTruly(new), LoadsTruly(new)
    PROVE  BundlesIInv'
<1>1. BundleTypeOK'
  BY DEF BundlesIInv, BundleTypeOK
<1>2. actor'[a] = new /\ \A c \in Runner : c # a => actor'[c] = actor[c]
  BY DEF BundlesIInv, BundleTypeOK
<1>3. \A b, k : Filling(b, k)' <=> Filling(b, k)
  <2>1. ~(new.doing = "writing" /\ new.at % 2 = 1)
    OBVIOUS
  <2> QED  BY <1>2, <2>1 DEF Filling, WritesTo, Fills, Past
<1>4. \A b, k : Good(b, k)' <=> Good(b, k)
  BY <1>3 DEF Good, FileAt
<1>5. Regular'
  BY <1>4 DEF BundlesIInv, Regular, FileAt
<1>6. Complete'
  BY <1>2 DEF BundlesIInv, Complete, WritesTo, FileAt
<1>7. Behindhand'
  <2> SUFFICES ASSUME NEW c \in Runner, NEW b \in Compiles!Bundle, WritesTo(c, b)'
               PROVE  /\ actor'[c].sure => \A k \in 1..5 : k <= Past(c)' => Good(b, k)'
                      /\ \A k \in 1..5 : k <= Past(c)' \/ Fills(c, k)' => disk'[b][FileAt(k)] # None
    BY DEF Behindhand, FileAt
  <2>1. CASE c = a
    <3>1. actor'[c].at = 0
      BY <1>2, <2>1 DEF WritesTo
    <3> QED  BY <3>1 DEF Past, Fills
  <2>2. CASE c # a
    BY <1>2, <1>4, <2>2 DEF BundlesIInv, Behindhand, WritesTo, Past, Fills, FileAt
  <2> QED  BY <2>1, <2>2
<1>8. Truthful'
  BY <1>2 DEF BundlesIInv, Truthful, SeesTruly, LoadsTruly, Says
<1> QED  BY <1>1, <1>5, <1>6, <1>7, <1>8 DEF BundlesIInv

\* What writers put into files of their own belies nobody.
LEMMA WritesAreTrue ==
    ASSUME Compiles!BundleConstants, BundlesIInv, NEW b \in Compiles!Bundle, NEW f \in Compiles!File,
           NEW c \in {Emptied, b}, disk' = [disk EXCEPT ![b][f] = c],
           NEW a \in Runner, NEW new \in BundleActor, new.doing \in {"writing", "written"},
           actor' = [actor EXCEPT ![a] = new]
    PROVE  Truthful'
<1>1. /\ disk'[b][f] = c
      /\ \A d \in Compiles!Bundle : \A g \in Compiles!File :
            d # b \/ g # f => disk'[d][g] = disk[d][g]
  BY DEF BundlesIInv, BundleTypeOK
<1>2. actor'[a] = new /\ \A e \in Runner : e # a => actor'[e] = actor[e]
  BY DEF BundlesIInv, BundleTypeOK
<1> SUFFICES ASSUME NEW e \in Runner, e # a
             PROVE  SeesTruly(actor[e])' /\ LoadsTruly(actor[e])'
  BY <1>2 DEF Truthful, SeesTruly, LoadsTruly
<1>3. actor'[e] = actor[e] /\ actor[e] \in BundleActor /\ SeesTruly(actor[e]) /\ LoadsTruly(actor[e])
  BY <1>2 DEF BundlesIInv, BundleTypeOK, Truthful
<1>4. SeesTruly(actor[e])'
  <2> SUFFICES ASSUME actor[e].doing = "verifying", actor[e].sure, NEW i \in 1..Len(actor[e].seen)
               PROVE  disk'[actor[e].dir][Compiles!VerifyOrder[i]] \in {Emptied, actor[e].dir, actor[e].seen[i]}
    BY <1>3 DEF SeesTruly
  <2>1. actor[e].dir \in Compiles!Bundle /\ Len(actor[e].seen) < 7 /\ actor[e].seen \in Seq(Marks)
    BY <1>3 DEF BundleActor, ActorRecord
  <2>2. Compiles!VerifyOrder[i] \in Compiles!File
    BY <2>1, FileOrders
  <2>3. disk[actor[e].dir][Compiles!VerifyOrder[i]] \in {Emptied, actor[e].dir, actor[e].seen[i]}
    BY <1>3 DEF SeesTruly
  <2> QED  BY <1>1, <2>1, <2>2, <2>3
<1>5. LoadsTruly(actor[e])'
  <2> SUFFICES ASSUME actor[e].doing \in {"loading", "loaded"}, actor[e].at = 1, actor[e].sure
               PROVE  \A g \in Compiles!File :
                         disk'[actor[e].dir][g] \in {None, Emptied} \/ Says(actor[e].dir, g)'
    BY <1>3 DEF LoadsTruly
  <2>1. actor[e].dir \in Compiles!Bundle
    BY <1>3 DEF BundleActor, ActorRecord
  <2>2. \A g \in Compiles!File : disk[actor[e].dir][g] \in {None, Emptied} \/ Says(actor[e].dir, g)
    BY <1>3 DEF LoadsTruly
  <2> SUFFICES ASSUME NEW g \in Compiles!File
               PROVE  disk'[actor[e].dir][g] \in {None, Emptied} \/ Says(actor[e].dir, g)'
    OBVIOUS
  <2>3. CASE actor[e].dir = b /\ g = f
    BY <1>1, <1>3, <2>3 DEF Says
  <2>4. CASE actor[e].dir # b \/ g # f
    BY <1>1, <1>3, <2>1, <2>2, <2>4 DEF Says
  <2> QED  BY <2>3, <2>4
<1> QED  BY <1>4, <1>5

\* What a runner reads of a directory it verifies or loads.
LEMMA Grown ==
    ASSUME NEW r \in BundleActor, r.doing \in {"verifying", "loading"}, NEW x \in Marks
    PROVE  /\ r.seen \in Seq(Marks) /\ r.dir \in Compiles!Bundle
           /\ Len(r.seen) \in IF r.doing = "loading" THEN 0..4 ELSE 0..6
           /\ Append(r.seen, x) \in Seq(Marks) /\ Len(Append(r.seen, x)) = Len(r.seen) + 1
           /\ Append(r.seen, x)[Len(Append(r.seen, x))] = x
           /\ \A i \in 1..Len(r.seen) : Append(r.seen, x)[i] = r.seen[i]
<1>1. r.seen \in Seq(Marks) /\ r.dir \in Compiles!Bundle
  BY DEF BundleActor, ActorRecord
<1>2. Len(r.seen) \in IF r.doing = "loading" THEN 0..4 ELSE 0..6
  <2>1. Len(r.seen) \in Nat
    BY <1>1
  <2>2. r.doing = "loading" => Len(r.seen) < 5
    BY DEF BundleActor, ActorRecord
  <2>3. r.doing = "verifying" => Len(r.seen) < 7
    BY DEF BundleActor, ActorRecord
  <2> QED  BY <2>1, <2>2, <2>3
<1>3. PICK s \in Seq(Marks) : s = r.seen
  BY <1>1
<1>4. /\ Append(s, x) \in Seq(Marks) /\ Len(Append(s, x)) = Len(s) + 1
      /\ Append(s, x)[Len(Append(s, x))] = x
      /\ \A i \in 1..Len(s) : Append(s, x)[i] = s[i]
  OBVIOUS
<1> QED  BY <1>1, <1>2, <1>3, <1>4

\* What becomes of it is something a runner may be at.
LEMMA Turned ==
    ASSUME NEW r \in BundleActor, NEW seen \in Seq(Marks)
    PROVE  /\ [r EXCEPT !.doing = "failed", !.seen = <<>>] \in BundleActor
           /\ [r EXCEPT !.doing = "failed", !.seen = <<>>].doing = "failed"
           /\ r.doing = "verifying" /\ Len(seen) < 7 => [r EXCEPT !.seen = seen] \in BundleActor
           /\ r.doing = "loading" /\ Len(seen) < 5 => [r EXCEPT !.seen = seen, !.doing = "loading"] \in BundleActor
           /\ r.doing = "loading" /\ Len(seen) = 5 => [r EXCEPT !.seen = seen, !.doing = "loaded"] \in BundleActor
           /\ r.doing = "verifying" => [r EXCEPT !.doing = "loading", !.seen = <<>>, !.at = 1] \in BundleActor
<1>1. <<>> \in Seq(Marks) /\ Len(<<>>) = 0
  OBVIOUS
<1>2. /\ [r EXCEPT !.doing = "failed", !.seen = <<>>] \in BundleActor
      /\ [r EXCEPT !.doing = "failed", !.seen = <<>>].doing = "failed"
  BY <1>1 DEF BundleActor, ActorRecord
<1>3. r.doing = "verifying" /\ Len(seen) < 7 => [r EXCEPT !.seen = seen] \in BundleActor
  BY DEF BundleActor, ActorRecord
<1>4. r.doing = "loading" /\ Len(seen) < 5 => [r EXCEPT !.seen = seen, !.doing = "loading"] \in BundleActor
  BY DEF BundleActor, ActorRecord
<1>5. r.doing = "loading" /\ Len(seen) = 5 => [r EXCEPT !.seen = seen, !.doing = "loaded"] \in BundleActor
  BY DEF BundleActor, ActorRecord
<1>6. ASSUME r.doing = "verifying"
      PROVE  [r EXCEPT !.doing = "loading", !.seen = <<>>, !.at = 1] \in BundleActor
  <2> DEFINE new == [r EXCEPT !.doing = "loading", !.seen = <<>>, !.at = 1]
  <2>1. new.doing = "loading" /\ new.seen = <<>> /\ new.dir = r.dir
    BY DEF BundleActor, ActorRecord
  <2>2. new \in ActorRecord
    <3> DEFINE half == [r EXCEPT !.doing = "loading", !.seen = <<>>]
    <3>1. half \in ActorRecord
      BY <1>1 DEF BundleActor, ActorRecord
    <3>2. new = [half EXCEPT !.at = 1]
      OBVIOUS
    <3> HIDE DEF new, half
    <3> QED  BY <3>1, <3>2 DEF ActorRecord
  <2>3. r.dir \in Compiles!Bundle
    BY <1>6 DEF BundleActor
  <2> HIDE DEF new
  <2>4. new \in BundleActor
    BY <1>1, <2>1, <2>2, <2>3 DEF BundleActor
  <2> QED  BY <2>4 DEF new
<1> QED  BY <1>2, <1>3, <1>4, <1>5, <1>6

LEMMA Started ==
    ASSUME NEW doing \in {"writing", "refused", "verifying", "loading"},
           NEW dir \in Compiles!Bundle \cup {None}, doing = "refused" \/ dir \in Compiles!Bundle,
           NEW new, new = [Compiles!Idle EXCEPT !.doing = doing, !.dir = dir, !.sure = TRUE]
    PROVE  new \in BundleActor /\ new.at = 0 /\ new.seen = <<>> /\ new.doing = doing
<1>1. <<>> \in Seq(Marks) /\ Len(<<>>) = 0
  OBVIOUS
<1>2. new.at = 0 /\ new.seen = <<>> /\ new.doing = doing /\ new.dir = dir
  BY DEF Compiles!Idle
<1>3. new \in ActorRecord
  <2> DEFINE half == [Compiles!Idle EXCEPT !.doing = doing, !.dir = dir]
  <2>1. half \in ActorRecord
    <3>1. Compiles!Idle \in ActorRecord
      BY <1>1 DEF ActorRecord, Compiles!Idle
    <3> QED  BY <3>1 DEF ActorRecord
  <2>2. new = [half EXCEPT !.sure = TRUE]
    OBVIOUS
  <2> HIDE DEF half
  <2> QED  BY <2>1, <2>2 DEF ActorRecord
<1>4. \A r \in ActorRecord :
         r.at = 0 /\ r.seen = <<>> /\ r.doing = doing /\ r.dir = dir => r \in BundleActor
  BY <1>1 DEF BundleActor
<1> QED  BY <1>2, <1>3, <1>4

LEMMA BundlesInit == Compiles!BundleConstants /\ Compiles!Init => BundlesIInv
<1> SUFFICES ASSUME Compiles!BundleConstants, Compiles!Init PROVE BundlesIInv
  OBVIOUS
<1>1. Compiles!Idle \in BundleActor
  <2>1. <<>> \in Seq(Marks) /\ Len(<<>>) = 0
    OBVIOUS
  <2> QED  BY <2>1 DEF BundleActor, ActorRecord, Compiles!Idle
<1>2. BundleTypeOK
  BY <1>1 DEF BundleTypeOK, Compiles!Init, Marks
<1>3. \A b \in Compiles!Bundle : \A k \in 1..5 : disk[b][FileAt(k)] = None
  BY FileOrders DEF Compiles!Init
<1>4. \A a \in Runner : actor[a].doing = "nothing"
  BY DEF Compiles!Init, Compiles!Idle
<1> QED  BY <1>2, <1>3, <1>4 DEF BundlesIInv, Regular, Complete, Behindhand, WritesTo, Truthful, SeesTruly, LoadsTruly

\* A runner that starts on a directory, or is refused.
LEMMA BundlesBecome ==
    ASSUME Compiles!BundleConstants, BundlesIInv, NEW a \in Runner,
           NEW doing \in {"writing", "refused", "verifying", "loading"},
           NEW dir \in Compiles!Bundle \cup {None}, doing = "refused" \/ dir \in Compiles!Bundle,
           Compiles!Become(a, doing, dir)
    PROVE  BundlesIInv'
<1>1. PICK new : new = [Compiles!Idle EXCEPT !.doing = doing, !.dir = dir, !.sure = TRUE]
  OBVIOUS
<1>2. actor' = [actor EXCEPT ![a] = new] /\ UNCHANGED <<disk, unsure>> /\ actor[a].doing # "writing"
  BY <1>1 DEF Compiles!Become
<1>3. new \in BundleActor /\ new.at = 0 /\ new.seen = <<>> /\ new.doing = doing
  BY <1>1, Started
<1>4. SeesTruly(new) /\ LoadsTruly(new)
  BY <1>3 DEF SeesTruly, LoadsTruly
<1> QED  BY <1>2, <1>3, <1>4, BundlesAside

LEMMA BundlesRead ==
    ASSUME Compiles!BundleConstants, BundlesIInv, NEW a \in Runner, Compiles!Read(a)
    PROVE  BundlesIInv'
<1>1. PICK r \in BundleActor : r = actor[a] /\ r.doing = "loading"
  BY DEF BundlesIInv, BundleTypeOK, Compiles!Read
<1>2. PICK f : f = Compiles!LoadOrder[Len(r.seen) + 1]
  OBVIOUS
<1>3. PICK x : x = disk[r.dir][f]
  OBVIOUS
<1>4. PICK seen : seen = Append(r.seen, x)
  OBVIOUS
<1>5. r.dir \in Compiles!Bundle /\ Len(r.seen) \in 0..4
  <2>1. Emptied \in Marks
    BY DEF Marks
  <2> QED  BY <1>1, <2>1, Grown
<1>a. f \in Compiles!File
  <2>1. PICK n \in 0..4 : n = Len(r.seen)
    BY <1>5
  <2>2. n + 1 \in 1..5
    OBVIOUS
  <2> QED  BY <1>2, <2>1, <2>2, FileOrders
<1>6. f \in Compiles!File /\ x \in Marks
  BY <1>3, <1>5, <1>a DEF BundlesIInv, BundleTypeOK
<1>7. /\ seen \in Seq(Marks) /\ Len(seen) = Len(r.seen) + 1 /\ seen[Len(seen)] = x
      /\ \A i \in 1..Len(r.seen) : seen[i] = r.seen[i]
  BY <1>1, <1>4, <1>6, Grown
<1>8. Len(Compiles!LoadOrder) = 5
  BY FileOrders
<1>9. /\ UNCHANGED <<disk, unsure>>
      /\ actor' = [actor EXCEPT ![a] =
            IF ~Compiles!Whole(x) THEN [r EXCEPT !.doing = "failed", !.seen = <<>>]
            ELSE [r EXCEPT !.seen = seen, !.doing = IF Len(seen) < 5 THEN "loading" ELSE "loaded"]]
  BY <1>1, <1>2, <1>3, <1>4, <1>7, <1>8 DEF Compiles!Read
<1>10. LoadsTruly(r)
  BY <1>1 DEF BundlesIInv, Truthful
<1>11. CASE ~Compiles!Whole(x)
  <2>1. PICK new : new = [r EXCEPT !.doing = "failed", !.seen = <<>>]
    OBVIOUS
  <2>2. new.doing = "failed" /\ new \in BundleActor
    BY <1>7, <2>1, Turned
  <2>3. SeesTruly(new) /\ LoadsTruly(new)
    BY <2>2 DEF SeesTruly, LoadsTruly
  <2> QED  BY <1>1, <1>9, <1>11, <2>1, <2>2, <2>3, BundlesAside
<1>12. CASE Compiles!Whole(x)
  <2>1. PICK new : new = [r EXCEPT !.seen = seen, !.doing = IF Len(seen) < 5 THEN "loading" ELSE "loaded"]
    OBVIOUS
  <2>2. /\ new.doing \in {"loading", "loaded"} /\ new.seen = seen
        /\ new.dir = r.dir /\ new.at = r.at /\ new.sure = r.sure
    BY <2>1 DEF BundleActor, ActorRecord
  <2>3. new \in BundleActor
    <3>1. CASE Len(seen) < 5
      BY <1>1, <1>7, <2>1, <3>1, Turned
    <3>2. CASE ~(Len(seen) < 5)
      <4>1. Len(seen) = 5
        BY <1>5, <1>7, <3>2
      <4> QED  BY <1>1, <1>7, <2>1, <4>1, Turned
    <3> QED  BY <3>1, <3>2
  <2>4. SeesTruly(new)
    BY <2>2 DEF SeesTruly
  <2>5. ASSUME r.at = 1, r.sure
        PROVE  /\ \A g \in Compiles!File : disk[r.dir][g] \in {None, Emptied} \/ Says(r.dir, g)
               /\ \A i \in 1..Len(seen) : Compiles!TextOf(seen[i], Compiles!LoadOrder[i])
                                          = Compiles!TextOf(r.dir, Compiles!LoadOrder[i])
    <3>1. /\ \A g \in Compiles!File : disk[r.dir][g] \in {None, Emptied} \/ Says(r.dir, g)
          /\ \A i \in 1..Len(r.seen) : Compiles!TextOf(r.seen[i], Compiles!LoadOrder[i])
                                       = Compiles!TextOf(r.dir, Compiles!LoadOrder[i])
      BY <1>1, <1>10, <2>5 DEF LoadsTruly
    <3>2. Compiles!TextOf(x, f) = Compiles!TextOf(r.dir, f)
      BY <1>3, <1>6, <1>12, <3>1 DEF Says, Compiles!Whole
    <3> QED  BY <1>2, <1>5, <1>7, <3>1, <3>2
  <2>6. LoadsTruly(new)
    BY <2>2, <2>5 DEF LoadsTruly
  <2> QED  BY <1>1, <1>9, <1>12, <2>1, <2>2, <2>3, <2>4, <2>6, BundlesAside
<1> QED  BY <1>11, <1>12

\* A directory that verifies says what its name stands for.
LEMMA BundlesVerify ==
    ASSUME Compiles!BundleConstants, BundlesIInv, NEW a \in Runner, Compiles!Verify(a)
    PROVE  BundlesIInv'
<1>1. PICK r \in BundleActor : r = actor[a] /\ r.doing = "verifying"
  BY DEF BundlesIInv, BundleTypeOK, Compiles!Verify
<1>2. PICK f : f = Compiles!VerifyOrder[Len(r.seen) + 1]
  OBVIOUS
<1>3. PICK x : x = disk[r.dir][f]
  OBVIOUS
<1>4. PICK seen : seen = Append(r.seen, x)
  OBVIOUS
<1>5. r.dir \in Compiles!Bundle /\ Len(r.seen) \in 0..6
  <2>1. Emptied \in Marks
    BY DEF Marks
  <2> QED  BY <1>1, <2>1, Grown
<1>a. f \in Compiles!File
  <2>1. PICK n \in 0..6 : n = Len(r.seen)
    BY <1>5
  <2>2. n + 1 \in 1..7
    OBVIOUS
  <2> QED  BY <1>2, <2>1, <2>2, FileOrders
<1>6. f \in Compiles!File /\ x \in Marks
  BY <1>3, <1>5, <1>a DEF BundlesIInv, BundleTypeOK
<1>7. /\ seen \in Seq(Marks) /\ Len(seen) = Len(r.seen) + 1 /\ seen[Len(seen)] = x
      /\ \A i \in 1..Len(r.seen) : seen[i] = r.seen[i]
  BY <1>1, <1>4, <1>6, Grown
<1>8. Len(Compiles!VerifyOrder) = 7
  BY FileOrders
<1>9. PICK new :
        /\ actor' = [actor EXCEPT ![a] = new] /\ UNCHANGED <<disk, unsure>>
        /\ new = CASE Len(seen) < 7 /\ Compiles!Whole(seen[1]) -> [r EXCEPT !.seen = seen]
                   [] Len(seen) = 7 /\ Compiles!Verifies(r.dir, seen) ->
                        [r EXCEPT !.doing = "loading", !.seen = <<>>, !.at = 1]
                   [] OTHER -> [r EXCEPT !.doing = "failed", !.seen = <<>>]
  BY <1>1, <1>2, <1>3, <1>4, <1>8 DEF Compiles!Verify
<1>10. \/ new = [r EXCEPT !.seen = seen] /\ Len(seen) < 7
       \/ /\ new = [r EXCEPT !.doing = "loading", !.seen = <<>>, !.at = 1]
          /\ Len(seen) = 7 /\ Compiles!Verifies(r.dir, seen)
       \/ new = [r EXCEPT !.doing = "failed", !.seen = <<>>]
  BY <1>9
<1>11. r.sure => \A i \in 1..Len(seen) :
                   disk[r.dir][Compiles!VerifyOrder[i]] \in {Emptied, r.dir, seen[i]}
  <2>1. SeesTruly(r)
    BY <1>1 DEF BundlesIInv, Truthful
  <2> QED  BY <1>1, <1>2, <1>3, <1>5, <1>7, <2>1 DEF SeesTruly
<1>12. CASE new = [r EXCEPT !.seen = seen] /\ Len(seen) < 7
  <2>1. new \in BundleActor
    BY <1>1, <1>7, <1>12, Turned
  <2>2. new.doing = "verifying" /\ new.sure = r.sure /\ new.dir = r.dir /\ new.seen = seen
    BY <1>1, <1>12 DEF BundleActor, ActorRecord
  <2>3. SeesTruly(new) /\ LoadsTruly(new)
    BY <1>11, <2>2 DEF SeesTruly, LoadsTruly
  <2> QED  BY <1>1, <1>9, <2>1, <2>2, <2>3, BundlesAside
<1>13. CASE /\ new = [r EXCEPT !.doing = "loading", !.seen = <<>>, !.at = 1]
            /\ Len(seen) = 7 /\ Compiles!Verifies(r.dir, seen)
  <2>1. new \in BundleActor
    BY <1>1, <1>7, <1>13, Turned
  <2>2. /\ new.doing = "loading" /\ new.seen = <<>> /\ new.dir = r.dir /\ new.sure = r.sure
    BY <1>1, <1>13 DEF BundleActor, ActorRecord
  <2>3. /\ \A i \in 2..5 : Compiles!TextOf(seen[i], Compiles!VerifyOrder[i])
                           = Compiles!Payload(r.dir)[Compiles!VerifyOrder[i]]
        /\ r.dir = seen[1]
    BY <1>13 DEF Compiles!Verifies, Compiles!Manifest
  <2>4. \A i \in 1..5 : Compiles!TextOf(seen[i], Compiles!VerifyOrder[i])
                        = Compiles!TextOf(r.dir, Compiles!VerifyOrder[i])
    <3> SUFFICES ASSUME NEW i \in 2..5
                 PROVE  Compiles!TextOf(seen[i], Compiles!VerifyOrder[i])
                        = Compiles!TextOf(r.dir, Compiles!VerifyOrder[i])
      BY <2>3
    <3> QED  BY <2>3, FileOrders DEF Compiles!TextOf
  <2>5. ASSUME r.sure, NEW g \in Compiles!File
        PROVE  disk[r.dir][g] \in {None, Emptied} \/ Says(r.dir, g)
    <3>1. PICK i \in 1..5 : g = Compiles!VerifyOrder[i]
      BY FileOrders
    <3>2. disk[r.dir][g] \in {Emptied, r.dir, seen[i]}
      BY <1>11, <1>13, <2>5, <3>1
    <3> QED  BY <2>4, <3>1, <3>2 DEF Says
  <2>6. SeesTruly(new) /\ LoadsTruly(new)
    <3>1. Len(<<>>) = 0
      OBVIOUS
    <3> QED  BY <2>2, <2>5, <3>1 DEF SeesTruly, LoadsTruly
  <2> QED  BY <1>1, <1>9, <2>1, <2>2, <2>6, BundlesAside
<1>14. CASE new = [r EXCEPT !.doing = "failed", !.seen = <<>>]
  <2>1. new.doing = "failed" /\ new \in BundleActor
    BY <1>7, <1>14, Turned
  <2>2. SeesTruly(new) /\ LoadsTruly(new)
    BY <2>1 DEF SeesTruly, LoadsTruly
  <2> QED  BY <1>1, <1>9, <2>1, <2>2, BundlesAside
<1> QED  BY <1>10, <1>12, <1>13, <1>14

\* What a writer changes: the file it is at, and how far it is.
LEMMA Penned ==
    ASSUME Compiles!BundleConstants, BundlesIInv, NEW a \in Runner, Compiles!Write(a)
    PROVE  \E b \in Compiles!Bundle : \E k \in 1..5 :
             /\ WritesTo(a, b) /\ k = Past(a) + 1 /\ actor[a] \in BundleActor
             /\ disk' = [disk EXCEPT ![b][FileAt(k)] = IF actor[a].at % 2 = 0 THEN Emptied ELSE b]
             /\ \/ /\ actor[a].at = 9 /\ k = 5
                   /\ actor' = [actor EXCEPT ![a] = [actor[a] EXCEPT !.doing = "written"]]
                   /\ unsure' = IF actor[a].sure THEN unsure \ {b} ELSE unsure
                \/ /\ actor[a].at \in 0..8
                   /\ actor' = [actor EXCEPT ![a] = [actor[a] EXCEPT !.at = actor[a].at + 1]]
                   /\ unsure' = unsure
<1> DEFINE b == actor[a].dir
           k == Past(a) + 1
<1>1. actor[a] \in BundleActor /\ b \in Compiles!Bundle /\ actor[a].at \in 0..9 /\ actor[a].doing = "writing"
  BY DEF BundlesIInv, BundleTypeOK, BundleActor, ActorRecord, Compiles!Write
<1>2. k \in 1..5 /\ (actor[a].at = 9 => k = 5)
  BY <1>1 DEF Past
<1>3. disk' = [disk EXCEPT ![b][FileAt(k)] = IF actor[a].at % 2 = 0 THEN Emptied ELSE b]
  BY DEF Compiles!Write, FileAt, Past
<1>4. Len(Compiles!WriteOrder) = 5 /\ 2 * Len(Compiles!WriteOrder) - 1 = 9
  BY FileOrders
<1> SUFFICES \/ /\ actor[a].at = 9
                /\ actor' = [actor EXCEPT ![a] = [actor[a] EXCEPT !.doing = "written"]]
                /\ unsure' = IF actor[a].sure THEN unsure \ {b} ELSE unsure
             \/ /\ actor[a].at \in 0..8
                /\ actor' = [actor EXCEPT ![a] = [actor[a] EXCEPT !.at = actor[a].at + 1]]
                /\ unsure' = unsure
  BY <1>1, <1>2, <1>3 DEF WritesTo
<1>5. CASE actor[a].at = 9
  <2>1. /\ actor' = [actor EXCEPT ![a] = [actor[a] EXCEPT !.doing = "written"]]
        /\ unsure' = IF actor[a].sure THEN unsure \ {b} ELSE unsure
    BY <1>4, <1>5 DEF Compiles!Write
  <2> QED  BY <1>5, <2>1
<1>6. CASE actor[a].at # 9
  <2>1. /\ actor' = [actor EXCEPT ![a] = [actor[a] EXCEPT !.at = actor[a].at + 1]]
        /\ unsure' = unsure
    BY <1>4, <1>6 DEF Compiles!Write
  <2>2. actor[a].at \in 0..8
    BY <1>1, <1>6
  <2> QED  BY <2>1, <2>2
<1> QED  BY <1>5, <1>6

\* Writing keeps good files good, and what exists.
LEMMA BundlesWrite ==
    ASSUME Compiles!BundleConstants, BundlesIInv, NEW a \in Runner, Compiles!Write(a)
    PROVE  BundlesIInv'
<1>1. PICK b \in Compiles!Bundle, k \in 1..5 :
             /\ WritesTo(a, b) /\ k = Past(a) + 1 /\ actor[a] \in BundleActor
             /\ disk' = [disk EXCEPT ![b][FileAt(k)] = IF actor[a].at % 2 = 0 THEN Emptied ELSE b]
             /\ \/ /\ actor[a].at = 9 /\ k = 5
                   /\ actor' = [actor EXCEPT ![a] = [actor[a] EXCEPT !.doing = "written"]]
                   /\ unsure' = IF actor[a].sure THEN unsure \ {b} ELSE unsure
                \/ /\ actor[a].at \in 0..8
                   /\ actor' = [actor EXCEPT ![a] = [actor[a] EXCEPT !.at = actor[a].at + 1]]
                   /\ unsure' = unsure
  BY Penned
<1> DEFINE even == actor[a].at % 2 = 0
           done == actor[a].at = 9
           new == IF done THEN [actor[a] EXCEPT !.doing = "written"]
                  ELSE [actor[a] EXCEPT !.at = actor[a].at + 1]
<1>2. actor' = [actor EXCEPT ![a] = new] /\ actor[a].doing = "writing" /\ actor[a].dir = b
  BY <1>1 DEF WritesTo
<1>3. /\ new \in BundleActor /\ new.sure = actor[a].sure /\ new.dir = b
      /\ IF done THEN new.doing = "written" ELSE new.doing = "writing" /\ new.at = actor[a].at + 1
  BY <1>1, <1>2 DEF BundleActor, ActorRecord
<1>4. actor'[a] = new /\ \A c \in Runner : c # a => actor'[c] = actor[c]
  BY <1>2 DEF BundlesIInv, BundleTypeOK
<1> HIDE DEF new
<1>5. \A m \in 1..5 : FileAt(m) \in Compiles!File
  BY FileOrders
<1>6. /\ disk'[b][FileAt(k)] = IF even THEN Emptied ELSE b
      /\ \A d \in Compiles!Bundle : \A m \in 1..5 :
            d # b \/ m # k => disk'[d][FileAt(m)] = disk[d][FileAt(m)]
  BY <1>1, <1>5, FileOrders DEF BundlesIInv, BundleTypeOK
<1>7. \A d \in Compiles!Bundle : \A m \in 1..5 :
         disk[d][FileAt(m)] # None => disk'[d][FileAt(m)] # None
  BY <1>6, BundlesNumbered
<1>8. \A d \in Compiles!Bundle : \A m \in 1..5 :
         Filling(d, m) /\ (d # b \/ m # k) => Filling(d, m)'
  <2> SUFFICES ASSUME NEW d \in Compiles!Bundle, NEW m \in 1..5, NEW c \in Runner,
                      WritesTo(c, d), Fills(c, m), d # b \/ m # k
               PROVE  c # a
    BY <1>4 DEF Filling, WritesTo, Fills, Past
  <2> QED  BY <1>1 DEF WritesTo, Fills
<1>9. even => Filling(b, k)'
  <2> SUFFICES ASSUME even PROVE WritesTo(a, b)' /\ Fills(a, k)'
    BY DEF Filling
  <2>1. ~done /\ new.at = actor[a].at + 1 /\ actor[a].at \in 0..9
    BY <1>1, <1>3 DEF BundleActor, ActorRecord
  <2>2. new.at % 2 = 1 /\ new.at \div 2 = actor[a].at \div 2
    BY <2>1
  <2> QED  BY <1>1, <1>3, <1>4, <2>1, <2>2 DEF WritesTo, Fills, Past
<1>10. \A d \in Compiles!Bundle : \A m \in 1..5 : Good(d, m) => Good(d, m)'
  BY <1>6, <1>8, <1>9 DEF Good, FileAt
<1>11. Good(b, k)'
  BY <1>6, <1>9 DEF Good, FileAt
<1>12. ~even => done \/ (new.at % 2 = 0 /\ new.at \div 2 = k)
  <2>1. actor[a].at \in 0..9
    BY <1>1 DEF BundleActor, ActorRecord
  <2> QED  BY <1>1, <1>3, <2>1 DEF Past
<1>13. WritesTo(a, b)' <=> ~done
  BY <1>3, <1>4 DEF WritesTo
<1>14. done => \A m \in 1..5 : disk'[b][FileAt(m)] # None
  <2> SUFFICES ASSUME done, NEW m \in 1..5 PROVE disk'[b][FileAt(m)] # None
    OBVIOUS
  <2>1. k = 5 /\ Past(a) = 4
    BY <1>1 DEF Past
  <2>2. m <= 4 => disk[b][FileAt(m)] # None
    BY <1>1, <2>1 DEF BundlesIInv, Behindhand
  <2>3. m = 5 => disk'[b][FileAt(m)] = b
    BY <1>6, <2>1
  <2> QED  BY <1>7, <2>2, <2>3, BundlesNumbered
<1>15. BundleTypeOK'
  <2>1. disk' \in [Compiles!Bundle -> [Compiles!File -> Marks]]
    BY <1>1, <1>5 DEF BundlesIInv, BundleTypeOK, Marks
  <2>2. actor' \in [Runner -> BundleActor]
    BY <1>2, <1>3 DEF BundlesIInv, BundleTypeOK
  <2> QED  BY <1>1, <2>1, <2>2 DEF BundlesIInv, BundleTypeOK
<1>16. Regular'
  <2> SUFFICES ASSUME NEW d \in Compiles!Bundle, d \notin unsure', NEW m \in 1..5
               PROVE  disk'[d][FileAt(m)] = None \/ Good(d, m)'
    BY DEF Regular, FileAt
  <2>1. CASE d = b /\ m = k
    BY <1>11, <2>1
  <2>2. CASE ~(d = b /\ m = k) /\ d \notin unsure
    BY <1>6, <1>10, <2>2 DEF BundlesIInv, Regular
  <2>3. CASE d \in unsure /\ m # k
    <3>1. d = b /\ done /\ actor[a].sure /\ k = 5
      BY <1>1, <2>3
    <3>2. m <= Past(a)
      BY <1>1, <2>3, <3>1 DEF Past
    <3>3. Good(d, m)
      BY <1>1, <3>1, <3>2 DEF BundlesIInv, Behindhand
    <3> QED  BY <1>10, <3>3
  <2>4. d \in unsure => d = b
    BY <1>1
  <2> QED  BY <2>1, <2>2, <2>3, <2>4
<1>17. Complete'
  <2> SUFFICES ASSUME NEW d \in Compiles!Bundle, d \notin unsure',
                      \E m \in 1..5 : disk'[d][FileAt(m)] # None
               PROVE  \/ \A m \in 1..5 : disk'[d][FileAt(m)] # None
                      \/ \E c \in Runner : WritesTo(c, d)' /\ actor'[c].at > 0
    BY DEF Complete, FileAt
  <2>1. CASE d = b /\ done
    BY <1>14, <2>1
  <2>2. CASE d = b /\ ~done
    <3>1. actor'[a].at > 0
      BY <1>1, <1>3, <1>4, <2>2
    <3> QED  BY <1>13, <2>2, <3>1
  <2>3. CASE d # b
    <3>1. d \notin unsure /\ \E m \in 1..5 : disk[d][FileAt(m)] # None
      BY <1>1, <1>6, <2>3
    <3>2. \/ \A m \in 1..5 : disk[d][FileAt(m)] # None
          \/ \E c \in Runner : WritesTo(c, d) /\ actor[c].at > 0
      BY <3>1 DEF BundlesIInv, Complete
    <3>3. \A c \in Runner : WritesTo(c, d) => c # a
      BY <1>1, <2>3 DEF WritesTo
    <3> QED  BY <1>4, <1>7, <3>2, <3>3 DEF WritesTo
  <2> QED  BY <2>1, <2>2, <2>3
<1>18. Behindhand'
  <2> SUFFICES ASSUME NEW c \in Runner, NEW d \in Compiles!Bundle, WritesTo(c, d)', NEW m \in 1..5
               PROVE  /\ actor'[c].sure => (m <= Past(c)' => Good(d, m)')
                      /\ m <= Past(c)' \/ Fills(c, m)' => disk'[d][FileAt(m)] # None
    BY DEF Behindhand, FileAt
  <2>1. CASE c # a
    <3>1. /\ WritesTo(c, d) /\ actor'[c].sure = actor[c].sure
          /\ Past(c)' = Past(c) /\ (Fills(c, m)' <=> Fills(c, m))
      BY <1>4, <2>1 DEF WritesTo, Past, Fills
    <3>2. /\ actor[c].sure => (m <= Past(c) => Good(d, m))
          /\ m <= Past(c) \/ Fills(c, m) => disk[d][FileAt(m)] # None
      BY <3>1 DEF BundlesIInv, Behindhand
    <3> QED  BY <1>7, <1>10, <3>1, <3>2
  <2>2. CASE c = a
    <3>1. d = b /\ ~done /\ actor'[a].sure = actor[a].sure
      BY <1>3, <1>4, <2>2 DEF WritesTo
    <3>2. /\ actor[a].sure => (m <= Past(a) => Good(b, m))
          /\ m <= Past(a) \/ Fills(a, m) => disk[b][FileAt(m)] # None
      BY <1>1 DEF BundlesIInv, Behindhand
    <3>3. m <= Past(a)' \/ Fills(a, m)' => m <= Past(a) \/ m = k
      <4>1. actor[a].at \in 0..8 /\ actor'[a].at = actor[a].at + 1
        BY <1>1, <1>3, <1>4, <3>1
      <4> QED  BY <1>1, <4>1 DEF Past, Fills
    <3>4. disk'[b][FileAt(k)] # None
      BY <1>6, BundlesNumbered
    <3> QED  BY <1>7, <1>10, <1>11, <2>2, <3>1, <3>2, <3>3, <3>4
  <2> QED  BY <2>1, <2>2
<1>19. Truthful'
  <2>1. (IF even THEN Emptied ELSE b) \in {Emptied, b} /\ new.doing \in {"writing", "written"}
    BY <1>3
  <2> QED  BY <1>1, <1>2, <1>3, <1>5, <2>1, WritesAreTrue
<1> QED  BY <1>15, <1>16, <1>17, <1>18, <1>19 DEF BundlesIInv

\* A death, or a file replaced: who is at work in that directory is sure no more, and
\* nothing is said of the directory until somebody writes it whole.
LEMMA BundlesMishap ==
    ASSUME Compiles!BundleConstants, BundlesIInv, NEW b \in Compiles!Bundle,
           unsure' = unsure \cup {b}, BundleTypeOK',
           \A d \in Compiles!Bundle : \A f \in Compiles!File :
               /\ d # b => disk'[d][f] = disk[d][f]
               /\ disk[d][f] # None => disk'[d][f] # None,
           \A a \in Runner : \/ actor'[a] = actor[a] /\ actor[a].dir # b
                             \/ actor'[a] = [actor[a] EXCEPT !.sure = FALSE] /\ actor[a].dir = b
                             \/ actor'[a] = Compiles!Idle /\ actor[a].dir = b
    PROVE  BundlesIInv'
<1>1. \A a \in Runner : actor'[a].sure => actor'[a] = actor[a] /\ actor[a].dir # b
  <2> SUFFICES ASSUME NEW a \in Runner PROVE actor'[a].sure => actor'[a] = actor[a] /\ actor[a].dir # b
    OBVIOUS
  <2>1. actor'[a] = Compiles!Idle => actor'[a].sure = FALSE
    BY DEF Compiles!Idle
  <2>2. actor'[a] = [actor[a] EXCEPT !.sure = FALSE] => actor'[a].sure = FALSE
    BY DEF BundlesIInv, BundleTypeOK, BundleActor, ActorRecord
  <2> QED  BY <2>1, <2>2
<1>2. \A a \in Runner : \A d \in Compiles!Bundle :
         WritesTo(a, d)' => /\ WritesTo(a, d) /\ actor'[a].at = actor[a].at
                            /\ Past(a)' = Past(a) /\ \A k : Fills(a, k)' <=> Fills(a, k)
  <2> SUFFICES ASSUME NEW a \in Runner, NEW d \in Compiles!Bundle, WritesTo(a, d)'
               PROVE  actor'[a].at = actor[a].at /\ WritesTo(a, d)
    BY DEF Past, Fills
  <2>1. actor'[a] # Compiles!Idle
    BY DEF Compiles!Idle, WritesTo
  <2>2. actor'[a] = [actor[a] EXCEPT !.sure = FALSE] =>
           actor'[a].at = actor[a].at /\ actor'[a].doing = actor[a].doing /\ actor'[a].dir = actor[a].dir
    BY DEF BundlesIInv, BundleTypeOK, BundleActor, ActorRecord
  <2> QED  BY <2>1, <2>2 DEF WritesTo
<1>3. \A a \in Runner : \A d \in Compiles!Bundle : d # b /\ WritesTo(a, d) => actor'[a] = actor[a]
  BY DEF WritesTo
<1>4. \A d \in Compiles!Bundle : \A k \in 1..5 : d # b => (Good(d, k) => Good(d, k)')
  <2> SUFFICES ASSUME NEW d \in Compiles!Bundle, NEW k \in 1..5, d # b, Good(d, k) PROVE Good(d, k)'
    OBVIOUS
  <2>1. disk'[d][FileAt(k)] = disk[d][FileAt(k)]
    BY FileOrders
  <2>2. Filling(d, k) => Filling(d, k)'
    BY <1>3 DEF Filling, WritesTo, Fills, Past
  <2> QED  BY <2>1, <2>2 DEF Good, FileAt
<1>5. \A d \in Compiles!Bundle : \A k \in 1..5 :
         /\ d # b => disk'[d][FileAt(k)] = disk[d][FileAt(k)]
         /\ disk[d][FileAt(k)] # None => disk'[d][FileAt(k)] # None
  BY FileOrders
<1>6. Regular'
  BY <1>4, <1>5 DEF BundlesIInv, Regular, FileAt
<1>7. Complete'
  <2> SUFFICES ASSUME NEW d \in Compiles!Bundle, d \notin unsure, d # b,
                      \E m \in 1..5 : disk'[d][FileAt(m)] # None
               PROVE  \/ \A m \in 1..5 : disk'[d][FileAt(m)] # None
                      \/ \E c \in Runner : WritesTo(c, d)' /\ actor'[c].at > 0
    BY DEF Complete, FileAt
  <2>1. \/ \A m \in 1..5 : disk[d][FileAt(m)] # None
        \/ \E c \in Runner : WritesTo(c, d) /\ actor[c].at > 0
    BY <1>5 DEF BundlesIInv, Complete
  <2> QED  BY <1>3, <1>5, <2>1 DEF WritesTo
<1>8. Behindhand'
  <2> SUFFICES ASSUME NEW c \in Runner, NEW d \in Compiles!Bundle, WritesTo(c, d)', NEW m \in 1..5
               PROVE  /\ actor'[c].sure => (m <= Past(c)' => Good(d, m)')
                      /\ m <= Past(c)' \/ Fills(c, m)' => disk'[d][FileAt(m)] # None
    BY DEF Behindhand, FileAt
  <2>1. WritesTo(c, d) /\ Past(c)' = Past(c) /\ (Fills(c, m)' <=> Fills(c, m))
    BY <1>2
  <2>2. /\ actor[c].sure => (m <= Past(c) => Good(d, m))
        /\ m <= Past(c) \/ Fills(c, m) => disk[d][FileAt(m)] # None
    BY <2>1 DEF BundlesIInv, Behindhand
  <2>3. actor'[c].sure => actor[c].sure /\ d # b
    BY <1>1, <2>1 DEF WritesTo
  <2> QED  BY <1>4, <1>5, <2>1, <2>2, <2>3
<1>9. Truthful'
  <2> SUFFICES ASSUME NEW a \in Runner, actor'[a].sure PROVE SeesTruly(actor[a])' /\ LoadsTruly(actor[a])'
    BY DEF Truthful, SeesTruly, LoadsTruly
  <2>1. actor'[a] = actor[a] /\ actor[a].dir # b /\ actor[a] \in BundleActor
    BY <1>1 DEF BundlesIInv, BundleTypeOK
  <2>2. actor[a].doing \in {"verifying", "loading", "loaded"} =>
           /\ actor[a].dir \in Compiles!Bundle /\ actor[a].seen \in Seq(Marks)
           /\ actor[a].doing = "verifying" => Len(actor[a].seen) < 7
    BY <2>1 DEF BundleActor, ActorRecord
  <2>3. SeesTruly(actor[a]) /\ LoadsTruly(actor[a])
    BY DEF BundlesIInv, Truthful
  <2>4. SeesTruly(actor[a])'
    <3> SUFFICES ASSUME actor[a].doing = "verifying", NEW i \in 1..Len(actor[a].seen)
                 PROVE  disk'[actor[a].dir][Compiles!VerifyOrder[i]] \in {Emptied, actor[a].dir, actor[a].seen[i]}
      BY <2>1 DEF SeesTruly
    <3>1. Compiles!VerifyOrder[i] \in Compiles!File
      BY <2>2, FileOrders
    <3> QED  BY <2>1, <2>2, <2>3, <3>1 DEF SeesTruly
  <2>5. LoadsTruly(actor[a])'
    BY <2>1, <2>2, <2>3 DEF LoadsTruly, Says
  <2> QED  BY <2>4, <2>5
<1> QED  BY <1>6, <1>7, <1>8, <1>9 DEF BundlesIInv

LEMMA Doubted ==
    ASSUME NEW r \in BundleActor
    PROVE  [r EXCEPT !.sure = FALSE] \in BundleActor
<1>1. [r EXCEPT !.sure = FALSE] \in ActorRecord
  BY DEF BundleActor, ActorRecord
<1> QED  BY <1>1 DEF BundleActor, ActorRecord

LEMMA BundlesDie ==
    ASSUME Compiles!BundleConstants, BundlesIInv, NEW a \in Runner, Compiles!Die(a)
    PROVE  BundlesIInv'
<1>1. PICK b \in Compiles!Bundle : b = actor[a].dir
  BY DEF BundlesIInv, BundleTypeOK, BundleActor, Compiles!Die
<1>2. Compiles!Idle \in BundleActor
  <2>1. <<>> \in Seq(Marks) /\ Len(<<>>) = 0
    OBVIOUS
  <2> QED  BY <2>1 DEF BundleActor, ActorRecord, Compiles!Idle
<1>3. /\ actor' = [c \in Runner |-> IF c = a THEN Compiles!Idle
                                   ELSE IF actor[c].dir = b THEN [actor[c] EXCEPT !.sure = FALSE]
                                   ELSE actor[c]]
      /\ unsure' = unsure \cup {b} /\ disk' = disk
  BY <1>1 DEF Compiles!Die, Compiles!Disturbed
<1>4. BundleTypeOK'
  BY <1>2, <1>3, Doubted DEF BundlesIInv, BundleTypeOK
<1> QED  BY <1>1, <1>3, <1>4, BundlesMishap

LEMMA BundlesSwap ==
    ASSUME Compiles!BundleConstants, BundlesIInv, NEW b \in Compiles!Bundle, NEW f \in Compiles!File,
           Compiles!Swap(b, f)
    PROVE  BundlesIInv'
<1>1. PICK c \in Compiles!Bundle : disk' = [disk EXCEPT ![b][f] = c]
  BY DEF BundlesIInv, BundleTypeOK, Compiles!Swap
<1>2. /\ actor' = [e \in Runner |-> IF actor[e].dir = b THEN [actor[e] EXCEPT !.sure = FALSE]
                                   ELSE actor[e]]
      /\ unsure' = unsure \cup {b}
  BY DEF Compiles!Swap, Compiles!Disturbed
<1>3. BundleTypeOK'
  <2>1. disk' \in [Compiles!Bundle -> [Compiles!File -> Marks]]
    BY <1>1 DEF BundlesIInv, BundleTypeOK, Marks
  <2> QED  BY <1>2, <2>1, Doubted DEF BundlesIInv, BundleTypeOK
<1>4. \A d \in Compiles!Bundle : \A g \in Compiles!File :
         /\ d # b => disk'[d][g] = disk[d][g]
         /\ disk[d][g] # None => disk'[d][g] # None
  BY <1>1, BundlesNumbered DEF BundlesIInv, BundleTypeOK
<1> QED  BY <1>2, <1>3, <1>4, BundlesMishap

LEMMA BundlesStep ==
    ASSUME Compiles!BundleConstants, BundlesIInv, [Compiles!Next]_Compiles!vars
    PROVE  BundlesIInv'
<1>1. ASSUME NEW a \in Runner, Compiles!Compile(a) PROVE BundlesIInv'
  <2>1. PICK i \in 1..Len(Lists) :
           IF i \in Compiles!Accepted THEN Compiles!Become(a, "writing", Compiles!Named(i))
           ELSE Compiles!Become(a, "refused", None)
    BY <1>1 DEF Compiles!Compile
  <2>2. CASE i \in Compiles!Accepted
    <3>1. Compiles!Named(i) \in Compiles!Bundle
      BY <2>2 DEF Compiles!Bundle
    <3> QED  BY <2>1, <2>2, <3>1, BundlesBecome
  <2>3. CASE i \notin Compiles!Accepted
    BY <2>1, <2>3, BundlesBecome
  <2> QED  BY <2>2, <2>3
<1>2. ASSUME NEW a \in Runner, NEW verify \in BOOLEAN, Compiles!Load(a, verify) PROVE BundlesIInv'
  <2>1. PICK b \in Compiles!Bundle : Compiles!Become(a, IF verify THEN "verifying" ELSE "loading", b)
    BY <1>2 DEF Compiles!Load, BundlesIInv, BundleTypeOK
  <2> QED  BY <2>1, BundlesBecome
<1>3. ASSUME NEW b \in DOMAIN disk, NEW f \in Compiles!File, Compiles!Swap(b, f) PROVE BundlesIInv'
  <2>1. b \in Compiles!Bundle
    BY DEF BundlesIInv, BundleTypeOK
  <2> QED  BY <1>3, <2>1, BundlesSwap
<1>4. ASSUME UNCHANGED Compiles!vars PROVE BundlesIInv'
  BY <1>4 DEF Compiles!vars, BundlesIInv, BundleTypeOK, Regular, Complete, Behindhand, Truthful, Good,
     Filling, WritesTo, Past, Fills, FileAt, SeesTruly, LoadsTruly, Says
<1> QED
  BY <1>1, <1>2, <1>3, <1>4, BundlesWrite, BundlesDie, BundlesVerify, BundlesRead DEF Compiles!Next

\* A directory nobody is at work in and nobody left half-way has its own five files.
LEMMA DirectoriesStand ==
    ASSUME Compiles!BundleConstants, BundlesIInv
    PROVE  Compiles!Stands
<1> SUFFICES ASSUME NEW b \in Compiles!Bundle, Compiles!Started(b), Compiles!Quiet(b), b \notin unsure
             PROVE  Compiles!Verifies(b, [i \in 1..Len(Compiles!VerifyOrder) |-> disk[b][Compiles!VerifyOrder[i]]])
  BY DEF Compiles!Stands, BundlesIInv, BundleTypeOK
<1>1. \A a \in Runner : ~WritesTo(a, b)
  BY DEF Compiles!Quiet, WritesTo
<1>2. \A k \in 1..5 : disk[b][FileAt(k)] # None
  <2>1. \E k \in 1..5 : disk[b][FileAt(k)] # None
    BY FileOrders DEF Compiles!Started
  <2> QED  BY <1>1, <2>1 DEF BundlesIInv, Complete
<1>3. \A k \in 1..5 : disk[b][FileAt(k)] = b
  BY <1>1, <1>2 DEF BundlesIInv, Regular, Good, Filling
<1>4. \A f \in Compiles!File : disk[b][f] = b
  BY <1>3, FileOrders
<1>5. PICK seen : seen = [i \in 1..7 |-> b]
  OBVIOUS
<1>6. [i \in 1..Len(Compiles!VerifyOrder) |-> disk[b][Compiles!VerifyOrder[i]]] = seen
  BY <1>4, <1>5, FileOrders
<1>7. seen \in Seq(Compiles!Bundle) /\ Len(seen) = 7 /\ \A i \in 1..7 : seen[i] = b
  <2>1. seen \in Seq(Compiles!Bundle)
    BY <1>5
  <2> QED  BY <1>5, <2>1
<1>8. \A i \in 2..5 : Compiles!VerifyOrder[i] \in Compiles!Component
  BY DEF Compiles!VerifyOrder, Compiles!Component
<1>9. Compiles!VerifyOrder[6] = "resources" /\ Compiles!VerifyOrder[7] = "lock"
  BY DEF Compiles!VerifyOrder
<1>10. \A i \in 2..5 : Compiles!TextOf(b, Compiles!VerifyOrder[i]) = Compiles!Payload(b)[Compiles!VerifyOrder[i]]
  BY FileOrders DEF Compiles!TextOf
<1>11. /\ Compiles!TextOf(b, "resources") = Compiles!Payload(b).resources
       /\ Compiles!TextOf(b, "lock") = Compiles!Payload(b).lock
  BY DEF Compiles!TextOf
<1>12. /\ Compiles!Manifest(b).components = Compiles!Payload(b)
       /\ Compiles!Manifest(b).digest = b
       /\ Compiles!Manifest(b).trust = Compiles!Trust(Compiles!Payload(b).lock, Compiles!Payload(b).resources)
  BY DEF Compiles!Manifest
<1>13. Compiles!Verifies(b, seen)
  BY <1>7, <1>9, <1>10, <1>11, <1>12, BundlesNumbered DEF Compiles!Verifies, Compiles!Whole
<1> QED  BY <1>6, <1>13

\* The worst of some statuses is no better than any of them.
LEMMA WorstIsWorst ==
    ASSUME NEW S, "unverified" \in S
    PROVE  Compiles!Worst(S) \in {"unverified", "invalid"}
<1>1. /\ Len(Compiles!Status) = 5 /\ Compiles!Status[4] = "unverified" /\ Compiles!Status[5] = "invalid"
  BY DEF Compiles!Status
<1>2. PICK n \in 4..5 : n = IF "invalid" \in S THEN 5 ELSE 4
  OBVIOUS
<1> DEFINE Tops(i) == /\ Compiles!Status[i] \in S \cup {"verified"}
                      /\ \A j \in (i + 1)..Len(Compiles!Status) : Compiles!Status[j] \notin S
<1>3. Tops(n) /\ n \in 1..Len(Compiles!Status)
  <2>1. \A j \in (n + 1)..5 : j = 5 /\ n = 4
    OBVIOUS
  <2> QED  BY <1>1, <1>2, <2>1
<1>4. \A i \in 1..Len(Compiles!Status) : Tops(i) => i \in 4..5
  <2> SUFFICES ASSUME NEW i \in 1..5, i < 4, \A j \in (i + 1)..5 : Compiles!Status[j] \notin S PROVE FALSE
    BY <1>1
  <2> QED  BY <1>1
<1>5. Compiles!Worst(S) = Compiles!Status[CHOOSE i \in 1..Len(Compiles!Status) : Tops(i)]
  BY DEF Compiles!Worst
<1> HIDE DEF Tops
<1>6. PICK i \in 4..5 : i = CHOOSE k \in 1..Len(Compiles!Status) : Tops(k)
  BY <1>3, <1>4
<1>7. i = 4 \/ i = 5
  OBVIOUS
<1> QED  BY <1>1, <1>5, <1>6, <1>7

\* What the trust of a bundle is the worst of.
OfSources(sources) == UNION {Compiles!OfSource(sources[i]) : i \in 1..Len(sources)}
OfUndigested(resources) == {Compiles!OfResource(resources[r]) : r \in Compiles!Undigested(resources)}

LEMMA TrustIsWorst ==
    \A sources, resources : Compiles!Trust(sources, resources).status
                            = Compiles!Worst(OfSources(sources) \cup OfUndigested(resources))
<1> SUFFICES ASSUME NEW sources, NEW resources
             PROVE  Compiles!Trust(sources, resources).status
                    = Compiles!Worst(OfSources(sources) \cup OfUndigested(resources))
  OBVIOUS
<1>1. PICK w : Compiles!Trust(sources, resources) =
        [status |-> Compiles!Worst(OfSources(sources) \cup OfUndigested(resources)), warnings |-> w]
  BY Zenon DEF Compiles!Trust, OfSources, OfUndigested
<1> QED  BY <1>1

\* Loading after verifying gives what the name stands for, and its trust says what it blocks.
LEMMA LoadsAreTrusted ==
    ASSUME Compiles!BundleConstants, BundlesIInv
    PROVE  Compiles!Trusted
<1> SUFFICES ASSUME NEW a \in Runner, actor[a].doing = "loaded", actor[a].at = 1, actor[a].sure
             PROVE  LET seen(i) == Compiles!TextOf(actor[a].seen[i], Compiles!LoadOrder[i])
                        status == seen(5).trust.status
                    IN /\ \A i \in 1..Len(Compiles!LoadOrder) :
                             seen(i) = Compiles!TextOf(actor[a].dir, Compiles!LoadOrder[i])
                       /\ Compiles!Blocked(seen(2), seen(3), status) # {} => status \in {"unverified", "invalid"}
  BY DEF Compiles!Trusted
<1>1. PICK r \in BundleActor : r = actor[a]
  BY DEF BundlesIInv, BundleTypeOK
<1>2. Len(r.seen) = 5 /\ r.dir \in Compiles!Bundle
  BY <1>1 DEF BundleActor
<1>3. LoadsTruly(r)
  BY <1>1 DEF BundlesIInv, Truthful
<1>4. \A i \in 1..5 : Compiles!TextOf(r.seen[i], Compiles!LoadOrder[i])
                      = Compiles!TextOf(r.dir, Compiles!LoadOrder[i])
  BY <1>1, <1>2, <1>3 DEF LoadsTruly
<1>5. PICK p : p = Compiles!Payload(r.dir)
  OBVIOUS
<1>6. /\ Compiles!LoadOrder[2] = "capabilities" /\ Compiles!LoadOrder[3] = "resources"
      /\ Compiles!LoadOrder[5] = "manifest" /\ Len(Compiles!LoadOrder) = 5
  BY DEF Compiles!LoadOrder
<1>7. /\ Compiles!TextOf(r.dir, "capabilities") = p.capabilities
      /\ Compiles!TextOf(r.dir, "resources") = p.resources
      /\ Compiles!TextOf(r.dir, "manifest").trust = Compiles!Trust(p.lock, p.resources)
  BY <1>5 DEF Compiles!TextOf, Compiles!Manifest
<1>8. PICK status : status = Compiles!Trust(p.lock, p.resources).status
  OBVIOUS
<1>9. /\ Compiles!TextOf(r.seen[2], Compiles!LoadOrder[2]) = p.capabilities
      /\ Compiles!TextOf(r.seen[3], Compiles!LoadOrder[3]) = p.resources
      /\ Compiles!TextOf(r.seen[5], Compiles!LoadOrder[5]).trust.status = status
  BY <1>4, <1>6, <1>7, <1>8
<1>10. ASSUME Compiles!Blocked(p.capabilities, p.resources, status) # {}
       PROVE  status \in {"unverified", "invalid"}
  <2>1. CASE status = "invalid"
    BY <2>1
  <2>2. CASE status # "invalid"
    <3>1. PICK x \in Compiles!Undigested(p.resources) : p.resources[x].required
      BY <1>10, <2>2 DEF Compiles!Blocked
    <3>2. Compiles!OfResource(p.resources[x]) = "unverified"
      BY <3>1 DEF Compiles!OfResource
    <3>3. "unverified" \in OfUndigested(p.resources)
      BY <3>1, <3>2 DEF OfUndigested
    <3>4. status = Compiles!Worst(OfSources(p.lock) \cup OfUndigested(p.resources))
      BY <1>8, TrustIsWorst
    <3>5. "unverified" \in OfSources(p.lock) \cup OfUndigested(p.resources)
      BY <3>3
    <3> QED  BY <3>4, <3>5, WorstIsWorst
  <2> QED  BY <2>1, <2>2
<1> QED  BY <1>1, <1>4, <1>6, <1>9, <1>10

LEMMA BundleComponent == Compiles!Spec => []Compiles!BundlesHold
<1>1. Compiles!Init => BundlesIInv
  BY BundleAssumption, BundlesInit
<1>2. BundlesIInv /\ [Compiles!Next]_Compiles!vars => BundlesIInv'
  BY BundleAssumption, BundlesStep
<1>3. BundlesIInv => Compiles!BundlesHold
  BY BundleAssumption, OrderIsFree, DirectoriesStand, LoadsAreTrusted DEF Compiles!BundlesHold
<1> QED  BY <1>1, <1>2, <1>3, PTL DEF Compiles!Spec

--------------------------------------------------------------------------------
(* The artifact files *)

\* The artifact files are those of JsonFileArtifactStoreProofs, with this module's constants.
KeptFiles == INSTANCE JsonFileArtifactStoreProofs
          WITH Thread <- Client, Handle <- Id, Content <- Stored, SizeOf <- Sized,
               Scrub <- Redacted, MaxCrashes <- 0, MaxIoErrors <- 0,
               data <- bytes, meta <- refs, crashes <- restarts

LEMMA FileConstants ==
    /\ KeptFiles!NoneAssumption /\ KeptFiles!SizeAssumption /\ KeptFiles!ScrubAssumption
    /\ KeptFiles!QuotaAssumption /\ KeptFiles!TtlAssumption /\ KeptFiles!BoundAssumption
<1>1. KeptFiles!NoneAssumption
  BY FileAssumption DEF KeptFiles!NoneAssumption
<1>2. KeptFiles!SizeAssumption
  BY FileAssumption DEF KeptFiles!SizeAssumption
<1>3. KeptFiles!ScrubAssumption
  BY FileAssumption DEF KeptFiles!ScrubAssumption
<1>4. KeptFiles!QuotaAssumption
  BY FileAssumption DEF KeptFiles!QuotaAssumption
<1>5. KeptFiles!TtlAssumption
  BY FileAssumption DEF KeptFiles!TtlAssumption
<1>6. KeptFiles!BoundAssumption
  BY FileAssumption DEF KeptFiles!BoundAssumption
<1> QED  BY <1>1, <1>2, <1>3, <1>4, <1>5, <1>6

LEMMA SameFiles ==
    /\ Files!Init <=> KeptFiles!Init
    /\ Files!Next <=> KeptFiles!Next
    /\ Files!vars = KeptFiles!vars
    /\ Files!BytesWithinQuota <=> KeptFiles!BytesWithinQuota
    /\ Files!RefDescribesBytes <=> KeptFiles!RefDescribesBytes
<1>1. (Files!Init <=> KeptFiles!Init) /\ Files!vars = KeptFiles!vars
  BY DEF Files!Init, KeptFiles!Init, Files!vars, KeptFiles!vars, Files!Idle, KeptFiles!Idle
<1>2. \A f : Files!SumSizes(f) = KeptFiles!SumSizes(f)
  BY DEF Files!SumSizes, KeptFiles!SumSizes, Files!MapThenSumSet, KeptFiles!MapThenSumSet,
         Files!MapThenFoldSet, KeptFiles!MapThenFoldSet
<1>3. Files!Next <=> KeptFiles!Next
  BY <1>2 DEF Files!Cardinality, KeptFiles!Cardinality,
         Files!MapThenSumSet, KeptFiles!MapThenSumSet, Files!MapThenFoldSet,
         KeptFiles!MapThenFoldSet, Files!Idle, KeptFiles!Idle, Files!Indexed,
         KeptFiles!Indexed, Files!RefSize, KeptFiles!RefSize, Files!Acquire,
         KeptFiles!Acquire, Files!SweepSet, KeptFiles!SweepSet, Files!Put,
         KeptFiles!Put, Files!Get, KeptFiles!Get, Files!Lookup, KeptFiles!Lookup,
         Files!ListRefs, KeptFiles!ListRefs, Files!Delete, KeptFiles!Delete,
         Files!IsExpired, KeptFiles!IsExpired, Files!EvictIfExpired,
         KeptFiles!EvictIfExpired, Files!UnlinkMeta, KeptFiles!UnlinkMeta,
         Files!Release, KeptFiles!Release, Files!UnlinkData,
         KeptFiles!UnlinkData, Files!Swept, KeptFiles!Swept, Files!Answer,
         KeptFiles!Answer, Files!OverQuota, KeptFiles!OverQuota,
         Files!CheckQuota, KeptFiles!CheckQuota, Files!WriteData,
         KeptFiles!WriteData, Files!WriteMeta, KeptFiles!WriteMeta,
         Files!GetUnlock, KeptFiles!GetUnlock, Files!GetProbe,
         KeptFiles!GetProbe, Files!GetRead, KeptFiles!GetRead, Files!IoError,
         KeptFiles!IoError, Files!LoadIndex, KeptFiles!LoadIndex,
         Files!CrashRestart, KeptFiles!CrashRestart, Files!Tick, KeptFiles!Tick,
         Files!Step, KeptFiles!Step, Files!Call, KeptFiles!Call, Files!Next,
         KeptFiles!Next, Files!UnlinkPoints, KeptFiles!UnlinkPoints,
         Files!WritePoints, KeptFiles!WritePoints, Files!LockedPoints,
         KeptFiles!LockedPoints, Files!UnlockedPoints, KeptFiles!UnlockedPoints,
         Files!disk, KeptFiles!disk, Files!memory, KeptFiles!memory,
         Files!faults, KeptFiles!faults
<1>4. Files!BytesWithinQuota <=> KeptFiles!BytesWithinQuota
  BY <1>2 DEF Files!BytesWithinQuota, KeptFiles!BytesWithinQuota,
         Files!DiskWithinQuota, KeptFiles!DiskWithinQuota,
         Files!CounterExact, KeptFiles!CounterExact
<1>5. Files!RefDescribesBytes <=> KeptFiles!RefDescribesBytes
  BY DEF Files!RefDescribesBytes, KeptFiles!RefDescribesBytes
<1> QED  BY <1>1, <1>3, <1>4, <1>5

\* Without faults the artifact files keep to the byte limit, in memory and on disk, and
\* hold what the index says; a directory of a compiled bundle that somebody wrote whole
\* and nobody disturbed since verifies, however many write it at once or died in it, and
\* what is loaded after verifying is what the directory is named after (FilesHold).
THEOREM FilesAreKept == SpecParts => []FilesHold
<1>1. InitParts => KeptFiles!Init /\ Compiles!Init
  BY SameFiles DEF InitParts
<1>2. [NextPart]_allVars => [KeptFiles!Next]_KeptFiles!vars
  <2>1. NextPart => Files!Next \/ UNCHANGED Files!vars
    BY DEF NextPart, Rest, Rests, allVars, fileVars, Files!vars
  <2>2. UNCHANGED allVars => UNCHANGED Files!vars
    BY DEF allVars, fileVars, Files!vars
  <2>3. UNCHANGED Files!vars <=> UNCHANGED KeptFiles!vars
    BY DEF Files!vars, KeptFiles!vars
  <2> QED  BY <2>1, <2>2, <2>3, SameFiles
<1>3. [NextPart]_allVars => [Compiles!Next]_Compiles!vars
  BY DEF NextPart, Rest, Rests, allVars, bundleVars, Compiles!vars
<1>4. KeptFiles!Spec => [](KeptFiles!BytesWithinQuota /\ KeptFiles!RefDescribesBytes)
  BY FileConstants, KeptFiles!BytesKept
<1>5. KeptFiles!BytesWithinQuota /\ KeptFiles!RefDescribesBytes /\ Compiles!BundlesHold => FilesHold
  BY SameFiles DEF FilesHold
<1> QED
  BY <1>1, <1>2, <1>3, <1>4, <1>5, BundleComponent, PTL DEF SpecParts, KeptFiles!Spec, Compiles!Spec
================================================================================
