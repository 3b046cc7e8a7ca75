------------------------- MODULE GatewayRuntimeProofs -------------------------
(***************************************************************************)
(* Proofs about the runtime: for any names, variants, ids, tasks and limits,  *)
(* what is derived from the catalog is of its current definitions, a call     *)
(* goes where its checks said, and the cache holds successes of reads only.    *)
(* Whatever a registration raises, validators and cards agree with the         *)
(* catalog; index and router do where no two names share an id.               *)
(***************************************************************************)
EXTENDS GatewayRuntime, SequenceTheorems, TLAPS

Upstreams == [Name -> Variant \cup {None}]

\* An id tells its tool.  canonical_tool_id sees to it with a hash of the name,
\* unless a version stands in for the hash (routing/tool_id.py:196-197).
NamesInIds == \A d, e \in Def : ToolId[d] = ToolId[e] => d.name = e.name

\* Compiled validators and frozen cards are of the catalog's definitions.
Current == \A id \in Id : /\ validators[id] \in {None, catalog[id]}
                          /\ cards[id] \in {None, catalog[id]}

\* A definition is filed under its own id.
Filed == \A id \in Id : catalog[id] # None => ToolId[catalog[id]] = id

\* What holds of a call from its dispatch on, and of the entry it may leave.
Checked(c) == /\ c.def \in Def /\ c.id \in Id /\ ToolId[c.def] = c.id
              /\ c.arg \in Arg /\ c.arg \in Accepts[c.def.variant]
              /\ c.def.variant \notin Denied
              /\ c.keyed => c.def.variant \in ReadOnly /\ c.id \in Admitted
              /\ c.at = "sleeping" => c.attempts < MaxAttempts
Sent == \A t \in Task : call[t].at # "idle" => Checked(call[t])

Core == TypeOK /\ Current /\ Filed /\ Sent

\* A call carries the name of its definition.
Named == \A t \in Task : call[t].at # "idle" => call[t].name = call[t].def.name

--------------------------------------------------------------------------------
(* What registering a listing yields *)

\* A catalog made from a listing files definitions under their ids.
LEMMA Rebuilt ==
    ASSUME NEW u \in Upstreams
    PROVE  /\ CatalogOf(u) \in [Id -> Def \cup {None}]
           /\ \A id \in Id : CatalogOf(u)[id] # None => ToolId[CatalogOf(u)[id]] = id
           /\ IndexOf(u) \in [Id -> Name \cup {None}]
           /\ ItemIds(u) \subseteq Id
<1>1. \A n \in WellFormed(u) : Definition(u, n) \in Def /\ IdIn(u, n) \in Id
  BY ToolIdAssumption DEF Upstreams, WellFormed, Listed, Definition, IdIn, Def
<1>2. Prefix(u) \subseteq WellFormed(u)
  BY DEF Prefix
<1>3. ASSUME NEW id \in Id
      PROVE  /\ CatalogOf(u)[id] \in Def \cup {None}
             /\ CatalogOf(u)[id] # None => ToolId[CatalogOf(u)[id]] = id
  <2>1. CASE \E n \in Prefix(u) : IdIn(u, n) = id
    <3>1. PICK n \in Prefix(u) : /\ CatalogOf(u)[id] = Definition(u, n)
                                 /\ IdIn(u, n) = id
      BY <2>1 DEF CatalogOf
    <3> QED BY <3>1, <1>1, <1>2 DEF IdIn
  <2>2. CASE ~\E n \in Prefix(u) : IdIn(u, n) = id
    BY <2>2 DEF CatalogOf
  <2> QED BY <2>1, <2>2
<1>4. CatalogOf(u) \in [Id -> Def \cup {None}]
  BY <1>3 DEF CatalogOf
<1>5. IndexOf(u) \in [Id -> Name \cup {None}]
  <2>1. \A id \in Id : CatalogOf(u)[id] # None => CatalogOf(u)[id].name \in Name
    BY <1>3 DEF Def
  <2> QED BY <2>1 DEF IndexOf
<1> QED BY <1>1, <1>3, <1>4, <1>5 DEF ItemIds

\* When ids carry names, every item of a listing is registered.
LEMMA AllRegistered ==
    ASSUME NamesInIds, NEW u \in Upstreams
    PROVE  /\ Clashes(u) = {}
           /\ \A id \in Id : IndexOf(u)[id] = IF CatalogOf(u)[id] = None THEN None
                                              ELSE CatalogOf(u)[id].name
           /\ ItemIds(u) = {id \in Id : CatalogOf(u)[id] # None}
<1>1. \A n \in WellFormed(u) : /\ n \in Name /\ Definition(u, n) \in Def
                               /\ Definition(u, n).name = n /\ Definition(u, n) # None
                               /\ IdIn(u, n) \in Id
  BY NoneAssumption, ToolIdAssumption DEF Upstreams, WellFormed, Listed, Definition, Def, IdIn
<1>2. \A m, n \in WellFormed(u) : IdIn(u, m) = IdIn(u, n) => m = n
  BY <1>1 DEF NamesInIds, IdIn
<1>3. Clashes(u) = {}
  <2> SUFFICES ASSUME NEW n \in WellFormed(u), NEW m \in WellFormed(u),
                      Place[m] < Place[n], IdIn(u, m) = IdIn(u, n)
               PROVE  FALSE
    BY DEF Clashes
  <2>1. Place[n] \in Int
    BY <1>1, PlaceAssumption
  <2> QED BY <1>2, <2>1
<1>4. Prefix(u) = WellFormed(u)
  BY <1>3 DEF Prefix
<1>5. \A id \in Id : CatalogOf(u)[id] # None <=> id \in ItemIds(u)
  <2> SUFFICES ASSUME NEW id \in Id
               PROVE  CatalogOf(u)[id] # None <=> \E n \in WellFormed(u) : IdIn(u, n) = id
    BY DEF ItemIds
  <2> QED BY <1>1, <1>4 DEF CatalogOf
<1>6. ItemIds(u) \subseteq Id
  BY <1>1 DEF ItemIds
<1>7. ItemIds(u) = {id \in Id : CatalogOf(u)[id] # None}
  BY <1>5, <1>6
<1> QED BY <1>3, <1>7 DEF IndexOf

--------------------------------------------------------------------------------
(* What the operations of the cache leave in it *)

\* RemoveAt leaves the other elements in their order.
LEMMA Removed ==
    ASSUME NEW S, NEW s \in Seq(S), NEW i \in 1..Len(s)
    PROVE  /\ RemoveAt(s, i) \in Seq(S)
           /\ Len(RemoveAt(s, i)) = Len(s) - 1
           /\ \A j \in 1..(Len(s) - 1) : /\ j < i => RemoveAt(s, i)[j] = s[j]
                                         /\ j >= i => RemoveAt(s, i)[j] = s[j + 1]
<1>0. Len(s) \in Nat
  OBVIOUS
<1> DEFINE left == SubSeq(s, 1, i - 1)
           right == SubSeq(s, i + 1, Len(s))
<1>1. /\ left \in Seq(S) /\ Len(left) = i - 1
      /\ \A j \in 1..(i - 1) : left[j] = s[j]
  OBVIOUS
<1>2. /\ right \in Seq(S) /\ Len(right) = Len(s) - i
      /\ \A j \in 1..(Len(s) - i) : right[j] = s[i + j]
  OBVIOUS
<1>3. RemoveAt(s, i) = left \o right
  BY DEF RemoveAt
<1> HIDE DEF left, right
<1>4. /\ left \o right \in Seq(S) /\ Len(left \o right) = Len(s) - 1
      /\ \A j \in 1..(Len(s) - 1) : (left \o right)[j] = IF j <= Len(left) THEN left[j]
                                                        ELSE right[j - Len(left)]
  <2>1. /\ left \o right \in Seq(S) /\ Len(left \o right) = Len(left) + Len(right)
        /\ \A j \in 1..(Len(left) + Len(right)) : (left \o right)[j] =
              IF j <= Len(left) THEN left[j] ELSE right[j - Len(left)]
    <3>1. left \in Seq(S) /\ right \in Seq(S)
      BY <1>1, <1>2
    <3> QED BY <3>1, ConcatProperties, Zenon
  <2>2. Len(left) + Len(right) = Len(s) - 1
    BY <1>0, <1>1, <1>2
  <2> QED BY <2>1, <2>2
<1>5. ASSUME NEW j \in 1..(Len(s) - 1)
      PROVE  /\ j < i => (left \o right)[j] = s[j]
             /\ j >= i => (left \o right)[j] = s[j + 1]
  <2>1. CASE j < i
    BY <2>1, <1>1, <1>4
  <2>2. CASE j >= i
    <3>1. (left \o right)[j] = right[j - (i - 1)]
      BY <2>2, <1>1, <1>4
    <3>2. right[j - (i - 1)] = s[i + (j - (i - 1))]
      BY <2>2, <1>2
    <3>3. i + (j - (i - 1)) = j + 1 /\ ~(j < i)
      BY <2>2, <1>0
    <3>4. s[i + (j - (i - 1))] = s[j + 1]
      BY <3>3, Zenon
    <3> QED BY <3>1, <3>2, <3>3, <3>4, Zenon
  <2>3. j < i \/ j >= i
    BY <1>0
  <2> QED BY <2>1, <2>2, <2>3
<1> QED BY <1>3, <1>4, <1>5

\* The cache but the entry of a call is sound and has no entry of the call.
LEMMA Others ==
    ASSUME cache \in Seq(Entry), CacheSound, NEW id \in Id, NEW arg \in Arg
    PROVE  /\ Without(id, arg) \in Seq(Entry)
           /\ Len(Without(id, arg)) <= MaxEntries
           /\ Found(id, arg) # {} => Len(Without(id, arg)) < MaxEntries
           /\ \A i \in 1..Len(Without(id, arg)) :
                 /\ \E j \in 1..Len(cache) : Without(id, arg)[i] = cache[j]
                 /\ Without(id, arg)[i].id # id \/ Without(id, arg)[i].arg # arg
           /\ \A i, j \in 1..Len(Without(id, arg)) :
                 Without(id, arg)[i].id = Without(id, arg)[j].id
                   /\ Without(id, arg)[i].arg = Without(id, arg)[j].arg => i = j
<1>0. /\ Len(cache) \in Nat /\ Len(cache) <= MaxEntries /\ MaxEntries \in Nat
      /\ \A i, j \in 1..Len(cache) :
            cache[i].id = cache[j].id /\ cache[i].arg = cache[j].arg => i = j
  BY LimitAssumption DEF CacheSound, OneEntryPerCall
<1>1. CASE Found(id, arg) = {}
  <2>1. Without(id, arg) = cache
    BY <1>1 DEF Without
  <2>2. \A i \in 1..Len(cache) : cache[i].id # id \/ cache[i].arg # arg
    BY <1>1 DEF Found
  <2> QED BY <1>0, <1>1, <2>1, <2>2
<1>2. CASE Found(id, arg) # {}
  <2>1. PICK k \in Found(id, arg) : Without(id, arg) = RemoveAt(cache, k)
    BY <1>2 DEF Without
  <2> DEFINE rest == RemoveAt(cache, k)
             at(i) == IF i < k THEN i ELSE i + 1
  <2>2. k \in 1..Len(cache) /\ cache[k].id = id /\ cache[k].arg = arg
    BY <2>1 DEF Found
  <2>3. /\ rest \in Seq(Entry) /\ Len(rest) = Len(cache) - 1
        /\ \A i \in 1..(Len(cache) - 1) : /\ i < k => rest[i] = cache[i]
                                          /\ i >= k => rest[i] = cache[i + 1]
    BY <2>2, Removed
  <2>4. \A i \in 1..Len(rest) : at(i) \in 1..Len(cache) /\ at(i) # k /\ rest[i] = cache[at(i)]
    BY <1>0, <2>2, <2>3
  <2>5. \A i, j \in 1..Len(rest) : at(i) = at(j) => i = j
    BY <1>0, <2>2, <2>3
  <2> HIDE DEF rest, at
  <2>6. \A i \in 1..Len(rest) : /\ \E j \in 1..Len(cache) : rest[i] = cache[j]
                                /\ rest[i].id # id \/ rest[i].arg # arg
    BY <1>0, <2>2, <2>4
  <2>7. \A i, j \in 1..Len(rest) : rest[i].id = rest[j].id /\ rest[i].arg = rest[j].arg => i = j
    <3> TAKE i, j \in 1..Len(rest)
    <3> HAVE rest[i].id = rest[j].id /\ rest[i].arg = rest[j].arg
    <3>1. at(i) \in 1..Len(cache) /\ at(j) \in 1..Len(cache)
          /\ rest[i] = cache[at(i)] /\ rest[j] = cache[at(j)]
      BY <2>4
    <3>2. at(i) = at(j)
      BY <3>1, <1>0
    <3> QED BY <3>2, <2>5
  <2>8. Len(rest) < MaxEntries
    BY <1>0, <2>2, <2>3
  <2> QED BY <2>1, <2>3, <2>6, <2>7, <2>8, <1>0 DEF rest
<1> QED BY <1>1, <1>2

\* The results that may be served.
Allowed(e) == /\ e.reply = "ok" /\ e.id \in Admitted
              /\ e.declared.variant \in ReadOnly \ Denied
              /\ e.arg \in Accepts[e.declared.variant]
OnePer(s) == \A i, j \in 1..Len(s) : s[i].id = s[j].id /\ s[i].arg = s[j].arg => i = j
Sound(s) == Len(s) <= MaxEntries /\ OnePer(s) /\ \A i \in 1..Len(s) : Allowed(s[i])

LEMMA SoundCache == CacheSound <=> Sound(cache)
  BY DEF CacheSound, CachesOnlyReads, OneEntryPerCall, Sound, OnePer, Allowed

\* The cache but the entry of a call is sound, as a sequence.
LEMMA SoundWithout ==
    ASSUME cache \in Seq(Entry), CacheSound, NEW id \in Id, NEW arg \in Arg
    PROVE  Sound(Without(id, arg))
<1> DEFINE s == Without(id, arg)
<1>1. Len(s) <= MaxEntries /\ OnePer(s)
  BY Others DEF OnePer
<1>2. ASSUME NEW i \in 1..Len(s)
      PROVE  Allowed(s[i])
  <2>1. PICK j \in 1..Len(cache) : s[i] = cache[j]
    BY Others
  <2>2. Allowed(cache[j])
    BY SoundCache DEF Sound
  <2> QED BY <2>1, <2>2
<1> QED BY <1>1, <1>2 DEF Sound

\* An allowed entry of a new call may be added where there is room.
LEMMA SoundAppend ==
    ASSUME NEW s \in Seq(Entry), Sound(s), NEW e \in Entry, Allowed(e),
           \A i \in 1..Len(s) : s[i].id # e.id \/ s[i].arg # e.arg
    PROVE  /\ Append(s, e) \in Seq(Entry)
           /\ Len(Append(s, e)) = Len(s) + 1
           /\ OnePer(Append(s, e))
           /\ \A i \in 1..(Len(s) + 1) : Allowed(Append(s, e)[i])
<1> DEFINE all == Append(s, e)
<1>1. /\ all \in Seq(Entry) /\ Len(all) = Len(s) + 1 /\ Len(s) \in Nat
      /\ \A i \in 1..Len(s) : all[i] = s[i]
      /\ all[Len(s) + 1] = e
  BY AppendProperties
<1> HIDE DEF all
<1>2. ASSUME NEW i \in 1..(Len(s) + 1)
      PROVE  Allowed(all[i])
  <2>1. CASE i \in 1..Len(s)
    BY <2>1, <1>1 DEF Sound
  <2>2. CASE i = Len(s) + 1
    BY <2>2, <1>1
  <2> QED BY <2>1, <2>2, <1>1
<1>3. ASSUME NEW i \in 1..Len(all), NEW j \in 1..Len(all),
             all[i].id = all[j].id, all[i].arg = all[j].arg
      PROVE  i = j
  <2>1. CASE i \in 1..Len(s) /\ j \in 1..Len(s)
    BY <2>1, <1>1, <1>3 DEF Sound, OnePer
  <2>2. CASE i = Len(s) + 1 \/ j = Len(s) + 1
    BY <2>2, <1>1, <1>3
  <2> QED BY <2>1, <2>2, <1>1
<1>4. OnePer(all)
  BY <1>3 DEF OnePer
<1> QED BY <1>1, <1>2, <1>4 DEF all

\* What put leaves is sound when its entry is allowed.
LEMMA SoundPut ==
    ASSUME cache \in Seq(Entry), CacheSound, NEW e \in Entry, Allowed(e)
    PROVE  Put(e) \in Seq(Entry) /\ Sound(Put(e))
<1> DEFINE s == Without(e.id, e.arg)
           all == Append(s, e)
<1>0. e.id \in Id /\ e.arg \in Arg
  BY DEF Entry
<1>1. /\ s \in Seq(Entry) /\ Sound(s)
      /\ \A i \in 1..Len(s) : s[i].id # e.id \/ s[i].arg # e.arg
  BY <1>0, Others, SoundWithout
<1> HIDE DEF s
<1>2. /\ all \in Seq(Entry) /\ Len(all) = Len(s) + 1 /\ OnePer(all)
      /\ \A i \in 1..Len(all) : Allowed(all[i])
  BY <1>1, SoundAppend
<1>3. Len(s) \in Nat /\ Len(s) <= MaxEntries /\ MaxEntries \in Nat
  BY <1>1, LimitAssumption DEF Sound
<1>4. Put(e) = IF Len(all) > MaxEntries THEN Tail(all) ELSE all
  BY DEF Put, s
<1> HIDE DEF all
<1>5. CASE Len(all) > MaxEntries
  <2>1. all # <<>>
    BY <1>2, <1>3
  <2>2. /\ Tail(all) \in Seq(Entry) /\ Len(Tail(all)) = Len(all) - 1
        /\ \A i \in 1..Len(Tail(all)) : Tail(all)[i] = all[i + 1]
    BY <1>2, <2>1, HeadTailProperties
  <2>3. Len(Tail(all)) <= MaxEntries
    BY <1>2, <1>3, <2>2
  <2>4. \A i \in 1..Len(Tail(all)) : i + 1 \in 1..Len(all)
    BY <1>2, <1>3, <2>2
  <2> HIDE DEF Put
  <2>5. \A i \in 1..Len(Tail(all)) : Allowed(Tail(all)[i])
    BY <1>2, <2>2, <2>4
  <2>6. OnePer(Tail(all))
    <3> SUFFICES ASSUME NEW i \in 1..Len(Tail(all)), NEW j \in 1..Len(Tail(all)),
                        Tail(all)[i].id = Tail(all)[j].id, Tail(all)[i].arg = Tail(all)[j].arg
                 PROVE  i = j
      BY DEF OnePer
    <3>1. i + 1 = j + 1
      BY <1>2, <2>2, <2>4 DEF OnePer
    <3> QED BY <3>1
  <2> QED BY <1>4, <1>5, <2>2, <2>3, <2>5, <2>6 DEF Sound
<1>6. CASE ~(Len(all) > MaxEntries)
  BY <1>2, <1>3, <1>4, <1>6 DEF Sound
<1> QED BY <1>5, <1>6

--------------------------------------------------------------------------------
(* The steps *)

LEMMA CoreInit == Init => Core /\ CacheSound
<1> SUFFICES ASSUME Init
             PROVE  Core /\ CacheSound
  OBVIOUS
<1>1. Idle \in Execution
  BY LimitAssumption DEF Idle, Execution
<1>2. TypeOK
  BY <1>1 DEF Init, TypeOK
<1>3. Current /\ Filed
  BY DEF Init, Current, Filed
<1>4. Sent
  BY DEF Init, Sent, Idle
<1>5. CacheSound
  BY LimitAssumption DEF Init, CacheSound, CachesOnlyReads, OneEntryPerCall
<1> QED BY <1>2, <1>3, <1>4, <1>5 DEF Core

\* What a cleared execute knows of its call, whoever registered what before.
LEMMA ClearedChecked ==
    ASSUME TypeOK, Current, Filed, NEW id \in Id, NEW arg \in Arg, Cleared(id, arg)
    PROVE  /\ Validator(id) = catalog[id] /\ catalog[id] \in Def
           /\ ToolId[catalog[id]] = id
           /\ arg \in Accepts[catalog[id].variant]
           /\ catalog[id].variant \notin Denied
<1>1. catalog[id] # None /\ catalog[id] \in Def
  BY DEF Cleared, TypeOK
<1>2. Validator(id) = catalog[id]
  BY <1>1 DEF Current, Validator
<1> QED BY <1>1, <1>2 DEF Cleared, Valid, Filed

\* Compiling a schema keeps the validators what they should be.
LEMMA Compiled ==
    ASSUME TypeOK, Current, NEW id \in Id, catalog[id] # None, Compile(id),
           UNCHANGED <<catalog, cards>>
    PROVE  validators' \in [Id -> Def \cup {None}] /\ Current'
<1>1. Validator(id) = catalog[id] /\ catalog[id] \in Def
  BY DEF Current, Validator, TypeOK
<1> QED BY <1>1 DEF Compile, Current, TypeOK

LEMMA RefusedStep ==
    ASSUME Core, NEW t \in Task, NEW id \in Id, NEW arg \in Arg, Refused(t, id, arg)
    PROVE  Core'
<1>1. UNCHANGED <<view, browsed, cards, cache, call, listing, world>> /\ served' = None
  BY DEF Refused, Return
<1>2. validators' \in [Id -> Def \cup {None}] /\ Current'
  <2>1. CASE UNCHANGED validators
    BY <1>1, <2>1 DEF Core, TypeOK, Current, view
  <2>2. CASE catalog[id] # None /\ Compile(id)
    BY <1>1, <2>2, Compiled DEF Core, view
  <2> QED BY <2>1, <2>2 DEF Refused, NotFound, SchemaInvalid, ArgsInvalid, Blocked
<1>3. TypeOK'
  BY <1>1, <1>2 DEF Core, TypeOK, view, world
<1> QED BY <1>1, <1>2, <1>3 DEF Core, Filed, Sent, view

LEMMA HitStep ==
    ASSUME Core, CacheSound, NEW t \in Task, NEW id \in Id, NEW arg \in Arg,
           CacheHit(t, id, arg)
    PROVE  Core' /\ CacheSound'
<1>0. cache \in Seq(Entry)
  BY DEF Core, TypeOK
<1>1. PICK i \in Found(id, arg) :
           /\ cache' = Append(Without(id, arg), cache[i])
           /\ served' = [listed |-> catalog[id], made |-> cache[i].declared]
  BY DEF CacheHit
<1>2. /\ Cleared(id, arg) /\ Compile(id)
      /\ UNCHANGED <<view, browsed, cards, call, listing, world>>
  BY DEF CacheHit
<1>3. /\ i \in 1..Len(cache) /\ cache[i] \in Entry
      /\ cache[i].id = id /\ cache[i].arg = arg /\ Found(id, arg) # {}
  BY <1>0 DEF Found
<1>4. /\ Without(id, arg) \in Seq(Entry) /\ Sound(Without(id, arg))
      /\ Len(Without(id, arg)) < MaxEntries
      /\ \A j \in 1..Len(Without(id, arg)) : \/ Without(id, arg)[j].id # cache[i].id
                                             \/ Without(id, arg)[j].arg # cache[i].arg
  BY <1>0, <1>3, Others, SoundWithout
<1>5. Allowed(cache[i])
  BY <1>3, SoundCache DEF Sound
<1>6. /\ cache' \in Seq(Entry) /\ Len(cache') = Len(Without(id, arg)) + 1 /\ OnePer(cache')
      /\ \A j \in 1..(Len(Without(id, arg)) + 1) : Allowed(cache'[j])
  BY <1>1, <1>3, <1>4, <1>5, SoundAppend
<1>7. Sound(cache')
  <2>1. Len(Without(id, arg)) \in Nat /\ MaxEntries \in Nat
    BY <1>4, LimitAssumption
  <2> QED BY <1>4, <1>6, <2>1 DEF Sound
<1>8. CacheSound'
  BY <1>7 DEF CacheSound, CachesOnlyReads, OneEntryPerCall, Sound, OnePer, Allowed
<1>9. validators' \in [Id -> Def \cup {None}] /\ Current'
  BY <1>2, Compiled DEF Core, Cleared, view
<1>10. served' \in [listed : Def, made : Def]
  BY <1>1, <1>2, <1>3, ClearedChecked DEF Core, Entry
<1>11. TypeOK'
  BY <1>2, <1>6, <1>9, <1>10 DEF Core, TypeOK, view, world
<1> QED BY <1>2, <1>8, <1>9, <1>11 DEF Core, Filed, Sent, view

LEMMA DispatchStep ==
    ASSUME Core, CacheSound, NEW t \in Task, NEW id \in Id, NEW arg \in Arg,
           Dispatch(t, id, arg)
    PROVE  Core' /\ CacheSound'
<1> DEFINE c == [at |-> "calling", id |-> id, arg |-> arg, def |-> catalog[id],
                 name |-> IF index[id] # None THEN index[id] ELSE catalog[id].name,
                 keyed |-> Keyed(id), attempts |-> 1, reply |-> "none"]
<1>0. cache \in Seq(Entry)
  BY DEF Core, TypeOK
<1>1. /\ Cleared(id, arg) /\ Compile(id) /\ call' = [call EXCEPT ![t] = c]
      /\ cache' = IF Keyed(id) THEN Without(id, arg) ELSE cache
      /\ UNCHANGED <<view, browsed, cards, served, listing, world>>
  BY DEF Dispatch
<1>2. /\ catalog[id] \in Def /\ ToolId[catalog[id]] = id
      /\ arg \in Accepts[catalog[id].variant] /\ catalog[id].variant \notin Denied
  BY <1>1, ClearedChecked DEF Core
<1>3. c \in Execution
  <2>1. catalog[id].name \in Name /\ index[id] \in Name \cup {None} /\ Keyed(id) \in BOOLEAN
    BY <1>2 DEF Def, Core, TypeOK, Keyed
  <2>2. 1 \in 0..MaxAttempts
    BY LimitAssumption
  <2> QED BY <1>2, <2>1, <2>2 DEF Execution
<1>4. Checked(c)
  BY <1>2 DEF Checked, Keyed
<1> HIDE DEF c
<1>5. cache' \in Seq(Entry) /\ Sound(cache')
  BY <1>0, <1>1, Others, SoundWithout, SoundCache
<1>6. CacheSound'
  BY <1>5 DEF CacheSound, CachesOnlyReads, OneEntryPerCall, Sound, OnePer, Allowed
<1>7. validators' \in [Id -> Def \cup {None}] /\ Current'
  BY <1>1, Compiled DEF Core, Cleared, view
<1>8. call' \in [Task -> Execution] /\ Sent'
  BY <1>1, <1>3, <1>4 DEF Core, TypeOK, Sent, Checked
<1>9. TypeOK'
  BY <1>1, <1>5, <1>7, <1>8 DEF Core, TypeOK, view, world
<1> QED BY <1>1, <1>6, <1>7, <1>8, <1>9 DEF Core, Filed, view

\* A step that only moves a call on, or ends it, keeps what is known of it.
LEMMA MovedOn ==
    ASSUME Core, NEW t \in Task, NEW c \in Execution, call' = [call EXCEPT ![t] = c],
           c.at = "idle" \/ Checked(c)
    PROVE  call' \in [Task -> Execution] /\ Sent'
  BY DEF Core, TypeOK, Sent, Checked

LEMMA AwaitStep ==
    ASSUME Core, NEW t \in Task, Await(t) \/ Backoff(t) \/ Retry(t)
    PROVE  Core'
<1>1. UNCHANGED <<view, session, cache, served, listing, world>>
  BY DEF Await, Reply, Backoff, Retry
<1>2. /\ call[t] \in Execution /\ call[t].at # "idle"
      /\ call \in [Task -> Execution]
  BY DEF Core, TypeOK, Await, Reply, Backoff, Retry
<1>3. Checked(call[t])
  BY <1>2 DEF Core, Sent
<1>4. PICK c \in Execution : call' = [call EXCEPT ![t] = c] /\ Checked(c)
  <2>1. CASE Await(t)
    <3>1. PICK reply \in {"ok", "error", "transient", "fatal"} : Reply(t, reply)
      BY <2>1 DEF Await
    <3> DEFINE c == [call[t] EXCEPT !.at = "replied", !.reply = reply]
    <3>2. call' = [call EXCEPT ![t] = c]
      BY <3>1, <1>2 DEF Reply
    <3>3. c \in Execution /\ Checked(c)
      BY <1>2, <1>3 DEF Execution, Checked
    <3> QED BY <3>2, <3>3
  <2>2. CASE Backoff(t)
    <3> DEFINE c == [call[t] EXCEPT !.at = "sleeping"]
    <3>1. call[t].attempts < MaxAttempts
      BY <2>2 DEF Backoff, Retries
    <3>2. call' = [call EXCEPT ![t] = c]
      BY <2>2, <1>2 DEF Backoff
    <3>3. c \in Execution /\ Checked(c)
      BY <1>2, <1>3, <3>1 DEF Execution, Checked
    <3> QED BY <3>2, <3>3
  <2>3. CASE Retry(t)
    <3> DEFINE c == [call[t] EXCEPT !.at = "calling", !.reply = "none", !.attempts = @ + 1]
    <3>1. call[t].attempts + 1 \in 0..MaxAttempts
      BY <2>3, <1>2, <1>3, LimitAssumption DEF Retry, Checked, Execution
    <3>2. call' = [call EXCEPT ![t] = c]
      BY <2>3, <1>2 DEF Retry
    <3>3. c \in Execution /\ Checked(c)
      BY <1>2, <1>3, <3>1 DEF Execution, Checked
    <3> QED BY <3>2, <3>3
  <2> QED BY <2>1, <2>2, <2>3
<1>5. call' \in [Task -> Execution] /\ Sent'
  BY <1>4, MovedOn
<1> QED BY <1>1, <1>5 DEF Core, TypeOK, Current, Filed, view, session, world

\* Fail and Cancel end a call and leave the rest.
LEMMA EndStep ==
    ASSUME Core, NEW t \in Task, Fail(t) \/ Cancel(t)
    PROVE  Core'
<1>1. /\ UNCHANGED <<view, session, cache, listing, world>>
      /\ served' = None /\ call' = [call EXCEPT ![t] = Idle]
  BY DEF Fail, Cancel, Return
<1>2. Idle \in Execution /\ Idle.at = "idle"
  BY LimitAssumption DEF Idle, Execution
<1>3. call' \in [Task -> Execution] /\ Sent'
  BY <1>1, <1>2, MovedOn
<1> QED BY <1>1, <1>3 DEF Core, TypeOK, Current, Filed, view, session, world

\* A result that arrives is stored only if its call was allowed to be.
LEMMA FinishStep ==
    ASSUME Core, CacheSound, NEW t \in Task, Finish(t)
    PROVE  Core' /\ CacheSound'
<1> DEFINE e == [id |-> call[t].id, arg |-> call[t].arg, declared |-> call[t].def,
                 reply |-> call[t].reply, expires |-> clock + Ttl]
<1>1. /\ UNCHANGED <<view, validators, cards, listing, world>>
      /\ served' = None /\ call' = [call EXCEPT ![t] = Idle]
      /\ cache' = IF Stores(t) THEN Put(e) ELSE cache
      /\ browsed' = browsed \cup {call[t].id}
      /\ call[t].at # "idle"
  BY DEF Finish, Return
<1>2. Checked(call[t]) /\ call[t] \in Execution /\ cache \in Seq(Entry) /\ clock \in Nat
  BY <1>1 DEF Core, Sent, TypeOK
<1>3. Idle \in Execution /\ Idle.at = "idle"
  BY LimitAssumption DEF Idle, Execution
<1>4. call' \in [Task -> Execution] /\ Sent'
  BY <1>1, <1>3, MovedOn
<1>5. cache' \in Seq(Entry) /\ Sound(cache')
  <2>1. CASE Stores(t)
    <3>1. /\ call[t].reply = "ok" /\ call[t].keyed
          /\ e.id = call[t].id /\ e.arg = call[t].arg /\ e.declared = call[t].def
          /\ e.reply = "ok"
      BY <2>1 DEF Stores
    <3>2. clock + Ttl \in Nat
      BY <1>2, LimitAssumption
    <3>3. e \in Entry
      BY <1>2, <3>1, <3>2 DEF Checked, Entry
    <3>4. Allowed(e)
      BY <1>2, <3>1 DEF Checked, Allowed
    <3> HIDE DEF e
    <3> QED BY <1>1, <1>2, <2>1, <3>3, <3>4, SoundPut
  <2>2. CASE ~Stores(t)
    BY <1>1, <1>2, <2>2, SoundCache
  <2> QED BY <2>1, <2>2
<1>6. CacheSound'
  BY <1>5 DEF CacheSound, CachesOnlyReads, OneEntryPerCall, Sound, OnePer, Allowed
<1>7. TypeOK'
  BY <1>1, <1>2, <1>4, <1>5 DEF Core, TypeOK, Checked, view, world
<1> QED BY <1>1, <1>4, <1>6, <1>7 DEF Core, Current, Filed, view

\* A registration drops what was derived, also when it raises.
LEMMA RegisterStep ==
    ASSUME Core, NEW r \in Refresher, Register(r)
    PROVE  Core' /\ CacheSound'
<1> DEFINE u == listing[r]
<1>1. /\ listing[r] # None /\ Rebuild(listing[r])
      /\ browsed' = {} /\ cards' = [id \in Id |-> None]
      /\ validators' = [id \in Id |-> None] /\ cache' = <<>>
      /\ listing' = [listing EXCEPT ![r] = None]
      /\ UNCHANGED <<call, served, world>>
  BY DEF Register, Invalidate
<1>2. u \in Upstreams
  BY <1>1 DEF Core, TypeOK, Upstreams
<1>3. \/ UNCHANGED view
      \/ /\ catalog' = CatalogOf(u)
         /\ \/ UNCHANGED <<index, routed>>
            \/ index' = IndexOf(u) /\ routed' = ItemIds(u)
  BY <1>1 DEF Rebuild
<1> HIDE DEF u
<1>4. /\ catalog' \in [Id -> Def \cup {None}] /\ Filed'
      /\ index' \in [Id -> Name \cup {None}] /\ routed' \subseteq Id
  BY <1>2, <1>3, Rebuilt DEF Core, TypeOK, Filed, view
<1>5. Current' /\ Sent'
  BY <1>1 DEF Current, Core, Sent
<1>6. CacheSound'
  BY <1>1, LimitAssumption DEF CacheSound, CachesOnlyReads, OneEntryPerCall
<1>7. TypeOK'
  BY <1>1, <1>4 DEF Core, TypeOK, world
<1> QED BY <1>4, <1>5, <1>6, <1>7 DEF Core

\* What leaves calls, cache and catalog alone.
LEMMA QuietStep ==
    ASSUME Core,
           \/ \E r \in Refresher : ListTools(r)
           \/ \E ids \in SUBSET Id : Browse(ids)
           \/ \E id \in Id : Hydrate(id)
           \/ \E n \in Name, v \in Variant \cup {None} : UpstreamChanges(n, v)
           \/ Advance
           \/ UNCHANGED vars
    PROVE  Core' /\ UNCHANGED <<view, cache, call>>
<1>1. CASE \E r \in Refresher : ListTools(r)
  BY <1>1 DEF ListTools, Core, TypeOK, Current, Filed, Sent, view, session, world
<1>2. CASE \E ids \in SUBSET Id : Browse(ids)
  BY <1>2 DEF Browse, Core, TypeOK, Current, Filed, Sent, view, world
<1>3. CASE \E id \in Id : Hydrate(id)
  BY <1>3 DEF Hydrate, Core, TypeOK, Current, Filed, Sent, view, world
<1>4. CASE \E n \in Name, v \in Variant \cup {None} : UpstreamChanges(n, v)
  BY <1>4 DEF UpstreamChanges, Core, TypeOK, Current, Filed, Sent, view, session
<1>5. CASE Advance
  BY <1>5 DEF Advance, Core, TypeOK, Current, Filed, Sent, view, session
<1>6. CASE UNCHANGED vars
  BY <1>6 DEF vars, Core, TypeOK, Current, Filed, Sent, view, session, world
<1> QED BY <1>1, <1>2, <1>3, <1>4, <1>5, <1>6

LEMMA CoreStep == Core /\ CacheSound /\ [Next]_vars => Core' /\ CacheSound'
<1> SUFFICES ASSUME Core, CacheSound, [Next]_vars
             PROVE  Core' /\ CacheSound'
  OBVIOUS
<1>0. ASSUME UNCHANGED cache
      PROVE  CacheSound'
  BY <1>0 DEF CacheSound, CachesOnlyReads, OneEntryPerCall
<1>1. CASE \E t \in Task : Execute(t)
  <2>1. PICK t \in Task, id \in Id, arg \in Arg :
             Refused(t, id, arg) \/ CacheHit(t, id, arg) \/ Dispatch(t, id, arg)
    BY <1>1 DEF Execute
  <2>2. CASE Refused(t, id, arg)
    BY <2>2, <1>0, RefusedStep DEF Refused
  <2> QED BY <2>1, <2>2, HitStep, DispatchStep
<1>2. CASE \E t \in Task : Await(t) \/ Backoff(t) \/ Retry(t)
  BY <1>2, <1>0, AwaitStep DEF Await, Reply, Backoff, Retry
<1>3. CASE \E t \in Task : Fail(t) \/ Cancel(t)
  BY <1>3, <1>0, EndStep DEF Fail, Cancel
<1>4. CASE \E t \in Task : Finish(t)
  BY <1>4, FinishStep
<1>5. CASE \E r \in Refresher : Register(r)
  BY <1>5, RegisterStep
<1>6. CASE \/ \E r \in Refresher : ListTools(r)
           \/ \E ids \in SUBSET Id : Browse(ids)
           \/ \E id \in Id : Hydrate(id)
           \/ \E n \in Name, v \in Variant \cup {None} : UpstreamChanges(n, v)
           \/ Advance
           \/ UNCHANGED vars
  BY <1>6, <1>0, QuietStep
<1> QED BY <1>1, <1>2, <1>3, <1>4, <1>5, <1>6 DEF Next, Resume, Refresh

\* Where ids carry names, a registration replaces all three views or none.
LEMMA RegisterAgrees ==
    ASSUME NamesInIds, Core, ViewsAgree, NEW r \in Refresher, Register(r)
    PROVE  ViewsAgree'
<1> DEFINE u == listing[r]
<1>1. u \in Upstreams /\ Rebuild(u)
  BY DEF Register, Core, TypeOK, Upstreams
<1> HIDE DEF u
<1>2. CASE UNCHANGED view
  BY <1>2 DEF ViewsAgree, view
<1>3. CASE ~UNCHANGED view
  <2>1. catalog' = CatalogOf(u) /\ index' = IndexOf(u) /\ routed' = ItemIds(u)
    BY <1>1, <1>3, AllRegistered DEF Rebuild
  <2> QED BY <1>1, <2>1, AllRegistered DEF ViewsAgree
<1> QED BY <1>2, <1>3

LEMMA AgreeStep ==
    NamesInIds /\ Core /\ ViewsAgree /\ Named /\ [Next]_vars => ViewsAgree' /\ Named'
<1> SUFFICES ASSUME NamesInIds, Core, ViewsAgree, Named, [Next]_vars
             PROVE  ViewsAgree' /\ Named'
  OBVIOUS
<1>0. ASSUME UNCHANGED view
      PROVE  ViewsAgree'
  BY <1>0 DEF ViewsAgree, view
<1>1. CASE \E t \in Task, id \in Id, arg \in Arg : Refused(t, id, arg) \/ CacheHit(t, id, arg)
  <2>1. UNCHANGED <<view, call>>
    BY <1>1 DEF Refused, CacheHit
  <2> QED BY <2>1, <1>0 DEF Named
<1>2. CASE \E t \in Task, id \in Id, arg \in Arg : Dispatch(t, id, arg)
  <2>1. PICK t \in Task, id \in Id, arg \in Arg : Dispatch(t, id, arg)
    BY <1>2
  <2> DEFINE c == [at |-> "calling", id |-> id, arg |-> arg, def |-> catalog[id],
                   name |-> IF index[id] # None THEN index[id] ELSE catalog[id].name,
                   keyed |-> Keyed(id), attempts |-> 1, reply |-> "none"]
  <2>2. UNCHANGED view /\ call' = [call EXCEPT ![t] = c] /\ catalog[id] # None
    BY <2>1 DEF Dispatch, Cleared
  <2>3. c.name = c.def.name
    BY <2>2 DEF ViewsAgree
  <2> HIDE DEF c
  <2>4. Named'
    BY <2>2, <2>3 DEF Named, Core, TypeOK
  <2> QED BY <2>2, <2>4, <1>0
<1>3. CASE \E t \in Task : Await(t) \/ Backoff(t) \/ Retry(t)
  <2>1. UNCHANGED view
    BY <1>3 DEF Await, Reply, Backoff, Retry
  <2>2. PICK t \in Task : Await(t) \/ Backoff(t) \/ Retry(t)
    BY <1>3
  <2>3. /\ call[t].at # "idle" /\ call \in [Task -> Execution]
        /\ \A s \in Task : /\ call'[s].def = call[s].def /\ call'[s].name = call[s].name
                           /\ s # t => call'[s] = call[s]
    BY <2>2 DEF Await, Reply, Backoff, Retry, Core, TypeOK, Execution
  <2> QED BY <2>1, <2>3, <1>0 DEF Named
<1>4. CASE \E t \in Task : Fail(t) \/ Cancel(t) \/ Finish(t)
  <2>1. UNCHANGED view /\ \E t \in Task : call' = [call EXCEPT ![t] = Idle]
    BY <1>4 DEF Fail, Cancel, Finish
  <2> QED BY <2>1, <1>0 DEF Named, Idle, Core, TypeOK
<1>5. CASE \E r \in Refresher : Register(r)
  BY <1>5, RegisterAgrees DEF Register, Named
<1>6. CASE \/ \E r \in Refresher : ListTools(r)
           \/ \E ids \in SUBSET Id : Browse(ids)
           \/ \E id \in Id : Hydrate(id)
           \/ \E n \in Name, v \in Variant \cup {None} : UpstreamChanges(n, v)
           \/ Advance
           \/ UNCHANGED vars
  BY <1>6, <1>0, QuietStep DEF Named
<1> QED BY <1>1, <1>2, <1>3, <1>4, <1>5, <1>6 DEF Next, Execute, Resume, Refresh

LEMMA AgreeInit == Init => ViewsAgree /\ Named
  BY DEF Init, ViewsAgree, Named, Idle

--------------------------------------------------------------------------------
(* The theorems *)

\* Whatever executes, registrations and time interleave, also when registrations
\* raise or ids clash: the cache holds successes of admitted, allowed reads, one
\* per call and no more than max_entries (ToolResultCache, ProxyRuntime.execute).
THEOREM CacheIsSound == Spec => []CacheSound
<1>1. Init => Core /\ CacheSound
  BY CoreInit
<1>2. Core /\ CacheSound /\ [Next]_vars => Core' /\ CacheSound'
  BY CoreStep
<1> QED BY <1>1, <1>2, PTL DEF Spec

\* Validators and cards are never of a definition the catalog has dropped, not
\* even when a registration raises half-way (_register_tool_defs).
THEOREM NothingStale == Spec => []Current
<1>1. Core => Current
  BY DEF Core
<1> QED BY <1>1, CoreInit, CoreStep, PTL DEF Spec

\* Where canonical ids carry tool names, catalog, index, router, validators and
\* cards always are of the same definitions (docs/gateway_spec.md:570-572).
THEOREM ViewsMoveTogether == NamesInIds => (Spec => []DerivedIsCurrent)
<1> SUFFICES ASSUME NamesInIds
             PROVE  Spec => []DerivedIsCurrent
  OBVIOUS
<1>1. Init => Core /\ CacheSound /\ ViewsAgree /\ Named
  BY CoreInit, AgreeInit
<1>2. /\ Core /\ CacheSound /\ ViewsAgree /\ Named /\ [Next]_vars
      => Core' /\ CacheSound' /\ ViewsAgree' /\ Named'
  BY CoreStep, AgreeStep
<1>3. Core /\ ViewsAgree => DerivedIsCurrent
  BY DEF Core, Current, DerivedIsCurrent
<1> QED BY <1>1, <1>2, <1>3, PTL DEF Spec

\* Where canonical ids carry tool names, a call in flight goes to the tool whose
\* schema and policy it passed, at most max_attempts times (execute,
\* call_with_retry), however the catalog changes while it waits.
THEOREM CallsGoAsChecked == NamesInIds => (Spec => []DispatchedAsChecked)
<1> SUFFICES ASSUME NamesInIds
             PROVE  Spec => []DispatchedAsChecked
  OBVIOUS
<1>1. Init => Core /\ CacheSound /\ ViewsAgree /\ Named
  BY CoreInit, AgreeInit
<1>2. /\ Core /\ CacheSound /\ ViewsAgree /\ Named /\ [Next]_vars
      => Core' /\ CacheSound' /\ ViewsAgree' /\ Named'
  BY CoreStep, AgreeStep
<1>3. Core /\ Named => DispatchedAsChecked
  <2> SUFFICES ASSUME Core, Named, NEW t \in Task, call[t].at # "idle"
               PROVE  /\ call[t].name = call[t].def.name
                      /\ ToolId[call[t].def] = call[t].id
                      /\ call[t].arg \in Accepts[call[t].def.variant]
                      /\ call[t].def.variant \notin Denied
                      /\ call[t].attempts <= MaxAttempts
    BY DEF DispatchedAsChecked
  <2>1. Checked(call[t]) /\ call[t].name = call[t].def.name
    BY DEF Core, Sent, Named
  <2>2. call[t].attempts \in 0..MaxAttempts
    BY DEF Core, TypeOK, Execution
  <2> QED BY <2>1, <2>2, LimitAssumption DEF Checked
<1> QED BY <1>1, <1>2, <1>3, PTL DEF Spec
================================================================================
