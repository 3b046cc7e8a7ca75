-------------------------- MODULE ContextEngineProofs --------------------------
(***************************************************************************)
(* What the context engine guarantees for any items, parents, labels, costs,  *)
(* budgets and settings, and any interleaving of calls with the steps of builds; *)
(* and what its adapters guarantee for any conversation: answers keep their       *)
(* calls, the log takes what has a new id, and the items that are kept go back    *)
(* into the messages they came from.                                              *)
(***************************************************************************)
EXTENDS MCConversations, SequenceTheorems, FiniteSetTheorems, WellFoundedInduction, TLAPS

\* A logged item refers to its own handle or to none.
OwnRefs == \A k \in DOMAIN log : log[k].ref \in {None, log[k].id}

\* What a dropping build still has to put in the store is a logged item that has
\* no reference.
Unstored == build.at = "firewall" /\ ~mode.redact =>
                \A e \in build.todo : e \in Entries /\ e.ref = None

IInv == TypeOK /\ OwnRefs /\ Unstored

LEMMA InitEstablishes == Init => IInv
<1> SUFFICES ASSUME Init PROVE IInv
  OBVIOUS
<1>1. TypeOK
  BY SizeAssumption DEF Init, TypeOK, Stage, NoBuild, Idle
<1>2. QED
  BY <1>1 DEF Init, IInv, OwnRefs, Unstored, NoBuild

\* An item with a new id joins the log.
LEMMA AppendItem ==
  ASSUME TypeOK, NEW e \in LogItem, e.id \notin Logged, log' = Append(log, e)
  PROVE  /\ log' \in Seq(LogItem)
         /\ \A j, k \in DOMAIN log' : log'[j].id = log'[k].id => j = k
         /\ Logged \subseteq Logged'
         /\ Entries \subseteq Entries'
         /\ Len(log) \in 0..Len(log')
         /\ \A k \in DOMAIN log' : log'[k] \in Entries \cup {e}
<1>1. log \in Seq(LogItem) /\ \A j, k \in DOMAIN log : log[j].id = log[k].id => j = k
  BY DEF TypeOK
<1>2. /\ log' \in Seq(LogItem) /\ Len(log') = Len(log) + 1 /\ Len(log) \in Nat
      /\ DOMAIN log' = 1..(Len(log) + 1) /\ DOMAIN log = 1..Len(log)
      /\ \A k \in DOMAIN log : log'[k] = log[k]
      /\ log'[Len(log) + 1] = e
  BY <1>1
<1>3. \A k \in DOMAIN log : log[k].id # e.id
  BY DEF Logged, IdsOf, ToSet
<1>4. \A j, k \in DOMAIN log' : log'[j].id = log'[k].id => j = k
  BY <1>1, <1>2, <1>3
<1>5. Entries \subseteq Entries'
  BY <1>2 DEF Entries, ToSet
<1>6. Logged \subseteq Logged'
  BY <1>5 DEF Logged, IdsOf, Entries
<1>7. \A k \in DOMAIN log' : log'[k] \in Entries \cup {e}
  BY <1>2 DEF Entries, ToSet
<1>8. QED
  BY <1>2, <1>4, <1>5, <1>6, <1>7

\* A call that appends such an item, and leaves the build alone.
LEMMA AppendPreserves ==
  ASSUME IInv, NEW e \in LogItem, e.id \notin Logged, e.ref \in {None, e.id},
         log' = Append(log, e), UNCHANGED <<mode, build>>,
         store' \in [Id -> Text \cup {None}], data' \in 0..MaxData,
         caller' = Idle \/ caller' \in [id : Item, text : Text, large : BOOLEAN]
  PROVE  IInv'
<1> USE DEF IInv
<1>1. /\ log' \in Seq(LogItem)
      /\ \A j, k \in DOMAIN log' : log'[j].id = log'[k].id => j = k
      /\ Logged \subseteq Logged' /\ Entries \subseteq Entries' /\ Len(log) \in 0..Len(log')
      /\ \A k \in DOMAIN log' : log'[k] \in Entries \cup {e}
  BY AppendItem
<1>2. build' # NoBuild => build'.cands \subseteq Logged' /\ build'.began \in 0..Len(log')
  BY <1>1, LenProperties DEF TypeOK
<1>3. TypeOK'
  BY <1>1, <1>2 DEF TypeOK, Stage, NoBuild, Idle
<1>4. OwnRefs'
  BY <1>1 DEF OwnRefs, Entries, ToSet
<1>5. Unstored'
  BY <1>1 DEF Unstored
<1>6. QED
  BY <1>3, <1>4, <1>5

LEMMA EnteredIsItem ==
  ASSUME NEW i \in Item, NEW text \in Text, NEW label \in Level, NEW ref \in {None, i},
         NEW seam \in BOOLEAN
  PROVE  /\ Entered(i, text, label, ref, seam) \in LogItem
         /\ Entered(i, text, label, ref, seam).id = i
         /\ Entered(i, text, label, ref, seam).ref = ref
  BY ItemAssumption DEF Entered, LogItem, Id

LEMMA TextForms ==
  ASSUME NEW d \in Nat, NEW t \in Text
  PROVE  Raw(d) \in Text /\ Summary(t) \in Text /\ Mask \in Text
  BY DEF Raw, Summary, Mask, Text, Form

LEMMA NatMinimum ==
  ASSUME NEW T \in SUBSET Nat, T # {}
  PROVE  \E x \in T : \A y \in T : x <= y
<1>1. PICK x \in T : \A y \in T : ~ (<<y, x>> \in OpToRel(<, Nat))
  BY NatLessThanWellFounded, WFMin
<1>2. \A y \in T : ~ (y < x)
  BY <1>1 DEF OpToRel
<1>3. QED
  BY <1>2

LEMMA LabelKnown ==
  ASSUME TypeOK, NEW h \in Id
  PROVE  SourceLabel(h) \in Level
<1>1. CASE Owners(h) = {}
  BY <1>1, PolicyAssumption DEF SourceLabel
<1>2. CASE Owners(h) # {}
  <2>1. Owners(h) \in SUBSET Nat /\ Owners(h) \subseteq DOMAIN log /\ log \in Seq(LogItem)
    BY DEF Owners, TypeOK
  <2>2. \E k \in Owners(h) : \A m \in Owners(h) : k <= m
    BY <2>1, <1>2, NatMinimum
  <2> DEFINE k == CHOOSE k \in Owners(h) : \A m \in Owners(h) : k <= m
  <2>3. k \in DOMAIN log
    BY <2>1, <2>2
  <2>4. SourceLabel(h) = log[k].label
    BY <1>2 DEF SourceLabel
  <2> HIDE DEF k
  <2>5. log[k] \in LogItem
    BY <2>1, <2>3, ElementOfSeq
  <2>6. QED
    BY <2>4, <2>5 DEF LogItem
<1>3. QED
  BY <1>1, <1>2

LEMMA CallPreserves ==
  ASSUME IInv, Calls
  PROVE  IInv'
<1> USE DEF IInv
<1>1. data \in Nat /\ 0 \in Level
  BY PolicyAssumption DEF TypeOK
<1>2. ASSUME HandIn
      PROVE  /\ data' \in 0..MaxData /\ data' \in Nat /\ Raw(data') \in Text
             /\ Summary(Raw(data')) \in Text
  <2>1. data' \in 0..MaxData /\ data' \in Nat
    BY <1>2, SizeAssumption DEF HandIn, TypeOK
  <2>2. Raw(data') \in Text
    BY <2>1 DEF Raw, Text, Form
  <2>3. QED
    BY <2>1, <2>2 DEF Summary, Raw, Text, Form
<1>3. ASSUME NEW i \in Item, NEW label \in Level, Ingest(i, label)
      PROVE  IInv'
  <2>1. HandIn /\ i \notin Logged
        /\ log' = Append(log, Entered(i, Raw(data'), label, None, FALSE))
        /\ UNCHANGED <<mode, store, caller, build>>
    BY <1>3 DEF Ingest
  <2> DEFINE e == Entered(i, Raw(data'), label, None, FALSE)
  <2>a. e \in LogItem /\ e.id = i /\ e.ref \in {None, i}
    BY <2>1, <1>2, EnteredIsItem
  <2> HIDE DEF e
  <2>2. log' = Append(log, e)
    BY <2>1 DEF e
  <2>3. QED
    BY <2>1, <2>a, <2>2, <1>2, AppendPreserves DEF TypeOK
<1>4. ASSUME NEW i \in Item, NEW label \in Level, IngestOwned(i, label)
      PROVE  IInv'
  <2>1. HandIn /\ i \notin Logged
        /\ store' = [store EXCEPT ![i] = Raw(data')]
        /\ log' = Append(log, Entered(i, Summary(Raw(data')), label, i, FALSE))
        /\ UNCHANGED <<mode, caller, build>>
    BY <1>4 DEF IngestOwned
  <2>2. store' \in [Id -> Text \cup {None}]
    BY <2>1, <1>2 DEF TypeOK
  <2> DEFINE e == Entered(i, Summary(Raw(data')), label, i, FALSE)
  <2>a. e \in LogItem /\ e.id = i /\ e.ref \in {None, i}
    BY <2>1, <1>2, EnteredIsItem
  <2> HIDE DEF e
  <2>3. log' = Append(log, e)
    BY <2>1 DEF e
  <2>4. QED
    BY <2>1, <2>a, <2>2, <2>3, <1>2, AppendPreserves DEF TypeOK
<1>5. ASSUME NEW i \in Item, IngestEnvelope(i)
      PROVE  IInv'
  <2>1. HandIn /\ i \notin Logged
        /\ log' = Append(log, Entered(i, Summary(Raw(data')), 0, None, TRUE))
        /\ UNCHANGED <<mode, store, caller, build>>
    BY <1>5 DEF IngestEnvelope
  <2> DEFINE e == Entered(i, Summary(Raw(data')), 0, None, TRUE)
  <2>a. e \in LogItem /\ e.id = i /\ e.ref \in {None, i}
    BY <2>1, <1>1, <1>2, EnteredIsItem
  <2> HIDE DEF e
  <2>2. log' = Append(log, e)
    BY <2>1 DEF e
  <2>3. QED
    BY <2>1, <2>a, <2>2, <1>2, AppendPreserves DEF TypeOK
<1>6. ASSUME NEW i \in Item, NEW large \in BOOLEAN, PutResult(i, large)
      PROVE  IInv'
  <2>1. HandIn /\ store' = [store EXCEPT ![i] = Raw(data')]
        /\ caller' = [id |-> i, text |-> Raw(data'), large |-> large]
        /\ UNCHANGED <<mode, log, build>>
    BY <1>6 DEF PutResult
  <2>2. store' \in [Id -> Text \cup {None}] /\ caller' \in [id : Item, text : Text, large : BOOLEAN]
    BY <2>1, <1>2 DEF TypeOK
  <2>3. TypeOK'
    BY <2>1, <2>2, <1>2 DEF TypeOK, Logged
  <2>4. QED
    BY <2>1, <2>3 DEF OwnRefs, Unstored, Entries
<1>7. CASE AppendResult
  <2> USE <1>7 DEF AppendResult
  <2>1. caller \in [id : Item, text : Text, large : BOOLEAN] /\ caller' = Idle
    BY DEF TypeOK
  <2>2. CASE Refused
    <3>1. UNCHANGED <<mode, log, store, build, data>> /\ caller' = Idle
      BY <2>2
    <3>2. TypeOK'
      BY <3>1 DEF TypeOK, Logged
    <3>3. QED
      BY <3>1, <3>2 DEF OwnRefs, Unstored, Entries
  <2>3. CASE ~Refused
    <3> DEFINE text == IF caller.large THEN Summary(caller.text) ELSE caller.text
    <3>1. text \in Text
      BY <2>1, TextForms
    <3>2. /\ log' = Append(log, Entered(caller.id, text, 0, caller.id, FALSE))
          /\ UNCHANGED <<mode, store, build, data>>
      BY <2>3
    <3>3. caller.id \in Item /\ caller.id \notin Logged
      BY <2>1, <2>3 DEF Refused
    <3> HIDE DEF text
    <3> DEFINE e == Entered(caller.id, text, 0, caller.id, FALSE)
    <3>4. e \in LogItem /\ e.id = caller.id /\ e.ref = caller.id
      BY <3>1, <3>3, <1>1, EnteredIsItem
    <3> HIDE DEF e
    <3>5. log' = Append(log, e)
      BY <3>2 DEF e
    <3>6. QED
      BY <2>1, <3>2, <3>3, <3>4, <3>5, AppendPreserves DEF TypeOK
  <2>4. QED
    BY <2>2, <2>3
<1>8. ASSUME NEW h \in Id, NEW s \in Slice, NEW parent \in Item \cup {None}, Drilldown(h, s, parent)
      PROVE  IInv'
  <2> DEFINE e == [id |-> s, kind |-> "tool_result", parent |-> parent, text |-> store[h],
                   label |-> Inherited(h), ref |-> None, seam |-> FALSE]
  <2>1. /\ log' = Append(log, e) /\ s \notin Logged
        /\ store[h] # None
        /\ UNCHANGED <<mode, store, caller, build, data>>
    BY <1>8 DEF Drilldown
  <2>2. Inherited(h) \in Level
    BY LabelKnown DEF Inherited
  <2>3. e \in LogItem /\ e.id = s /\ e.ref = None
    BY <2>1, <2>2 DEF LogItem, Id, Kind, TypeOK
  <2> HIDE DEF e
  <2>4. QED
    BY <2>1, <2>3, AppendPreserves DEF TypeOK
<1>9. QED
  BY <1>3, <1>4, <1>5, <1>6, <1>7, <1>8 DEF Calls

LEMMA EntryIsItem ==
  ASSUME TypeOK
  PROVE  Entries \subseteq LogItem
<1>1. log \in Seq(LogItem)
  BY DEF TypeOK
<1>2. \A k \in DOMAIN log : log[k] \in LogItem
  BY <1>1, ElementOfSeq
<1>3. QED
  BY <1>2 DEF Entries, ToSet

LEMMA ChangedItems ==
  ASSUME NEW e \in LogItem
  PROVE  Masked(e) \in LogItem /\ Processed(e) \in LogItem
<1>1. Mask \in Text /\ Summary(e.text) \in Text
  BY TextForms DEF LogItem
<1>2. Masked(e) \in LogItem
  BY <1>1 DEF Masked, LogItem
<1>3. Processed(e) \in LogItem
  BY <1>1, PolicyAssumption DEF Processed, LogItem
<1>4. QED
  BY <1>2, <1>3

LEMMA BuildPreserves ==
  ASSUME IInv, Builds
  PROVE  IInv'
<1> USE DEF IInv
<1>1. Entries \subseteq LogItem
  BY EntryIsItem
<1>2. /\ build.at = "closing" => build \in [at : {"closing"}, began : Nat, cands : SUBSET Id, todo : SUBSET LogItem]
      /\ build.at = "firewall" => build \in [at : {"firewall"}, began : Nat, cands : SUBSET Id,
                                            todo : SUBSET LogItem, items : SUBSET LogItem]
      /\ build.at \in {"closing", "firewall"} => /\ build # NoBuild /\ build.cands \subseteq Logged
                                               /\ build.began \in 0..Len(log)
  BY DEF TypeOK, Stage, NoBuild
<1>3. Len(log) \in Nat /\ Logged \subseteq Id
  <2>1. log \in Seq(LogItem)
    BY DEF TypeOK
  <2>2. QED
    BY <2>1, <1>1, LenProperties DEF Logged, IdsOf, Entries, LogItem
\* A step that leaves the log and the store alone.
<1>4. ASSUME UNCHANGED <<mode, log, caller, data>>, store' \in [Id -> Text \cup {None}],
             build' \in Stage, build' # NoBuild => build'.cands \subseteq Logged /\ build'.began \in 0..Len(log)
      PROVE  TypeOK' /\ OwnRefs'
  BY <1>4 DEF TypeOK, OwnRefs, Logged
<1>5. ASSUME NEW kinds \in Phases, Generate(kinds)
      PROVE  IInv'
  <2> DEFINE allowed == {e \in Entries : e.kind \in kinds}
  <2>1. /\ build' = [at |-> "closing", began |-> Len(log), todo |-> allowed, cands |-> IdsOf(allowed)]
        /\ UNCHANGED <<mode, log, store, caller, data>>
    BY <1>5 DEF Generate
  <2>2. allowed \subseteq LogItem /\ IdsOf(allowed) \subseteq Logged
    BY <1>1 DEF Logged, IdsOf, Entries
  <2> HIDE DEF allowed
  <2>3. build' \in Stage /\ build'.cands \subseteq Logged /\ build'.began \in 0..Len(log)
    BY <2>1, <2>2, <1>3 DEF Stage
  <2>4. TypeOK' /\ OwnRefs'
    BY <2>1, <2>3, <1>4 DEF TypeOK
  <2>5. Unstored'
    BY <2>1 DEF Unstored
  <2>6. QED
    BY <2>4, <2>5
<1>6. CASE Close
  <2>1. PICK e \in build.todo :
           build' = [build EXCEPT !.cands = @ \cup Ancestors(e), !.todo = @ \ {e}]
    BY <1>6 DEF Close
  <2>2. build.at = "closing" /\ UNCHANGED <<mode, log, store, caller, data>>
    BY <1>6 DEF Close
  <2>3. Ancestors(e) \subseteq Logged
    BY DEF Ancestors, Missing
  <2>4. build' = [at |-> "closing", began |-> build.began, cands |-> build.cands \cup Ancestors(e),
                  todo |-> build.todo \ {e}]
    BY <2>1, <2>2, <1>2
  <2>5. build' \in Stage /\ build'.cands \subseteq Logged /\ build'.began \in 0..Len(log)
    BY <2>2, <2>3, <2>4, <1>2, <1>3 DEF Stage
  <2>6. TypeOK' /\ OwnRefs'
    BY <2>2, <2>5, <1>4 DEF TypeOK
  <2>7. Unstored'
    BY <2>4 DEF Unstored
  <2>8. QED
    BY <2>6, <2>7
<1>7. CASE Screen
  <2> DEFINE todo == {e \in Filtered : Fires(e)}
             shown == {e \in Filtered : ~Fires(e)}
  <2>1. /\ build.at = "closing" /\ UNCHANGED <<mode, log, store, caller, data>>
        /\ build' = [at |-> "firewall", began |-> build.began, cands |-> build.cands,
                     todo |-> todo, items |-> shown]
    BY <1>7 DEF Screen
  <2>2. Filtered \subseteq LogItem
    BY <1>1, ChangedItems DEF Filtered, Candidates
  <2>3. todo \subseteq LogItem /\ shown \subseteq LogItem
    BY <2>2
  <2>4. ~mode.redact => \A e \in todo : e \in Entries /\ e.ref = None
    BY DEF Filtered, Candidates, Fires
  <2> HIDE DEF todo, shown
  <2>5. build' \in Stage /\ build'.cands \subseteq Logged /\ build'.began \in 0..Len(log)
    BY <2>1, <2>3, <1>2, <1>3 DEF Stage
  <2>6. TypeOK' /\ OwnRefs'
    BY <2>1, <2>5, <1>4 DEF TypeOK
  <2>7. Unstored'
    BY <2>1, <2>4 DEF Unstored, Entries
  <2>8. QED
    BY <2>6, <2>7
<1>8. CASE Firewall
  <2>1. PICK e \in build.todo :
          /\ store' = [store EXCEPT ![e.id] = e.text]
          /\ build' = IF mode.closed THEN NoBuild
                      ELSE [build EXCEPT !.todo = @ \ {e}, !.items = @ \cup {Processed(e)}]
    BY <1>8 DEF Firewall
  <2>2. build.at = "firewall" /\ UNCHANGED <<mode, log, caller, data>>
    BY <1>8 DEF Firewall
  <2>3. e \in LogItem /\ e.text \in Text /\ Processed(e) \in LogItem
    BY <2>2, <1>2, ChangedItems DEF LogItem
  <2>4. store' \in [Id -> Text \cup {None}]
    BY <2>1, <2>3 DEF TypeOK
  <2>5. CASE build' = NoBuild
    BY <2>2, <2>4, <2>5, <1>4 DEF Stage, NoBuild, Unstored
  <2>6. CASE build' = [build EXCEPT !.todo = @ \ {e}, !.items = @ \cup {Processed(e)}]
    <3>1. build' = [at |-> "firewall", began |-> build.began, cands |-> build.cands,
                    todo |-> build.todo \ {e}, items |-> build.items \cup {Processed(e)}]
      BY <2>6, <2>2, <1>2
    <3>2. build' \in Stage /\ build'.cands \subseteq Logged /\ build'.began \in 0..Len(log)
      BY <3>1, <2>2, <2>3, <1>2, <1>3 DEF Stage
    <3>3. TypeOK' /\ OwnRefs'
      BY <2>2, <2>4, <3>2, <1>4
    <3>4. Unstored'
      BY <2>2, <3>1 DEF Unstored, Entries
    <3>5. QED
      BY <3>3, <3>4
  <2>7. QED
    BY <2>1, <2>5, <2>6
<1>9. CASE Assemble
  <2>1. build' = NoBuild /\ UNCHANGED <<mode, log, store, caller, data>>
    BY <1>9 DEF Assemble
  <2>2. TypeOK' /\ OwnRefs'
    BY <2>1, <1>4 DEF TypeOK, Stage
  <2>3. QED
    BY <2>1, <2>2 DEF Unstored, NoBuild
<1>10. QED
  BY <1>5, <1>6, <1>7, <1>8, <1>9 DEF Builds

LEMMA StutterPreserves == IInv /\ UNCHANGED vars => IInv'
  BY DEF IInv, TypeOK, OwnRefs, Unstored, vars, Logged, Entries

LEMMA Inductive == Spec => []IInv
<1>1. IInv /\ [Next]_vars => IInv'
  BY CallPreserves, BuildPreserves, StutterPreserves DEF Next
<1>2. QED
  BY <1>1, InitEstablishes, PTL DEF Spec

\* The log and the build stay well-formed for any instance: no id is in the log
\* twice, although a result is stored before its id is looked at.
THEOREM TypeCorrect == Spec => []TypeOK
  BY Inductive, PTL DEF IInv

\* Calls do not touch the build (the lock of builds is theirs alone).
LEMMA CallsLeaveBuild == Calls => build' = build
  BY DEF Calls, Ingest, IngestOwned, IngestEnvelope, PutResult, AppendResult, Drilldown

\* No build of a dropping policy changes the bytes behind a logged reference: what
\* it stores belongs to an item without one, and ids are unique.
THEOREM RawBytesSurvive == Spec => RawSurvives
<1>1. ASSUME IInv, [Next]_vars, build' # build, ~mode.redact
      PROVE  ~Overwrites
  <2>1. Builds
    BY <1>1, CallsLeaveBuild DEF Next, vars
  <2>2. CASE store' = store
    BY <2>2 DEF Overwrites
  <2>3. CASE Firewall
    <3>1. PICK e \in build.todo : store' = [store EXCEPT ![e.id] = e.text]
      BY <2>3 DEF Firewall
    <3>2. build.at = "firewall"
      BY <2>3 DEF Firewall
    <3>3. e \in Entries /\ e.ref = None /\ e \in LogItem
      BY <1>1, <3>2, EntryIsItem DEF IInv, Unstored
    <3>4. PICK j \in DOMAIN log : e = log[j]
      BY <3>3 DEF Entries, ToSet
    <3>5. ~Refers(e.id)
      <4>1. SUFFICES ASSUME NEW k \in DOMAIN log, log[k].ref = e.id
                     PROVE  FALSE
        BY DEF Refers
      <4>2. e.id # None
        BY <3>3, IdAssumption DEF LogItem
      <4>3. log[k].id = log[j].id
        BY <1>1, <4>1, <4>2, <3>4 DEF IInv, OwnRefs
      <4>4. k = j
        BY <1>1, <4>3 DEF IInv, TypeOK
      <4>5. QED
        BY <4>1, <4>2, <4>4, <3>3, <3>4
    <3>6. \A h \in Id : h # e.id => store'[h] = store[h]
      BY <1>1, <3>1 DEF IInv, TypeOK
    <3>7. QED
      BY <3>5, <3>6 DEF Overwrites
  <2>4. Firewall \/ store' = store
    BY <2>1 DEF Builds, Generate, Close, Screen, Assemble
  <2>5. QED
    BY <2>2, <2>3, <2>4
<1>2. IInv /\ [Next]_vars => [build' # build /\ ~mode.redact => ~Overwrites]_vars
  BY <1>1
<1>3. QED
  BY <1>2, Inductive, PTL DEF Spec, RawSurvives

--------------------------------------------------------------------------------
(* What is sensitive stays hidden *)

\* A text that is no mask has a datum, one of those handed in.
Masks(t) == t.form = "mask" <=> t.of = 0
TextsKnown == /\ \A k \in DOMAIN log : Masks(log[k].text) /\ log[k].text.of <= data
              /\ \A h \in Id : store[h] # None => Masks(store[h]) /\ store[h].of <= data
              /\ caller # Idle => Masks(caller.text) /\ caller.text.of \in 1..data

\* A datum is behind a text; the handle h leads to it.
Tells(t, d) == t # None /\ t.of = d

\* Items of one datum are all at or above the floor or all below it, and so are the
\* slices that a drilldown would inject of it, whichever handle they come from.
OneVerdict ==
    \A d \in Nat \ {0} :
        /\ \A j, k \in DOMAIN log : log[j].text.of = d /\ log[k].text.of = d
              => (log[j].label >= Floor <=> log[k].label >= Floor)
        /\ \A h \in Id, k \in DOMAIN log : Tells(store[h], d) /\ log[k].text.of = d
              => (SourceLabel(h) >= Floor <=> log[k].label >= Floor)
        /\ \A g, h \in Id : Tells(store[g], d) /\ Tells(store[h], d)
              => (SourceLabel(g) >= Floor <=> SourceLabel(h) >= Floor)

\* A result between its put and its append is behind handles only, and behind none
\* that is sensitive if it is going to be appended.
Pending == caller # Idle =>
    /\ \A k \in DOMAIN log : log[k].text.of # caller.text.of
    /\ caller.id \notin Logged =>
          \A h \in Id : Tells(store[h], caller.text.of) => SourceLabel(h) < Floor

\* What the sensitivity filter lets through is in the log, below the floor.
Clean(e) ==
    /\ Masks(e.text)
    /\ e.text.form # "mask" =>
          /\ \E k \in DOMAIN log : log[k].text.of = e.text.of
          /\ \A k \in DOMAIN log : log[k].text.of = e.text.of => log[k].label < Floor
          /\ ~(e.text.form = "raw" /\ e.text.of \in Detected)
Screened == build.at = "firewall" =>
    /\ \A e \in build.todo \cup build.items : Clean(e)
    /\ \A e \in build.todo : e.text.form # "mask" => e \in Entries /\ e.ref = None

Sealed == TextsKnown /\ OneVerdict /\ Pending /\ Screened

LEMMA LogTexts ==
  ASSUME TypeOK
  PROVE  \A k \in DOMAIN log : log[k] \in LogItem /\ log[k].text \in Text /\ log[k].text.of \in Nat
<1>1. \A k \in DOMAIN log : log[k] \in LogItem
  BY ElementOfSeq DEF TypeOK
<1> QED  BY <1>1 DEF LogItem, Text

LEMMA InitSealed == Init => Sealed
<1> SUFFICES ASSUME Init PROVE Sealed
  OBVIOUS
<1>1. log = <<>> /\ DOMAIN log = {} /\ caller = Idle /\ build = NoBuild /\ \A h \in Id : store[h] = None
  BY DEF Init
<1> QED  BY <1>1 DEF Sealed, TextsKnown, OneVerdict, Pending, Screened, Tells, NoBuild

\* A handle has the label of its owner: an item that joins the log owns its own
\* handle, which nobody owned before, or none.
LEMMA OwnersJoin ==
  ASSUME IInv, NEW e \in LogItem, e.id \notin Logged, e.ref \in {None, e.id}, log' = Append(log, e)
  PROVE  /\ DOMAIN log' = DOMAIN log \cup {Len(log) + 1} /\ Len(log) + 1 \notin DOMAIN log
         /\ \A k \in DOMAIN log : log'[k] = log[k]
         /\ log'[Len(log) + 1] = e
         /\ \A h \in Id : SourceLabel(h)' = IF h = e.ref THEN e.label ELSE SourceLabel(h)
         /\ \A h \in Id : h = e.ref => SourceLabel(h) = 0
<1> DEFINE n == Len(log) + 1
<1>1. log \in Seq(LogItem)
  BY DEF IInv, TypeOK
<1>2. /\ DOMAIN log' = DOMAIN log \cup {n} /\ n \notin DOMAIN log
      /\ \A k \in DOMAIN log : log'[k] = log[k]
      /\ log'[n] = e /\ DOMAIN log \subseteq Nat /\ n \in Nat
  BY <1>1
<1> HIDE DEF n
<1>3. \A k \in DOMAIN log : log[k].id # e.id
  BY DEF Logged, IdsOf, ToSet
<1>4. None \notin Id
  BY IdAssumption
<1>5. ASSUME NEW h \in Id, h = e.ref
      PROVE  SourceLabel(h) = 0 /\ SourceLabel(h)' = e.label
  <2>1. Owners(h) = {}
    BY <1>3, <1>4, <1>5 DEF Owners, IInv, OwnRefs
  <2>2. Owners(h)' = {n}
    BY <1>2, <1>5, <2>1 DEF Owners
  <2>3. (CHOOSE k \in {n} : \A m \in {n} : k <= m) = n
    BY <1>2
  <2> QED  BY <1>2, <2>1, <2>2, <2>3 DEF SourceLabel
<1>6. ASSUME NEW h \in Id, h # e.ref
      PROVE  SourceLabel(h)' = SourceLabel(h)
  <2>1. Owners(h)' = Owners(h) /\ Owners(h) \in SUBSET Nat /\ Owners(h) \subseteq DOMAIN log
    BY <1>2, <1>6 DEF Owners
  <2>2. CASE Owners(h) = {}
    BY <2>1, <2>2 DEF SourceLabel
  <2>3. CASE Owners(h) # {}
    <3> DEFINE k == CHOOSE k \in Owners(h) : \A m \in Owners(h) : k <= m
    <3>1. k \in Owners(h)
      BY <2>1, <2>3, NatMinimum
    <3>2. SourceLabel(h) = log[k].label /\ SourceLabel(h)' = log'[k].label
      BY <2>1, <2>3 DEF SourceLabel
    <3> HIDE DEF k
    <3> QED  BY <1>2, <2>1, <3>1, <3>2
  <2> QED  BY <2>2, <2>3
<1> QED  BY <1>2, <1>5, <1>6 DEF n

\* An item joins the log: it agrees with what the log and the handles say of its
\* datum, and every handle keeps its verdict or tells the new item's datum.
LEMMA SealedJoin ==
  ASSUME IInv, Sealed, NEW e \in LogItem, e.id \notin Logged, e.ref \in {None, e.id},
         log' = Append(log, e), UNCHANGED build, TextsKnown', Pending',
         \A k \in DOMAIN log : e.text.of # 0 /\ log[k].text.of = e.text.of
             => (log[k].label >= Floor <=> e.label >= Floor),
         \A h \in Id : e.text.of # 0 /\ Tells(store'[h], e.text.of)
             => (SourceLabel(h)' >= Floor <=> e.label >= Floor),
         \A h \in Id : \/ store'[h] = None \/ Tells(store'[h], e.text.of)
                       \/ /\ store'[h] = store[h]
                          /\ SourceLabel(h)' >= Floor <=> SourceLabel(h) >= Floor
  PROVE  Sealed'
<1> DEFINE n == Len(log) + 1
<1>1. /\ DOMAIN log' = DOMAIN log \cup {n} /\ \A k \in DOMAIN log : log'[k] = log[k]
      /\ log'[n] = e
  BY OwnersJoin
<1> HIDE DEF n
<1>2. ASSUME NEW d \in Nat \ {0}
      PROVE  /\ \A j, k \in DOMAIN log' : log'[j].text.of = d /\ log'[k].text.of = d
                    => (log'[j].label >= Floor <=> log'[k].label >= Floor)
             /\ \A h \in Id, k \in DOMAIN log' : Tells(store'[h], d) /\ log'[k].text.of = d
                    => (SourceLabel(h)' >= Floor <=> log'[k].label >= Floor)
             /\ \A g, h \in Id : Tells(store'[g], d) /\ Tells(store'[h], d)
                    => (SourceLabel(g)' >= Floor <=> SourceLabel(h)' >= Floor)
  <2>1. \A j, k \in DOMAIN log : log[j].text.of = d /\ log[k].text.of = d
                => (log[j].label >= Floor <=> log[k].label >= Floor)
    BY DEF Sealed, OneVerdict
  <2>2. \A h \in Id, k \in DOMAIN log : Tells(store[h], d) /\ log[k].text.of = d
                => (SourceLabel(h) >= Floor <=> log[k].label >= Floor)
    BY DEF Sealed, OneVerdict
  <2>3. \A g, h \in Id : Tells(store[g], d) /\ Tells(store[h], d)
                => (SourceLabel(g) >= Floor <=> SourceLabel(h) >= Floor)
    BY DEF Sealed, OneVerdict
  <2>4. \A h \in Id : Tells(store'[h], d) => e.text.of = d \/
               (Tells(store[h], d) /\ (SourceLabel(h)' >= Floor <=> SourceLabel(h) >= Floor))
    BY DEF Tells
  <2>5. e.text.of = d => /\ \A k \in DOMAIN log : log[k].text.of = d
                                => (log[k].label >= Floor <=> e.label >= Floor)
                         /\ \A h \in Id : Tells(store'[h], d)
                                => (SourceLabel(h)' >= Floor <=> e.label >= Floor)
    OBVIOUS
  <2>6. \A j, k \in DOMAIN log' : log'[j].text.of = d /\ log'[k].text.of = d
                => (log'[j].label >= Floor <=> log'[k].label >= Floor)
    BY <1>1, <2>1, <2>5
  <2>7. \A h \in Id, k \in DOMAIN log' : Tells(store'[h], d) /\ log'[k].text.of = d
                => (SourceLabel(h)' >= Floor <=> log'[k].label >= Floor)
    BY <1>1, <2>2, <2>4, <2>5
  <2>8. \A g, h \in Id : Tells(store'[g], d) /\ Tells(store'[h], d)
                => (SourceLabel(g)' >= Floor <=> SourceLabel(h)' >= Floor)
    BY <2>3, <2>4, <2>5
  <2> QED  BY <2>6, <2>7, <2>8
<1>3. OneVerdict'
  BY <1>2 DEF OneVerdict
<1>4. ASSUME NEW f, Clean(f), f.text.of \in Nat
      PROVE  Clean(f)'
  <2>1. CASE f.text.form = "mask"
    BY <1>4, <2>1 DEF Clean
  <2>2. CASE f.text.form # "mask"
    <3>1. PICK k \in DOMAIN log : log[k].text.of = f.text.of
      BY <1>4, <2>2 DEF Clean
    <3>2. f.text.of # 0 /\ log[k].label < Floor /\ log[k] \in LogItem
      BY <1>4, <2>2, <3>1 DEF Clean, Masks, IInv, TypeOK
    <3>3. e.label \in Nat /\ log[k].label \in Nat /\ Floor \in Nat
      BY <3>2, PolicyAssumption DEF LogItem
    <3>4. e.text.of = f.text.of => (log[k].label >= Floor <=> e.label >= Floor)
      BY <3>1, <3>2
    <3>5. e.text.of = f.text.of => e.label < Floor
      BY <3>2, <3>3, <3>4
    <3> QED  BY <1>1, <1>4, <2>2, <3>1, <3>5 DEF Clean
  <2> QED  BY <2>1, <2>2
<1>5. Entries \subseteq Entries'
  BY <1>1 DEF Entries, ToSet
<1>6. Screened'
  <2> SUFFICES ASSUME build.at = "firewall" PROVE Screened'
    BY DEF Screened
  <2>1. \A f \in build.todo \cup build.items : f.text.of \in Nat
    BY DEF IInv, TypeOK, Stage, NoBuild, LogItem, Text
  <2> QED  BY <1>4, <1>5, <2>1 DEF Sealed, Screened
<1> QED  BY <1>3, <1>6 DEF Sealed

\* A new text: nothing in the log, in the store or with a caller tells its datum.
LEMMA FreshText ==
  ASSUME IInv, Sealed, HandIn
  PROVE  /\ data' = data + 1 /\ data \in Nat /\ data' \in Nat \ {0}
         /\ Raw(data') \in Text /\ Masks(Raw(data')) /\ Raw(data').of = data'
         /\ Summary(Raw(data')) \in Text /\ Masks(Summary(Raw(data'))) /\ Summary(Raw(data')).of = data'
         /\ \A k \in DOMAIN log : log[k].text.of <= data /\ log[k].text.of # data'
         /\ \A h \in Id : store[h] # None => store[h].of <= data
         /\ \A h \in Id : ~Tells(store[h], data')
         /\ caller = Idle
<1>1. data' = data + 1 /\ data \in Nat /\ caller = Idle
  BY SizeAssumption DEF HandIn, IInv, TypeOK
<1>2. \A k \in DOMAIN log : log[k].text.of <= data
  BY DEF Sealed, TextsKnown
<1>3. \A h \in Id : store[h] # None => store[h].of <= data
  BY DEF Sealed, TextsKnown
<1>4. /\ Raw(data') \in Text /\ Masks(Raw(data')) /\ Raw(data').of = data'
      /\ Summary(Raw(data')) \in Text /\ Masks(Summary(Raw(data'))) /\ Summary(Raw(data')).of = data'
  BY <1>1 DEF Raw, Summary, Text, Form, Masks
<1>5. \A k \in DOMAIN log : log[k].text.of # data'
  <2>1. \A k \in DOMAIN log : log[k].text.of \in Nat
    BY LogTexts DEF IInv
  <2> QED  BY <1>1, <1>2, <2>1
<1>6. \A h \in Id : ~Tells(store[h], data')
  <2>1. \A h \in Id : store[h] # None => store[h].of \in Nat
    BY DEF IInv, TypeOK, Text
  <2> QED  BY <1>1, <1>3, <2>1 DEF Tells
<1> QED  BY <1>1, <1>2, <1>3, <1>4, <1>5, <1>6

\* Joining the log keeps the texts known.
LEMMA TextsJoin ==
  ASSUME IInv, Sealed, NEW e \in LogItem, e.id \notin Logged, e.ref \in {None, e.id},
         log' = Append(log, e), data' \in Nat, data <= data',
         Masks(e.text), e.text.of <= data', caller' = Idle,
         \A h \in Id : store'[h] = store[h] \/ store'[h] = None \/ (Masks(store'[h]) /\ store'[h].of <= data')
  PROVE  TextsKnown' /\ Pending'
<1>1. /\ DOMAIN log' = DOMAIN log \cup {Len(log) + 1} /\ \A k \in DOMAIN log : log'[k] = log[k]
      /\ log'[Len(log) + 1] = e
  BY OwnersJoin
<1>2. \A k \in DOMAIN log : Masks(log[k].text) /\ log[k].text.of <= data /\ log[k].text.of \in Nat
  BY LogTexts DEF Sealed, TextsKnown, IInv
<1>3. \A h \in Id : store[h] # None => Masks(store[h]) /\ store[h].of <= data /\ store[h].of \in Nat
  BY DEF Sealed, TextsKnown, IInv, TypeOK, Text
<1>4. data \in Nat
  BY SizeAssumption DEF IInv, TypeOK
<1>5. \A k \in DOMAIN log' : Masks(log'[k].text) /\ log'[k].text.of <= data'
  BY <1>1, <1>2, <1>4
<1>6. \A h \in Id : store'[h] # None => Masks(store'[h]) /\ store'[h].of <= data'
  BY <1>3, <1>4
<1>7. caller' = Idle
  OBVIOUS
<1> QED  BY <1>5, <1>6, <1>7 DEF TextsKnown, Pending, Idle

LEMMA CallSealed ==
  ASSUME IInv, Sealed, Calls
  PROVE  Sealed'
<1>0. /\ data \in Nat /\ 0 \in Level /\ Floor \in Nat \ {0} /\ None \notin Id /\ Level \subseteq Nat
      /\ build' = build
  BY CallsLeaveBuild, SizeAssumption, PolicyAssumption, IdAssumption DEF IInv, TypeOK
\* An item with a new text joins the log; its handle, if it has one, is told it too.
<1>1. ASSUME HandIn, NEW i \in Item, i \notin Logged, NEW e \in LogItem, e.id = i, e.ref \in {None, i},
             log' = Append(log, e), e.text \in {Raw(data'), Summary(Raw(data'))}, caller' = Idle,
             \/ e.ref = None /\ store' = store
             \/ e.ref = i /\ store' = [store EXCEPT ![i] = Raw(data')]
      PROVE  Sealed'
  <2>1. /\ data' \in Nat \ {0} /\ data <= data' /\ e.text.of = data' /\ Masks(e.text) /\ Raw(data').of = data'
        /\ Masks(Raw(data')) /\ Raw(data') \in Text
        /\ \A k \in DOMAIN log : log[k].text.of # data'
        /\ \A h \in Id : ~Tells(store[h], data')
    BY <1>0, <1>1, FreshText
  <2>2. i \in Id /\ store \in [Id -> Text \cup {None}]
    BY DEF Id, IInv, TypeOK
  <2>3. \A h \in Id : store'[h] = IF h = e.ref THEN Raw(data') ELSE store[h]
    BY <1>0, <1>1, <2>2
  <2>4. TextsKnown' /\ Pending'
    <3>1. \A h \in Id : store'[h] = store[h] \/ (Masks(store'[h]) /\ store'[h].of <= data')
      BY <2>1, <2>3
    <3>2. data' \in Nat /\ e.text.of <= data'
      BY <2>1
    <3> QED  BY <1>1, <2>1, <3>1, <3>2, TextsJoin
  <2>5. \A h \in Id : SourceLabel(h)' = IF h = e.ref THEN e.label ELSE SourceLabel(h)
    BY <1>1, OwnersJoin
  <2>6. \A h \in Id : Tells(store'[h], data') => h = e.ref
    BY <2>1, <2>3
  <2>7. \A h \in Id : h = e.ref => store'[h] = None \/ Tells(store'[h], data')
    BY <2>1, <2>3 DEF Tells
  <2>8. /\ \A h \in Id : Tells(store'[h], e.text.of) => (SourceLabel(h)' >= Floor <=> e.label >= Floor)
        /\ \A h \in Id : \/ store'[h] = None \/ Tells(store'[h], e.text.of)
                         \/ store'[h] = store[h] /\ (SourceLabel(h)' >= Floor <=> SourceLabel(h) >= Floor)
    BY <2>1, <2>3, <2>5, <2>6, <2>7
  <2> QED  BY <1>0, <1>1, <2>1, <2>4, <2>8, SealedJoin
<1>2. ASSUME NEW i \in Item, NEW label \in Level, Ingest(i, label)
      PROVE  Sealed'
  <2> DEFINE e == Entered(i, Raw(data'), label, None, FALSE)
  <2>1. /\ HandIn /\ i \notin Logged /\ log' = Append(log, e)
        /\ UNCHANGED <<mode, store, caller, build>>
    BY <1>2 DEF Ingest
  <2>2. e \in LogItem /\ e.id = i /\ e.ref = None /\ e.text = Raw(data')
    BY <2>1, FreshText, EnteredIsItem DEF Entered
  <2>3. caller' = Idle
    BY <2>1 DEF HandIn
  <2> HIDE DEF e
  <2> QED  BY <1>1, <2>1, <2>2, <2>3
<1>3. ASSUME NEW i \in Item, NEW label \in Level, IngestOwned(i, label)
      PROVE  Sealed'
  <2> DEFINE e == Entered(i, Summary(Raw(data')), label, i, FALSE)
  <2>1. /\ HandIn /\ i \notin Logged /\ log' = Append(log, e)
        /\ store' = [store EXCEPT ![i] = Raw(data')]
        /\ UNCHANGED <<mode, caller, build>>
    BY <1>3 DEF IngestOwned
  <2>2. e \in LogItem /\ e.id = i /\ e.ref = i /\ e.text = Summary(Raw(data'))
    BY <2>1, FreshText, EnteredIsItem DEF Entered
  <2>3. caller' = Idle
    BY <2>1 DEF HandIn
  <2> HIDE DEF e
  <2> QED  BY <1>1, <2>1, <2>2, <2>3
<1>4. ASSUME NEW i \in Item, IngestEnvelope(i)
      PROVE  Sealed'
  <2> DEFINE e == Entered(i, Summary(Raw(data')), 0, None, TRUE)
  <2>1. /\ HandIn /\ i \notin Logged /\ log' = Append(log, e)
        /\ UNCHANGED <<mode, store, caller, build>>
    BY <1>4 DEF IngestEnvelope
  <2>2. e \in LogItem /\ e.id = i /\ e.ref = None /\ e.text = Summary(Raw(data'))
    BY <1>0, <2>1, FreshText, EnteredIsItem DEF Entered
  <2>3. caller' = Idle
    BY <2>1 DEF HandIn
  <2> HIDE DEF e
  <2> QED  BY <1>1, <2>1, <2>2, <2>3
<1>5. ASSUME NEW i \in Item, NEW large \in BOOLEAN, PutResult(i, large)
      PROVE  Sealed'
  <2>1. /\ HandIn /\ store' = [store EXCEPT ![i] = Raw(data')]
        /\ caller' = [id |-> i, text |-> Raw(data'), large |-> large]
        /\ UNCHANGED <<mode, log, build>>
    BY <1>5 DEF PutResult
  <2>2. /\ data' \in Nat \ {0} /\ data' = data + 1 /\ Raw(data').of = data' /\ Masks(Raw(data'))
        /\ \A k \in DOMAIN log : log[k].text.of # data' /\ log[k].text.of <= data
        /\ \A h \in Id : store[h] # None => store[h].of <= data
        /\ \A h \in Id : ~Tells(store[h], data')
    BY <2>1, FreshText
  <2>3. i \in Id /\ store \in [Id -> Text \cup {None}]
    BY DEF Id, IInv, TypeOK
  <2>4. \A h \in Id : store'[h] = IF h = i THEN Raw(data') ELSE store[h]
    BY <2>1, <2>3
  <2>5. \A h \in Id : SourceLabel(h)' = SourceLabel(h)
    BY <2>1 DEF SourceLabel, Owners
  <2>6. TextsKnown'
    <3>1. \A k \in DOMAIN log : log[k].text.of \in Nat
      BY LogTexts DEF IInv
    <3>2. \A h \in Id : store[h] # None => store[h].of \in Nat
      BY <2>3 DEF Text
    <3>3. \A k \in DOMAIN log : Masks(log[k].text) /\ log[k].text.of <= data'
      BY <1>0, <2>2, <3>1 DEF Sealed, TextsKnown
    <3>4. \A h \in Id : store'[h] # None => Masks(store'[h]) /\ store'[h].of <= data'
      BY <1>0, <2>2, <2>4, <3>2 DEF Sealed, TextsKnown
    <3>5. Masks(caller'.text) /\ caller'.text.of \in 1..data'
      BY <2>1, <2>2
    <3> QED  BY <2>1, <3>3, <3>4, <3>5 DEF TextsKnown
  <2>7. \A d \in Nat \ {0}, h \in Id : Tells(store'[h], d) => Tells(store[h], d) \/ (h = i /\ d = data')
    BY <2>2, <2>4 DEF Tells
  <2>8. OneVerdict'
    BY <2>1, <2>2, <2>5, <2>7 DEF Sealed, OneVerdict
  <2>9. Pending'
    <3>1. caller'.id = i /\ caller'.text.of = data'
      BY <2>1, <2>2
    <3>2. ASSUME i \notin Logged
          PROVE  SourceLabel(i) < Floor
      <4>1. \A k \in DOMAIN log : log[k].id # i
        BY <3>2 DEF Logged, IdsOf, ToSet
      <4>2. Owners(i) = {}
        BY <1>0, <2>3, <4>1 DEF Owners, IInv, OwnRefs
      <4> QED  BY <1>0, <4>2 DEF SourceLabel
    <3>3. \A h \in Id : Tells(store'[h], data') => h = i
      BY <2>2, <2>7
    <3>4. Logged' = Logged
      BY <2>1 DEF Logged
    <3> QED  BY <2>1, <2>2, <2>5, <3>1, <3>2, <3>3, <3>4 DEF Pending
  <2>10. Screened'
    BY <2>1 DEF Sealed, Screened, Clean, Entries
  <2> QED  BY <2>6, <2>8, <2>9, <2>10 DEF Sealed
<1>6. CASE AppendResult
  <2>1. /\ caller # Idle /\ caller \in [id : Item, text : Text, large : BOOLEAN] /\ caller' = Idle
        /\ UNCHANGED <<mode, store, build, data>>
    BY <1>6 DEF AppendResult, IInv, TypeOK
  <2>2. CASE Refused
    <3>1. log' = log
      BY <1>6, <2>2 DEF AppendResult
    <3>2. \A h \in Id : SourceLabel(h)' = SourceLabel(h)
      BY <3>1 DEF SourceLabel, Owners
    <3> QED  BY <2>1, <3>1, <3>2 DEF Sealed, TextsKnown, OneVerdict, Pending, Screened, Clean, Entries
  <2>3. CASE ~Refused
    <3> DEFINE text == IF caller.large THEN Summary(caller.text) ELSE caller.text
               e == Entered(caller.id, text, 0, caller.id, FALSE)
    <3>1. /\ caller.text \in Text /\ caller.id \in Item /\ caller.id \notin Logged
          /\ Masks(caller.text) /\ caller.text.of \in 1..data
          /\ \A k \in DOMAIN log : log[k].text.of # caller.text.of
          /\ \A h \in Id : Tells(store[h], caller.text.of) => SourceLabel(h) < Floor
      BY <2>1, <2>3 DEF Refused, Sealed, TextsKnown, Pending
    <3>2. text \in Text /\ Masks(text) /\ text.of = caller.text.of
      BY <3>1 DEF Summary, Text, Form, Masks
    <3>3. log' = Append(log, e)
      BY <1>6, <2>3 DEF AppendResult
    <3> HIDE DEF text
    <3>4. e \in LogItem /\ e.id = caller.id /\ e.ref = caller.id /\ e.text = text /\ e.label = 0
      BY <1>0, <3>1, <3>2, EnteredIsItem DEF Entered
    <3> HIDE DEF e
    <3>5. \A h \in Id : (SourceLabel(h)' >= Floor <=> SourceLabel(h) >= Floor)
      BY <3>1, <3>3, <3>4, OwnersJoin
    <3>6. TextsKnown' /\ Pending'
      <4>1. data' \in Nat /\ data <= data' /\ e.text.of <= data'
        BY <1>0, <2>1, <3>1, <3>2, <3>4
      <4> QED  BY <2>1, <3>1, <3>2, <3>3, <3>4, <4>1, TextsJoin
    <3>7. /\ \A k \in DOMAIN log : log[k].text.of # e.text.of
          /\ \A h \in Id : SourceLabel(h) \in Nat
      BY <1>0, <3>1, <3>2, <3>4, LabelKnown DEF IInv
    <3>8. \A h \in Id : Tells(store'[h], e.text.of) => (SourceLabel(h)' >= Floor <=> e.label >= Floor)
      <4>1. \A h \in Id : Tells(store[h], e.text.of) => ~(SourceLabel(h) >= Floor)
        BY <1>0, <3>1, <3>2, <3>4, <3>7
      <4>2. ~(e.label >= Floor)
        BY <1>0, <3>4
      <4> QED  BY <2>1, <3>5, <4>1, <4>2
    <3> QED  BY <1>0, <2>1, <3>1, <3>3, <3>4, <3>5, <3>6, <3>7, <3>8, SealedJoin
  <2> QED  BY <2>2, <2>3
<1>7. ASSUME NEW h \in Id, NEW s \in Slice, NEW parent \in Item \cup {None}, Drilldown(h, s, parent)
      PROVE  Sealed'
  <2> DEFINE e == [id |-> s, kind |-> "tool_result", parent |-> parent, text |-> store[h],
                   label |-> Inherited(h), ref |-> None, seam |-> FALSE]
  <2>1. /\ log' = Append(log, e) /\ s \notin Logged
        /\ store[h] # None /\ caller = Idle
        /\ UNCHANGED <<mode, store, caller, build, data>>
    BY <1>7 DEF Drilldown
  <2>2. Inherited(h) = SourceLabel(h) /\ SourceLabel(h) \in Level
    BY LabelKnown DEF Inherited, IInv
  <2>3. /\ e \in LogItem /\ e.id = s /\ e.ref = None /\ e.text = store[h] /\ e.label = SourceLabel(h)
        /\ store[h] \in Text
    BY <2>1, <2>2 DEF LogItem, Id, Kind, IInv, TypeOK
  <2> HIDE DEF e
  <2>4. Masks(e.text) /\ e.text.of <= data /\ e.text.of \in Nat
    BY <2>1, <2>3 DEF Sealed, TextsKnown, Text
  <2>5. \A g \in Id : SourceLabel(g)' = SourceLabel(g)
    BY <1>0, <2>1, <2>3, OwnersJoin
  <2>6. TextsKnown' /\ Pending'
    BY <1>0, <2>1, <2>3, <2>4, TextsJoin
  <2>7. /\ \A k \in DOMAIN log : e.text.of # 0 /\ log[k].text.of = e.text.of
              => (log[k].label >= Floor <=> e.label >= Floor)
        /\ \A g \in Id : e.text.of # 0 /\ Tells(store[g], e.text.of)
              => (SourceLabel(g) >= Floor <=> e.label >= Floor)
    BY <2>1, <2>3, <2>4 DEF Sealed, OneVerdict, Tells
  <2> QED  BY <2>1, <2>3, <2>5, <2>6, <2>7, SealedJoin
<1> QED  BY <1>2, <1>3, <1>4, <1>5, <1>6, <1>7 DEF Calls

\* What comes out of the filter, and out of the firewall.
LEMMA FilteredClean ==
  ASSUME IInv, Sealed, NEW e \in Filtered
  PROVE  Clean(e) /\ (e.text.form # "mask" => e \in Entries)
<1>1. CASE e \in {c \in Candidates : ~Sensitive(c)}
  <2>1. e \in Entries /\ ~Sensitive(e)
    BY <1>1 DEF Candidates
  <2>2. PICK k \in DOMAIN log : e = log[k]
    BY <2>1 DEF Entries, ToSet
  <2>3. e \in LogItem /\ Masks(e.text) /\ e.text \in Text /\ e.text.of \in Nat
    BY <2>2, LogTexts DEF IInv, Sealed, TextsKnown
  <2>4. ~(e.label >= Floor) /\ ~(e.text.form = "raw" /\ e.text.of \in Detected)
    BY <2>1 DEF Sensitive
  <2>5. ASSUME e.text.of # 0, NEW j \in DOMAIN log, log[j].text.of = e.text.of
        PROVE  log[j].label < Floor
    <3>1. log[j].label >= Floor <=> e.label >= Floor
      BY <2>2, <2>3, <2>5 DEF Sealed, OneVerdict
    <3>2. log[j].label \in Nat /\ Floor \in Nat
      BY LogTexts, PolicyAssumption DEF LogItem, IInv
    <3> QED  BY <2>4, <3>1, <3>2
  <2> QED  BY <2>1, <2>2, <2>3, <2>4, <2>5 DEF Clean, Masks
<1>2. CASE e \in {Masked(c) : c \in {c \in Candidates : mode.redact /\ Sensitive(c)}}
  <2>1. PICK c \in Entries : e = Masked(c)
    BY <1>2 DEF Candidates
  <2>2. c \in LogItem
    BY <2>1, EntryIsItem DEF IInv
  <2>3. e.text = Mask
    BY <2>1, <2>2 DEF Masked, LogItem
  <2>4. Mask.form = "mask" /\ Mask.of = 0
    BY DEF Mask
  <2> QED  BY <2>3, <2>4 DEF Clean, Masks
<1> QED  BY <1>1, <1>2 DEF Filtered

LEMMA ProcessedClean ==
  ASSUME NEW e \in LogItem, Clean(e)
  PROVE  Clean(Processed(e))
<1> DEFINE t == IF e.text = Mask THEN Mask ELSE Summary(e.text)
<1>1. Processed(e).text = t
  BY DEF Processed, LogItem
<1>2. CASE e.text = Mask
  BY <1>1, <1>2 DEF Clean, Masks, Mask
<1>3. CASE e.text # Mask
  <2>1. t.form = "summary" /\ t.of = e.text.of /\ e.text \in Text
    BY <1>3 DEF Summary, LogItem
  <2>2. e.text.form # "mask"
    <3>1. e.text.form = "mask" => e.text.of = 0
      BY DEF Clean, Masks
    <3>2. e.text = [form |-> e.text.form, of |-> e.text.of]
      BY <2>1 DEF Text
    <3> QED  BY <1>3, <3>1, <3>2 DEF Mask
  <2> QED  BY <1>1, <2>1, <2>2 DEF Clean, Masks
<1> QED  BY <1>2, <1>3

LEMMA BuildSealed ==
  ASSUME IInv, Sealed, Builds
  PROVE  Sealed'
<1>1. Entries \subseteq LogItem
  BY EntryIsItem DEF IInv
<1>2. UNCHANGED <<log, caller, data>>
  BY DEF Builds, Generate, Close, Screen, Firewall, Assemble
<1>3. /\ \A h \in Id : SourceLabel(h)' = SourceLabel(h)
      /\ Entries' = Entries /\ \A e : Clean(e)' <=> Clean(e)
  BY <1>2 DEF SourceLabel, Owners, Entries, Clean
<1>4. ASSUME store' = store
      PROVE  TextsKnown' /\ OneVerdict' /\ Pending'
  BY <1>2, <1>3, <1>4 DEF Sealed, TextsKnown, OneVerdict, Pending, Logged, Entries
<1>5. ASSUME NEW kinds \in Phases, Generate(kinds)
      PROVE  Sealed'
  BY <1>4, <1>5 DEF Generate, Screened, Sealed
<1>6. CASE Close
  <2>1. PICK e \in build.todo :
           build' = [build EXCEPT !.cands = @ \cup Ancestors(e), !.todo = @ \ {e}]
    BY <1>6 DEF Close
  <2>2. build.at = "closing" /\ store' = store /\ build # NoBuild
    BY <1>6 DEF Close, NoBuild
  <2>3. build'.at = "closing"
    BY <2>1, <2>2 DEF IInv, TypeOK, Stage
  <2> QED  BY <1>4, <2>2, <2>3 DEF Screened, Sealed
<1>7. CASE Screen
  <2>1. /\ store' = store
        /\ build'.todo = {e \in Filtered : Fires(e)} /\ build'.items = {e \in Filtered : ~Fires(e)}
    BY <1>7 DEF Screen
  <2>2. Screened'
    BY <1>3, <2>1, FilteredClean DEF Screened, Fires
  <2> QED  BY <1>4, <2>1, <2>2 DEF Sealed
<1>8. CASE Firewall
  <2>1. PICK e \in build.todo :
          /\ store' = [store EXCEPT ![e.id] = e.text]
          /\ build' = IF mode.closed THEN NoBuild
                      ELSE [build EXCEPT !.todo = @ \ {e}, !.items = @ \cup {Processed(e)}]
    BY <1>8 DEF Firewall
  <2>2. /\ build.at = "firewall"
        /\ build \in [at : {"firewall"}, began : Nat, cands : SUBSET Id, todo : SUBSET LogItem,
                      items : SUBSET LogItem]
    BY <1>8 DEF Firewall, IInv, TypeOK, Stage, NoBuild
  <2>3. /\ e \in LogItem /\ e.id \in Id /\ e.text \in Text /\ e.text.of \in Nat /\ Clean(e)
        /\ e.text.form # "mask" => e \in Entries /\ e.ref = None
    BY <2>2 DEF Sealed, Screened, LogItem, Text
  <2>4. \A h \in Id : store'[h] = IF h = e.id THEN e.text ELSE store[h]
    BY <2>1, <2>3 DEF IInv, TypeOK
  <2>5. e.text.of <= data
    <3>1. CASE e.text.form = "mask"
      BY <2>3, <3>1, SizeAssumption DEF Clean, Masks, IInv, TypeOK
    <3>2. CASE e.text.form # "mask"
      BY <2>3, <3>2 DEF Clean, Sealed, TextsKnown
    <3> QED  BY <3>1, <3>2
  <2>6. TextsKnown'
    BY <1>2, <2>3, <2>4, <2>5 DEF Sealed, TextsKnown, Clean
\* Nobody owns the handle, so that what it leads to is public, as the text is.
  <2>7. ASSUME e.text.of # 0
        PROVE  /\ SourceLabel(e.id) < Floor
               /\ \A k \in DOMAIN log : log[k].text.of = e.text.of => log[k].label < Floor
               /\ \E k \in DOMAIN log : log[k].text.of = e.text.of
    <3>1. e \in Entries /\ e.ref = None /\ e.text.form # "mask"
      BY <2>3, <2>7 DEF Clean, Masks
    <3>2. PICK j \in DOMAIN log : e = log[j]
      BY <3>1 DEF Entries, ToSet
    <3>3. Owners(e.id) = {}
      <4> SUFFICES ASSUME NEW k \in DOMAIN log, log[k].ref = e.id PROVE FALSE
        BY DEF Owners
      <4>1. e.id # None
        BY <2>3, IdAssumption
      <4>2. log[k].id = log[j].id
        BY <3>2, <4>1 DEF IInv, OwnRefs
      <4>3. k = j
        BY <4>2 DEF IInv, TypeOK
      <4> QED  BY <3>1, <3>2, <4>1, <4>3
    <3>4. SourceLabel(e.id) = 0
      BY <3>3 DEF SourceLabel
    <3> QED  BY <2>3, <3>1, <3>4, PolicyAssumption DEF Clean
  <2>8. OneVerdict'
    <3> SUFFICES ASSUME NEW d \in Nat \ {0}
                 PROVE  /\ \A j, k \in DOMAIN log : log[j].text.of = d /\ log[k].text.of = d
                              => (log[j].label >= Floor <=> log[k].label >= Floor)
                        /\ \A h \in Id, k \in DOMAIN log : Tells(store'[h], d) /\ log[k].text.of = d
                              => (SourceLabel(h) >= Floor <=> log[k].label >= Floor)
                        /\ \A g, h \in Id : Tells(store'[g], d) /\ Tells(store'[h], d)
                              => (SourceLabel(g) >= Floor <=> SourceLabel(h) >= Floor)
      BY <1>2, <1>3 DEF OneVerdict
    <3>1. /\ \A j, k \in DOMAIN log : log[j].text.of = d /\ log[k].text.of = d
                => (log[j].label >= Floor <=> log[k].label >= Floor)
          /\ \A h \in Id, k \in DOMAIN log : Tells(store[h], d) /\ log[k].text.of = d
                => (SourceLabel(h) >= Floor <=> log[k].label >= Floor)
          /\ \A g, h \in Id : Tells(store[g], d) /\ Tells(store[h], d)
                => (SourceLabel(g) >= Floor <=> SourceLabel(h) >= Floor)
      BY DEF Sealed, OneVerdict
    <3>2. CASE e.text.of # d
      <4>1. \A h \in Id : Tells(store'[h], d) => Tells(store[h], d)
        BY <2>4, <3>2 DEF Tells
      <4> QED  BY <3>1, <4>1
    <3>3. CASE e.text.of = d
      <4>1. /\ \A k \in DOMAIN log : log[k].label \in Nat
            /\ \A h \in Id : SourceLabel(h) \in Nat
            /\ Floor \in Nat
        BY LogTexts, LabelKnown, PolicyAssumption DEF LogItem, IInv
      <4>2. /\ ~(SourceLabel(e.id) >= Floor)
            /\ \A k \in DOMAIN log : log[k].text.of = d => ~(log[k].label >= Floor)
        BY <2>3, <2>7, <3>3, <4>1
      <4>3. PICK j \in DOMAIN log : log[j].text.of = d
        BY <2>7, <3>3
      <4>4. \A h \in Id : Tells(store'[h], d) => ~(SourceLabel(h) >= Floor)
        BY <2>4, <3>1, <4>2, <4>3
      <4> QED  BY <4>2, <4>4
    <3> QED  BY <3>2, <3>3
  <2>9. Pending'
    <3> SUFFICES ASSUME caller # Idle, caller.id \notin Logged, NEW h \in Id, Tells(store'[h], caller.text.of)
                 PROVE  SourceLabel(h) < Floor
      BY <1>2, <1>3 DEF Pending, Sealed, Logged, Entries
    <3>1. caller.text.of # 0 /\ \A k \in DOMAIN log : log[k].text.of # caller.text.of
      BY DEF Sealed, Pending, TextsKnown
    <3>2. e.text.of # caller.text.of
      BY <2>7, <3>1
    <3>3. Tells(store[h], caller.text.of)
      BY <2>4, <3>2 DEF Tells
    <3> QED  BY <3>3 DEF Sealed, Pending
  <2>10. Screened'
    <3>1. CASE build' = NoBuild
      BY <3>1 DEF Screened, NoBuild
    <3>2. CASE build' # NoBuild
      <4>1. build'.todo = build.todo \ {e} /\ build'.items = build.items \cup {Processed(e)}
        BY <2>1, <2>2, <3>2
      <4>2. Clean(Processed(e))
        BY <2>3, ProcessedClean
      <4> QED  BY <1>3, <2>2, <4>1, <4>2 DEF Sealed, Screened
    <3> QED  BY <3>1, <3>2
  <2> QED  BY <2>6, <2>8, <2>9, <2>10 DEF Sealed
<1>9. CASE Assemble
  BY <1>4, <1>9 DEF Assemble, Screened, NoBuild, Sealed
<1> QED  BY <1>5, <1>6, <1>7, <1>8, <1>9 DEF Builds

LEMMA AlwaysSealed == Spec => [](IInv /\ Sealed)
<1>1. IInv /\ Sealed /\ [Next]_vars => Sealed'
  <2>1. ASSUME Sealed, UNCHANGED vars PROVE Sealed'
    <3>1. UNCHANGED <<log, store, caller, build, data>>
      BY <2>1 DEF vars
    <3>2. /\ \A h \in Id : SourceLabel(h)' = SourceLabel(h)
          /\ Entries' = Entries /\ Logged' = Logged /\ \A e : Clean(e)' <=> Clean(e)
      BY <3>1 DEF SourceLabel, Owners, Entries, Logged, Clean
    <3> QED  BY <2>1, <3>1, <3>2 DEF Sealed, TextsKnown, OneVerdict, Pending, Screened
  <2> QED  BY <2>1, CallSealed, BuildSealed DEF Next
<1> QED  BY <1>1, Inductive, InitSealed, PTL DEF Spec

--------------------------------------------------------------------------------
(* Loops over the items *)

\* A recursive function exists when its steps stay in a set.
Iterates(f, N, base, pass) == f[0] = base /\ \A n \in 1..N : f[n] = pass[n][f[n - 1]]

LEMMA Recursion ==
  ASSUME NEW N \in Nat, NEW D, NEW base \in D, NEW pass \in [1..N -> [D -> D]]
  PROVE  \E f \in [0..N -> D] : Iterates(f, N, base, pass)
<1> DEFINE F(f, m) == f \in [0..m -> D] /\ f[0] = base /\ \A n \in 1..m : f[n] = pass[n][f[n - 1]]
           Bad == {m \in 0..N : ~\E f : F(f, m)}
<1>1. Bad = {}
  <2> SUFFICES ASSUME Bad # {} PROVE FALSE
    OBVIOUS
  <2>1. Bad \in SUBSET Nat
    OBVIOUS
  <2>2. PICK m \in Bad : \A k \in Bad : m <= k
    <3> HIDE DEF Bad
    <3> QED  BY <2>1, NatMinimum
  <2>3. m \in 0..N /\ ~\E f : F(f, m)
    OBVIOUS
  <2>4. CASE m = 0
    <3> DEFINE g == [k \in 0..0 |-> base]
    <3>1. F(g, 0)
      OBVIOUS
    <3> QED  BY <2>3, <2>4, <3>1
  <2>5. CASE m # 0
    <3>1. m - 1 \in 0..N /\ m - 1 < m /\ m \in 1..N
      BY <2>3, <2>5
    <3>2. m - 1 \notin Bad
      <4> HIDE DEF Bad
      <4> QED  BY <2>1, <2>2, <3>1
    <3>3. PICK f : F(f, m - 1)
      BY <3>1, <3>2
    <3> DEFINE g == [k \in 0..m |-> IF k = m THEN pass[m][f[m - 1]] ELSE f[k]]
    <3>4. f[m - 1] \in D /\ pass[m][f[m - 1]] \in D
      BY <3>1, <3>3
    <3>5. g \in [0..m -> D] /\ g[0] = base
      BY <2>5, <3>1, <3>3, <3>4
    <3>6. ASSUME NEW n \in 1..m
          PROVE  g[n] = pass[n][g[n - 1]]
      <4>1. n - 1 \in 0..m /\ n - 1 # m /\ n \in 0..m /\ g[n - 1] = f[n - 1]
        BY <3>1
      <4>2. CASE n = m
        BY <4>1, <4>2
      <4>3. CASE n # m
        <5>1. n \in 1..(m - 1) /\ g[n] = f[n]
          BY <3>1, <4>3
        <5> HIDE DEF g
        <5> QED  BY <3>3, <4>1, <5>1
      <4> QED  BY <4>2, <4>3
    <3>7. F(g, m)
      <4> HIDE DEF g
      <4> QED  BY <3>5, <3>6
    <3> QED  BY <2>3, <3>7
  <2> QED  BY <2>4, <2>5
<1>2. N \notin Bad /\ N \in 0..N
  <2> HIDE DEF Bad, F
  <2> QED  BY <1>1
<1>3. PICK f : F(f, N)
  BY <1>2
<1> QED  BY <1>3 DEF Iterates

\* What holds before a loop and is kept by each of its steps holds after all of them.
LEMMA Steps ==
  ASSUME NEW N \in Nat, NEW Good, 0 \in Good, \A n \in 1..N : n - 1 \in Good => n \in Good
  PROVE  N \in Good
<1> DEFINE Bad == {n \in 0..N : n \notin Good}
<1> SUFFICES ASSUME Bad # {} PROVE FALSE
  OBVIOUS
<1>1. Bad \in SUBSET Nat
  OBVIOUS
<1>2. PICK m \in Bad : \A k \in Bad : m <= k
  <2> HIDE DEF Bad
  <2> QED  BY <1>1, NatMinimum
<1>3. m \in 0..N /\ m \notin Good /\ m # 0
  OBVIOUS
<1>4. m - 1 \in 0..N /\ m \in 1..N /\ m - 1 < m
  BY <1>3
<1>5. m - 1 \notin Bad
  <2> HIDE DEF Bad
  <2> QED  BY <1>1, <1>2, <1>4
<1> QED  BY <1>3, <1>4, <1>5

Order(S) == /\ S \in Seq(LogItem)
            /\ \A j, k \in DOMAIN S : S[j].id = S[k].id => j = k

\* Deduplication keeps some of the items, in their order and none twice.
LEMMA DedupKeeps ==
  ASSUME NEW order, Order(order)
  PROVE  Order(Dedup(order)) /\ ToSet(Dedup(order)) \subseteq ToSet(order)
<1> DEFINE N == Len(order)
           D == Seq(LogItem)
           pass == [n \in 1..N |-> [x \in D |-> Keep(x, order[n])]]
           Is(g) == g = [n \in 0..N |-> IF n = 0 THEN <<>> ELSE Keep(g[n - 1], order[n])]
<1>1. /\ N \in Nat /\ DOMAIN order = 1..N
      /\ \A n \in 1..N : order[n] \in LogItem
      /\ \A j, k \in 1..N : order[j].id = order[k].id => j = k
  BY DEF Order
<1> HIDE DEF N
<1>2. \A x \in D, e \in LogItem : Keep(x, e) \in D
  BY DEF Keep
<1>3. pass \in [1..N -> [D -> D]]
  BY <1>1, <1>2
<1>4. PICK f \in [0..N -> D] : f[0] = <<>> /\ \A n \in 1..N : f[n] = Keep(f[n - 1], order[n])
  <2>1. <<>> \in D
    OBVIOUS
  <2>2. PICK f \in [0..N -> D] : f[0] = <<>> /\ \A n \in 1..N : f[n] = pass[n][f[n - 1]]
    <3> DEFINE none == <<>>
    <3>1. N \in Nat /\ none \in D /\ pass \in [1..N -> [D -> D]]
      BY <1>1, <1>3, <2>1
    <3> HIDE DEF D, pass, none
    <3>2. \E f \in [0..N -> D] : Iterates(f, N, none, pass)
      BY <3>1, Recursion
    <3> QED  BY <3>2 DEF none, Iterates
  <2>3. \A n \in 1..N : n - 1 \in 0..N /\ f[n - 1] \in D
    BY <1>1, <2>2
  <2> QED  BY <2>2, <2>3
<1>5. Is(f)
  <2>1. \A n \in 0..N : f[n] = IF n = 0 THEN <<>> ELSE Keep(f[n - 1], order[n])
    BY <1>1, <1>4
  <2>2. f = [n \in 0..N |-> f[n]]
    BY <1>4
  <2> QED  BY <2>1, <2>2
<1> DEFINE once == CHOOSE g : Is(g)
<1>6. Is(once)
  BY <1>5
<1>7. Dedup(order) = once[N]
  BY DEF Dedup, N
<1> HIDE DEF once
<1> DEFINE Good == {n \in 0..N : /\ once[n] \in D
                                 /\ \A j \in DOMAIN once[n] : \E k \in 1..n : once[n][j] = order[k]
                                 /\ \A i, j \in DOMAIN once[n] : once[n][i].id = once[n][j].id => i = j}
<1>8. 0 \in Good
  <2>1. 0 \in 0..N /\ once[0] = <<>> /\ DOMAIN once[0] = {} /\ once[0] \in D
    BY <1>1, <1>6
  <2> QED  BY <2>1
<1>9. ASSUME NEW n \in 1..N, n - 1 \in Good
      PROVE  n \in Good
  <2> DEFINE old == once[n - 1]
             e == order[n]
  <2>1. /\ once[n] = Keep(old, e)
        /\ old \in D /\ \A j \in DOMAIN old : \E k \in 1..(n - 1) : old[j] = order[k]
        /\ \A i, j \in DOMAIN old : old[i].id = old[j].id => i = j
        /\ e \in LogItem /\ n \in 0..N
        /\ \A k \in 1..(n - 1) : order[k].id # e.id /\ k \in 1..n
    BY <1>1, <1>6, <1>9
  <2> HIDE DEF old, e, D
  <2>2. CASE once[n] = old
    BY <2>1, <2>2
  <2>3. CASE once[n] = Append(old, e)
    <3>1. /\ Append(old, e) \in D /\ DOMAIN Append(old, e) = DOMAIN old \cup {Len(old) + 1}
          /\ \A j \in DOMAIN old : Append(old, e)[j] = old[j]
          /\ Append(old, e)[Len(old) + 1] = e
      BY <2>1 DEF D
    <3>2. \A j \in DOMAIN old : old[j].id # e.id
      BY <2>1
    <3>3. e = order[n] /\ n \in 1..n
      BY DEF e
    <3> DEFINE new == Append(old, e)
               l == Len(old) + 1
    <3>4. /\ new \in D /\ DOMAIN new = DOMAIN old \cup {l}
          /\ \A j \in DOMAIN old : new[j] = old[j] /\ new[j].id # e.id
          /\ new[l] = e /\ once[n] = new
      BY <2>3, <3>1, <3>2
    <3> HIDE DEF new, l
    <3>5. \A j \in DOMAIN new : \E k \in 1..n : new[j] = order[k]
      BY <2>1, <3>3, <3>4
    <3>6. \A i, j \in DOMAIN new : new[i].id = new[j].id => i = j
      BY <2>1, <3>4
    <3> QED  BY <2>1, <3>4, <3>5, <3>6
  <2> QED  BY <2>1, <2>2, <2>3 DEF Keep
<1>10. N \in Good
  <2> HIDE DEF Good
  <2> QED  BY <1>1, <1>8, <1>9, Steps
<1> DEFINE d == once[N]
<1>11. /\ d \in Seq(LogItem) /\ \A j \in DOMAIN d : \E k \in 1..N : d[j] = order[k]
       /\ \A i, j \in DOMAIN d : d[i].id = d[j].id => i = j
  BY <1>10
<1> HIDE DEF d
<1>12. Dedup(order) = d
  BY <1>7 DEF d
<1>13. ToSet(d) \subseteq ToSet(order)
  <2> SUFFICES ASSUME NEW j \in DOMAIN d PROVE \E k \in DOMAIN order : d[j] = order[k]
    BY DEF ToSet
  <2> QED  BY <1>1, <1>11
<1> QED  BY <1>11, <1>12, <1>13 DEF Order

Selection == [chosen : SUBSET LogItem, dropped : SUBSET (Id \X {"budget", "kind_limit"}), tokens : Nat]

\* Of the items in S, a selection has each once: chosen, or dropped for one reason.
Sorted(sel, S) ==
    /\ sel \in Selection /\ IsFiniteSet(sel.chosen)
    /\ sel.chosen \subseteq S
    /\ \A d \in sel.dropped : d[1] \in IdsOf(S)
    /\ \A e \in S : e \in sel.chosen \/ \E d \in sel.dropped : d[1] = e.id
    /\ \A e \in sel.chosen, d \in sel.dropped : e.id # d[1]
    /\ \A c, d \in sel.dropped : c[1] = d[1] => c = d

\* What is chosen has been counted and fits.
Fitting(sel, room) ==
    /\ sel.tokens = Tokens(sel.chosen) /\ sel.tokens <= room
    /\ \A kind \in Kind : Cardinality({e \in sel.chosen : e.kind = kind}) <= KindLimit

LEMMA TokensAdd ==
  ASSUME NEW S \in SUBSET LogItem, IsFiniteSet(S), NEW e \in LogItem, e \notin S
  PROVE  /\ Tokens(S) \in Nat
         /\ Tokens(S \cup {e}) = Tokens(S) + Cost[e.text.form]
<1> DEFINE Of(T, f) == {x \in T : x.text.form = f}
           c(T, f) == Cost[f] * Cardinality(Of(T, f))
<1>1. e.text.form \in Form /\ \A f \in Form : Cost[f] \in Nat
  BY SizeAssumption DEF LogItem, Text
<1>2. ASSUME NEW f \in Form
      PROVE  /\ c(S, f) \in Nat
             /\ c(S \cup {e}, f) = c(S, f) + IF e.text.form = f THEN Cost[f] ELSE 0
  <2>1. Of(S, f) \in SUBSET S /\ e \notin Of(S, f)
    OBVIOUS
  <2>2. IsFiniteSet(Of(S, f)) /\ Cardinality(Of(S, f)) \in Nat
    BY <2>1, FS_Subset, FS_CardinalityType
  <2>3. Of(S \cup {e}, f) = IF e.text.form = f THEN Of(S, f) \cup {e} ELSE Of(S, f)
    OBVIOUS
  <2>4. e.text.form = f => Cardinality(Of(S \cup {e}, f)) = Cardinality(Of(S, f)) + 1
    BY <2>1, <2>2, <2>3, FS_AddElement
  <2>5. e.text.form # f => Cardinality(Of(S \cup {e}, f)) = Cardinality(Of(S, f))
    BY <2>3
  <2> HIDE DEF Of
  <2>6. \A a, b \in Nat : a * b \in Nat /\ a * (b + 1) = a * b + a
    OBVIOUS
  <2>7. c(S, f) \in Nat
    BY <1>1, <2>2, <2>6
  <2>8. e.text.form = f => c(S \cup {e}, f) = c(S, f) + Cost[f]
    BY <1>1, <2>2, <2>4, <2>6
  <2>9. e.text.form # f => c(S \cup {e}, f) = c(S, f)
    BY <2>5
  <2> HIDE DEF c
  <2> QED  BY <1>1, <2>7, <2>8, <2>9
<1>3. /\ Tokens(S) = c(S, "raw") + c(S, "summary") + c(S, "mask")
      /\ Tokens(S \cup {e}) = c(S \cup {e}, "raw") + c(S \cup {e}, "summary") + c(S \cup {e}, "mask")
  BY DEF Tokens
<1> HIDE DEF c
<1> QED  BY <1>1, <1>2, <1>3 DEF Form

\* One item more is dropped, or it is chosen.
Taken(sel, new, e, room) ==
    \/ /\ new.chosen = sel.chosen /\ new.tokens = sel.tokens
       /\ \E why \in {"budget", "kind_limit"} : new.dropped = sel.dropped \cup {<<e.id, why>>}
    \/ /\ ~(Chosen(sel, e) >= KindLimit) /\ ~Full(sel, e, room)
       /\ new.chosen = sel.chosen \cup {e} /\ new.tokens = sel.tokens + Cost[e.text.form]
       /\ new.dropped = sel.dropped

LEMMA TakeCases ==
  ASSUME NEW sel \in Selection, NEW room \in Nat, NEW e \in LogItem
  PROVE  Take(sel, e, room) \in Selection /\ Taken(sel, Take(sel, e, room), e, room)
<1> DEFINE new == Take(sel, e, room)
           drop(why) == [sel EXCEPT !.dropped = @ \cup {<<e.id, why>>}]
           choose == [chosen |-> sel.chosen \cup {e}, dropped |-> sel.dropped,
                      tokens |-> sel.tokens + Cost[e.text.form]]
<1>1. e.id \in Id /\ Cost[e.text.form] \in Nat
  BY SizeAssumption DEF LogItem, Text
<1>2. \A why \in {"budget", "kind_limit"} :
         /\ drop(why).chosen = sel.chosen /\ drop(why).tokens = sel.tokens
         /\ drop(why).dropped = sel.dropped \cup {<<e.id, why>>} /\ drop(why) \in Selection
  BY <1>1 DEF Selection
<1>3. /\ choose.chosen = sel.chosen \cup {e} /\ choose.tokens = sel.tokens + Cost[e.text.form]
      /\ choose.dropped = sel.dropped
  BY <1>1 DEF Selection
<1>4. choose \in Selection
  BY <1>1 DEF Selection
<1>5. \/ \E why \in {"budget", "kind_limit"} : new = drop(why)
      \/ ~(Chosen(sel, e) >= KindLimit) /\ ~Full(sel, e, room) /\ new = choose
  BY DEF Take
<1> HIDE DEF new, drop, choose
<1>6. new \in Selection /\ Taken(sel, new, e, room)
  BY <1>2, <1>3, <1>4, <1>5 DEF Taken
<1> QED  BY <1>6 DEF new

LEMMA TakeSorts ==
  ASSUME NEW S \in SUBSET LogItem, NEW sel, NEW room \in Nat, Sorted(sel, S), Fitting(sel, room),
         NEW e \in LogItem, \A x \in S : x.id # e.id
  PROVE  Sorted(Take(sel, e, room), S \cup {e}) /\ Fitting(Take(sel, e, room), room)
<1> DEFINE new == Take(sel, e, room)
<1>1. /\ sel \in Selection /\ IsFiniteSet(sel.chosen) /\ sel.chosen \in SUBSET LogItem
      /\ sel.tokens \in Nat /\ e \notin sel.chosen /\ e \notin S /\ e.id \in Id /\ e.kind \in Kind
      /\ Cost[e.text.form] \in Nat /\ KindLimit \in Nat
      /\ sel.dropped \in SUBSET (Id \X {"budget", "kind_limit"})
  BY SizeAssumption DEF Sorted, Selection, LogItem, Text
<1>0. new \in Selection
  BY <1>1, TakeCases
<1>2. ASSUME new.chosen = sel.chosen, new.tokens = sel.tokens,
             NEW why \in {"budget", "kind_limit"}, new.dropped = sel.dropped \cup {<<e.id, why>>}
      PROVE  Sorted(new, S \cup {e}) /\ Fitting(new, room)
  <2> DEFINE d == <<e.id, why>>
  <2>1. /\ new.chosen = sel.chosen /\ new.tokens = sel.tokens /\ new.dropped = sel.dropped \cup {d}
        /\ new \in Selection
    BY <1>0, <1>2
  <2>2. d[1] = e.id /\ \A c \in sel.dropped : c[1] \in IdsOf(S) /\ c[1] # e.id
    BY DEF Sorted, IdsOf
  <2>3. \A i : i \in IdsOf(S \cup {e}) <=> i \in IdsOf(S) \/ i = e.id
    BY DEF IdsOf
  <2> HIDE DEF new, d
  <2>4. Sorted(new, S \cup {e})
    <3>1. \A x \in sel.chosen : x.id # e.id
      BY DEF Sorted
    <3>2. \A c \in new.dropped : c[1] \in IdsOf(S \cup {e})
      BY <2>1, <2>2, <2>3
    <3>3. \A x \in S \cup {e} : x \in new.chosen \/ \E c \in new.dropped : c[1] = x.id
      BY <2>1, <2>2 DEF Sorted
    <3>4. \A x \in new.chosen, c \in new.dropped : x.id # c[1]
      BY <2>1, <2>2, <3>1 DEF Sorted
    <3>5. \A b, c \in new.dropped : b[1] = c[1] => b = c
      BY <2>1, <2>2 DEF Sorted
    <3>6. new.chosen \subseteq S \cup {e} /\ IsFiniteSet(new.chosen)
      BY <2>1 DEF Sorted
    <3> QED  BY <2>1, <3>2, <3>3, <3>4, <3>5, <3>6 DEF Sorted
  <2>5. Fitting(new, room)
    BY <2>1 DEF Fitting
  <2> QED  BY <2>4, <2>5
<1>3. ASSUME ~(Chosen(sel, e) >= KindLimit), ~Full(sel, e, room),
             new.chosen = sel.chosen \cup {e}, new.tokens = sel.tokens + Cost[e.text.form],
             new.dropped = sel.dropped
      PROVE  Sorted(new, S \cup {e}) /\ Fitting(new, room)
  <2>1. /\ new.chosen = sel.chosen \cup {e} /\ new.tokens = sel.tokens + Cost[e.text.form]
        /\ new.dropped = sel.dropped /\ new \in Selection
    BY <1>0, <1>3
  <2>2. IsFiniteSet(new.chosen)
    BY <1>1, <2>1, FS_AddElement
  <2>3. \A c \in sel.dropped : c[1] \in IdsOf(S) /\ c[1] # e.id
    BY DEF Sorted, IdsOf
  <2>4. IdsOf(S) \subseteq IdsOf(S \cup {e})
    BY DEF IdsOf
  <2>5. new.tokens = Tokens(new.chosen)
    BY <1>1, <2>1, TokensAdd DEF Fitting
  <2>6. new.tokens <= room
    BY <1>1, <1>3, <2>1 DEF Full
  <2>7. ASSUME NEW kind \in Kind
        PROVE  Cardinality({x \in new.chosen : x.kind = kind}) <= KindLimit
    <3> DEFINE T == {x \in sel.chosen : x.kind = kind}
    <3>1. T \in SUBSET sel.chosen /\ e \notin T
      BY <1>1
    <3>2. IsFiniteSet(T) /\ Cardinality(T) \in Nat /\ Cardinality(T) <= KindLimit
      BY <1>1, <3>1, FS_Subset, FS_CardinalityType DEF Fitting
    <3>3. CASE e.kind = kind
      <4>1. {x \in new.chosen : x.kind = kind} = T \cup {e}
        BY <2>1, <3>3
      <4>2. Cardinality(T) < KindLimit
        BY <1>1, <1>3, <3>2, <3>3 DEF Chosen
      <4>3. Cardinality(T \cup {e}) = Cardinality(T) + 1
        BY <3>1, <3>2, FS_AddElement
      <4>4. Cardinality({x \in new.chosen : x.kind = kind}) = Cardinality(T \cup {e})
        BY <4>1
      <4>5. KindLimit \in Nat
        BY <1>1
      <4> QED  BY <3>2, <4>2, <4>3, <4>4, <4>5
    <3>4. CASE e.kind # kind
      <4>1. {x \in new.chosen : x.kind = kind} = T
        BY <2>1, <3>4
      <4> QED  BY <3>2, <4>1
    <3> QED  BY <3>3, <3>4
  <2> HIDE DEF new
  <2>8. Sorted(new, S \cup {e})
    <3>1. \A x \in new.chosen, c \in new.dropped : x.id # c[1]
      BY <2>1, <2>3 DEF Sorted
    <3>2. \A x \in S \cup {e} : x \in new.chosen \/ \E c \in new.dropped : c[1] = x.id
      BY <2>1 DEF Sorted
    <3>3. new.chosen \subseteq S \cup {e} /\ \A c \in new.dropped : c[1] \in IdsOf(S \cup {e})
      BY <2>1, <2>3, <2>4 DEF Sorted
    <3>4. \A b, c \in new.dropped : b[1] = c[1] => b = c
      BY <2>1 DEF Sorted
    <3> QED  BY <2>1, <2>2, <3>1, <3>2, <3>3, <3>4 DEF Sorted
  <2> QED  BY <2>5, <2>6, <2>7, <2>8 DEF Fitting
<1>4. Taken(sel, new, e, room)
  BY <1>1, TakeCases
<1> HIDE DEF new
<1>5. Sorted(new, S \cup {e}) /\ Fitting(new, room)
  BY <1>2, <1>3, <1>4 DEF Taken
<1> QED  BY <1>5 DEF new

LEMMA SelectSorts ==
  ASSUME NEW order, Order(order), NEW room \in Nat
  PROVE  Sorted(Select(order, room), ToSet(order)) /\ Fitting(Select(order, room), room)
<1> DEFINE N == Len(order)
           S(n) == {order[k] : k \in 1..n}
           none == [chosen |-> {}, dropped |-> {}, tokens |-> 0]
           pass == [n \in 1..N |-> [x \in Selection |-> Take(x, order[n], room)]]
           Is(g) == g = [n \in 0..N |-> IF n = 0 THEN none ELSE Take(g[n - 1], order[n], room)]
<1>1. /\ N \in Nat /\ DOMAIN order = 1..N /\ ToSet(order) = S(N)
      /\ \A n \in 1..N : order[n] \in LogItem
      /\ \A j, k \in 1..N : order[j].id = order[k].id => j = k
  BY DEF Order, ToSet
<1> HIDE DEF N
<1>2. \A x \in Selection, e \in LogItem : Take(x, e, room) \in Selection
  BY TakeCases
<1>3. pass \in [1..N -> [Selection -> Selection]]
  BY <1>1, <1>2
<1>4. PICK f \in [0..N -> Selection] : f[0] = none /\ \A n \in 1..N : f[n] = Take(f[n - 1], order[n], room)
  <2>1. none \in Selection
    BY DEF Selection
  <2>2. PICK f \in [0..N -> Selection] : f[0] = none /\ \A n \in 1..N : f[n] = pass[n][f[n - 1]]
    <3>1. N \in Nat /\ none \in Selection /\ pass \in [1..N -> [Selection -> Selection]]
      BY <1>1, <1>3, <2>1
    <3> HIDE DEF pass, none
    <3>2. \E f \in [0..N -> Selection] : Iterates(f, N, none, pass)
      BY <3>1, Recursion
    <3> QED  BY <3>2 DEF Iterates
  <2>3. \A n \in 1..N : n - 1 \in 0..N /\ f[n - 1] \in Selection
    BY <1>1, <2>2
  <2> QED  BY <2>2, <2>3
<1>5. Is(f)
  <2>1. \A n \in 0..N : f[n] = IF n = 0 THEN none ELSE Take(f[n - 1], order[n], room)
    BY <1>1, <1>4
  <2>2. f = [n \in 0..N |-> f[n]]
    BY <1>4
  <2> QED  BY <2>1, <2>2
<1> DEFINE sel == CHOOSE g : Is(g)
<1>6. Is(sel)
  BY <1>5
<1>7. Select(order, room) = sel[N]
  BY DEF Select, N
<1> HIDE DEF sel
<1> DEFINE Good == {n \in 0..N : Sorted(sel[n], S(n)) /\ Fitting(sel[n], room)}
<1>8. 0 \in Good
  <2>1. 0 \in 0..N /\ sel[0] = none /\ S(0) = {}
    BY <1>1, <1>6
  <2>2. none.chosen = {} /\ none.dropped = {} /\ none.tokens = 0 /\ none \in Selection
    BY DEF Selection
  <2>3. Tokens({}) = 0
    <3>1. \A g \in Form : Cost[g] * Cardinality({e \in {} : e.text.form = g}) = 0
      <4>1. \A g : {e \in {} : e.text.form = g} = {}
        OBVIOUS
      <4> QED  BY <4>1, FS_EmptySet, SizeAssumption
    <3> QED  BY <3>1 DEF Tokens, Form
  <2>4. \A kind : {e \in {} : e.kind = kind} = {}
    OBVIOUS
  <2> HIDE DEF none
  <2>5. Sorted(none, {})
    BY <2>2, FS_EmptySet DEF Sorted
  <2>6. Fitting(none, room)
    BY <2>2, <2>3, <2>4, FS_EmptySet, SizeAssumption DEF Fitting
  <2> QED  BY <2>1, <2>5, <2>6
<1>9. ASSUME NEW n \in 1..N, n - 1 \in Good
      PROVE  n \in Good
  <2>1. /\ sel[n] = Take(sel[n - 1], order[n], room) /\ n \in 0..N
        /\ Sorted(sel[n - 1], S(n - 1)) /\ Fitting(sel[n - 1], room)
    <3>1. n \in 0..N /\ n # 0
      BY <1>1
    <3>2. sel[n] = Take(sel[n - 1], order[n], room)
      BY <1>6, <3>1
    <3> HIDE DEF S
    <3> QED  BY <1>9, <3>1, <3>2
  <2>2. /\ S(n - 1) \in SUBSET LogItem /\ order[n] \in LogItem
        /\ \A x \in S(n - 1) : x.id # order[n].id
        /\ S(n) = S(n - 1) \cup {order[n]}
    BY <1>1
  <2> HIDE DEF S
  <2> QED  BY <2>1, <2>2, TakeSorts
<1>10. N \in Good
  <2> HIDE DEF Good
  <2> QED  BY <1>1, <1>8, <1>9, Steps
<1> QED  BY <1>1, <1>7, <1>10

--------------------------------------------------------------------------------
(* The books of a pack *)

\* Who is chosen is chosen once, whoever else of C is dropped is dropped once.
Booked(C, chosen, dropped) ==
    /\ IdsOf(chosen) \subseteq C /\ \A e, f \in chosen : e.id = f.id => e = f
    /\ \A d \in dropped : d[1] \in C \ IdsOf(chosen)
    /\ \A i \in C \ IdsOf(chosen) : \E d \in dropped : d[1] = i
    /\ \A c, d \in dropped : c[1] = d[1] => c = d

LEMMA BooksAddUp ==
  ASSUME NEW C, IsFiniteSet(C), NEW chosen, NEW dropped, Booked(C, chosen, dropped)
  PROVE  /\ Cardinality(chosen) + Cardinality(dropped) = Cardinality(C)
         /\ \A i \in C : Cardinality({e \in chosen : e.id = i} \cup {d \in dropped : d[1] = i}) = 1
<1> DEFINE A == IdsOf(chosen)
           B == C \ A
           f == [e \in chosen |-> e.id]
           g == [d \in dropped |-> d[1]]
<1>1. /\ A \in SUBSET C /\ B \in SUBSET C /\ A \cup B = C /\ A \cap B = {}
      /\ IsFiniteSet(A) /\ IsFiniteSet(B)
      /\ Cardinality(A) \in Nat /\ Cardinality(B) \in Nat
  BY FS_Subset, FS_CardinalityType DEF Booked
<1>2. f \in Injection(chosen, A) /\ f \in Surjection(chosen, A)
  BY DEF Booked, IdsOf, Injection, Surjection, IsInjective
<1>3. g \in Injection(dropped, B) /\ g \in Surjection(dropped, B)
  BY DEF Booked, Injection, Surjection, IsInjective
<1> HIDE DEF f, g
<1>4. Cardinality(chosen) = Cardinality(A)
  BY <1>1, <1>2, FS_Injection
<1>5. Cardinality(dropped) = Cardinality(B)
  BY <1>1, <1>3, FS_Injection
<1>6. Cardinality(A \cup B) = Cardinality(A) + Cardinality(B)
  <2>1. Cardinality(A \cup B) = Cardinality(A) + Cardinality(B) - Cardinality(A \cap B)
    BY <1>1, FS_Union
  <2>2. Cardinality(A \cap B) = 0
    BY <1>1, FS_EmptySet
  <2> QED  BY <1>1, <2>1, <2>2
<1>7. ASSUME NEW i \in C
      PROVE  Cardinality({e \in chosen : e.id = i} \cup {d \in dropped : d[1] = i}) = 1
  <2> DEFINE both == {e \in chosen : e.id = i} \cup {d \in dropped : d[1] = i}
  <2>1. CASE i \in A
    <3>1. PICK e \in chosen : e.id = i
      BY <2>1 DEF IdsOf
    <3>2. both = {e}
      BY <2>1, <3>1 DEF Booked
    <3> QED  BY <3>2, FS_Singleton
  <2>2. CASE i \notin A
    <3>1. PICK d \in dropped : d[1] = i
      BY <2>2 DEF Booked
    <3>2. both = {d}
      BY <2>2, <3>1 DEF Booked, IdsOf
    <3> QED  BY <3>2, FS_Singleton
  <2> QED  BY <2>1, <2>2
<1> QED  BY <1>1, <1>4, <1>5, <1>6, <1>7

\* The stages of a build have every candidate at most once.
Itemized == build.at = "firewall" =>
    /\ \A e, f \in build.todo \cup build.items : e.id = f.id => e = f
    /\ build.todo \cap build.items = {}
    /\ IdsOf(build.todo \cup build.items) \subseteq build.cands

LEMMA LoggedFinite == ASSUME TypeOK PROVE IsFiniteSet(Logged)
<1> DEFINE f == [k \in DOMAIN log |-> log[k].id]
<1>1. log \in Seq(LogItem) /\ DOMAIN log = 1..Len(log) /\ Len(log) \in Nat
  BY DEF TypeOK
<1>2. IsFiniteSet(DOMAIN log)
  BY <1>1, FS_Interval
<1>3. f \in Surjection(DOMAIN log, Logged)
  BY DEF Logged, IdsOf, ToSet, Surjection
<1> HIDE DEF f
<1> QED  BY <1>2, <1>3, FS_Surjection

LEMMA NextItemized == ASSUME IInv, Itemized, [Next]_vars PROVE Itemized'
<1>1. CASE build' = build
  BY <1>1 DEF Itemized
<1>2. CASE build'.at # "firewall"
  BY <1>2 DEF Itemized
<1>3. CASE Screen
  <2>1. /\ build'.todo = {e \in Filtered : Fires(e)} /\ build'.items = {e \in Filtered : ~Fires(e)}
        /\ build'.cands = build.cands
    BY <1>3 DEF Screen
  <2>2. \A e \in Filtered : \E c \in Candidates :
           e.id = c.id /\ ((e = c /\ ~Sensitive(c)) \/ (e = Masked(c) /\ Sensitive(c)))
    <3> SUFFICES ASSUME NEW e \in Filtered
                 PROVE  \E c \in Candidates :
                           e.id = c.id /\ ((e = c /\ ~Sensitive(c)) \/ (e = Masked(c) /\ Sensitive(c)))
      OBVIOUS
    <3> QED  BY EntryIsItem DEF Filtered, Candidates, IInv, LogItem, Masked
  <2>3. \A c, d \in Candidates : c.id = d.id => c = d
    BY DEF Candidates, Entries, ToSet, IInv, TypeOK
  <2>4. \A e, f \in Filtered : e.id = f.id => e = f
    BY <2>2, <2>3
  <2>5. IdsOf(Filtered) \subseteq build.cands
    BY <2>2 DEF IdsOf, Candidates
  <2>6. /\ build'.todo \cup build'.items \subseteq Filtered
        /\ build'.todo \cap build'.items = {}
    BY <2>1
  <2> QED  BY <2>1, <2>4, <2>5, <2>6 DEF Itemized, IdsOf
<1>4. CASE Firewall /\ build'.at = "firewall"
  <2>1. PICK e \in build.todo :
           build' = IF mode.closed THEN NoBuild
                    ELSE [build EXCEPT !.todo = @ \ {e}, !.items = @ \cup {Processed(e)}]
    BY <1>4 DEF Firewall
  <2>2. /\ build.at = "firewall"
        /\ build \in [at : {"firewall"}, began : Nat, cands : SUBSET Id, todo : SUBSET LogItem,
                      items : SUBSET LogItem]
    BY <1>4 DEF Firewall, IInv, TypeOK, Stage, NoBuild
  <2>3. /\ build'.todo = build.todo \ {e} /\ build'.items = build.items \cup {Processed(e)}
        /\ build'.cands = build.cands
    BY <1>4, <2>1, <2>2 DEF NoBuild
  <2>4. e \in LogItem /\ Processed(e).id = e.id
    BY <2>2 DEF Processed, LogItem
  <2>5. /\ \A x, y \in build.todo \cup build.items : x.id = y.id => x = y
        /\ build.todo \cap build.items = {}
        /\ \A x \in build.todo \cup build.items : x.id \in build.cands
    BY <2>2 DEF Itemized, IdsOf
  <2> DEFINE p == Processed(e)
  <2> HIDE DEF p
  <2>6. \A x \in (build.todo \ {e}) \cup build.items : x.id # e.id
    BY <2>5
  <2> QED  BY <2>3, <2>4, <2>5, <2>6 DEF Itemized, IdsOf
<1>5. build' = build \/ build'.at # "firewall" \/ Screen \/ (Firewall /\ build'.at = "firewall")
  <2>1. CASE Calls \/ UNCHANGED vars
    BY <2>1, CallsLeaveBuild DEF vars
  <2>2. CASE \E kinds \in Phases : Generate(kinds)
    BY <2>2 DEF Generate
  <2>3. CASE Close
    <3>1. build.at = "closing" /\ build \in Stage
      BY <2>3 DEF Close, IInv, TypeOK
    <3> QED  BY <2>3, <3>1 DEF Close, Stage, NoBuild
  <2>4. CASE Assemble
    BY <2>4 DEF Assemble, NoBuild
  <2> QED  BY <2>1, <2>2, <2>3, <2>4 DEF Next, Builds
<1> QED  BY <1>1, <1>2, <1>3, <1>4, <1>5

\* An order of the items lists each of them once.
LEMMA OrdersList ==
  ASSUME NEW S \in SUBSET LogItem, IsFiniteSet(S), \A e, f \in S : e.id = f.id => e = f,
         NEW order \in SetToSeqs(S)
  PROVE  Order(order) /\ ToSet(order) = S
<1> DEFINE n == Cardinality(S)
<1>1. n \in Nat /\ IsFiniteSet(1..n) /\ Cardinality(1..n) = n
  BY FS_CardinalityType, FS_Interval
<1>2. order \in [1..n -> S] /\ \A j, k \in 1..n : j # k => order[j] # order[k]
  BY DEF SetToSeqs
<1> HIDE DEF n
<1>3. order \in Injection(1..n, S)
  BY <1>2 DEF Injection, IsInjective
<1>4. Cardinality(1..n) = Cardinality(S)
  BY <1>1 DEF n
<1>5. order \in Surjection(1..n, S)
  BY <1>3, <1>4, FS_Injection
<1>6. DOMAIN order = 1..n /\ order \in Seq(LogItem)
  BY <1>1, <1>2, IsASeq
<1>7. ToSet(order) = S
  BY <1>2, <1>5, <1>6 DEF ToSet, Surjection
<1> QED  BY <1>2, <1>6, <1>7 DEF Order

LEMMA RoomIsNat == ASSUME NEW header \in Headers PROVE Room(header) \in Nat
  BY SizeAssumption DEF Room

\* One reason is given once for each id.
LEMMA DropsOnce ==
  ASSUME NEW ids, NEW reason
  PROVE  /\ \A d \in Drops(ids, reason) : d[1] \in ids
         /\ \A i \in ids : \E d \in Drops(ids, reason) : d[1] = i
         /\ \A c, d \in Drops(ids, reason) : c[1] = d[1] => c = d
<1>1. \A i : <<i, reason>>[1] = i
  OBVIOUS
<1>2. \A d \in Drops(ids, reason) : \E i \in ids : d = <<i, reason>>
  BY DEF Drops
<1>3. \A i \in ids : <<i, reason>> \in Drops(ids, reason)
  BY DEF Drops
<1>4. \A i \in ids : \E d \in Drops(ids, reason) : d[1] = i
  BY <1>1, <1>3
<1>5. \A d \in Drops(ids, reason) : d[1] \in ids /\ d = <<d[1], reason>>
  BY <1>1, <1>2
<1> QED  BY <1>4, <1>5

\* The books of a build: what the selection dropped, the duplicates, and what the
\* sensitivity filter took out.
LEMMA BuildBooks ==
  ASSUME NEW C, NEW shown, IdsOf(shown) \subseteq C, \A e, f \in shown : e.id = f.id => e = f,
         NEW once, once \subseteq shown, NEW sel, Sorted(sel, once)
  PROVE  Booked(C, sel.chosen,
                sel.dropped \cup Drops(IdsOf(shown) \ IdsOf(once), "dedup")
                            \cup Drops(C \ IdsOf(shown), "sensitivity"))
<1> DEFINE dup == Drops(IdsOf(shown) \ IdsOf(once), "dedup")
           hid == Drops(C \ IdsOf(shown), "sensitivity")
           dropped == sel.dropped \cup dup \cup hid
<1>1. /\ \A d \in dup : d[1] \in IdsOf(shown) \ IdsOf(once)
      /\ \A d \in hid : d[1] \in C \ IdsOf(shown)
      /\ \A i \in IdsOf(shown) \ IdsOf(once) : \E d \in dup : d[1] = i
      /\ \A i \in C \ IdsOf(shown) : \E d \in hid : d[1] = i
      /\ \A c, d \in dup : c[1] = d[1] => c = d
      /\ \A c, d \in hid : c[1] = d[1] => c = d
  <2>1. /\ \A d \in dup : d[1] \in IdsOf(shown) \ IdsOf(once)
        /\ \A i \in IdsOf(shown) \ IdsOf(once) : \E d \in dup : d[1] = i
        /\ \A c, d \in dup : c[1] = d[1] => c = d
    BY DropsOnce
  <2>2. /\ \A d \in hid : d[1] \in C \ IdsOf(shown)
        /\ \A i \in C \ IdsOf(shown) : \E d \in hid : d[1] = i
        /\ \A c, d \in hid : c[1] = d[1] => c = d
    BY DropsOnce
  <2> QED  BY <2>1, <2>2
<1>2. /\ sel.chosen \subseteq once
      /\ \A d \in sel.dropped : d[1] \in IdsOf(once) /\ d[1] \notin IdsOf(sel.chosen)
      /\ \A i \in IdsOf(once) \ IdsOf(sel.chosen) : \E d \in sel.dropped : d[1] = i
      /\ \A c, d \in sel.dropped : c[1] = d[1] => c = d
      /\ IdsOf(sel.chosen) \subseteq IdsOf(once) /\ IdsOf(once) \subseteq IdsOf(shown)
  BY DEF Sorted, IdsOf
<1> HIDE DEF dup, hid
<1>3. IdsOf(sel.chosen) \subseteq C /\ \A e, f \in sel.chosen : e.id = f.id => e = f
  BY <1>2
<1>4. \A d \in dropped : d[1] \in C \ IdsOf(sel.chosen)
  BY <1>1, <1>2
<1>5. \A i \in C \ IdsOf(sel.chosen) : \E d \in dropped : d[1] = i
  BY <1>1, <1>2
<1>6. \A c, d \in dropped : c[1] = d[1] => c = d
  BY <1>1, <1>2
<1> QED  BY <1>3, <1>4, <1>5, <1>6 DEF Booked, dup, hid

\* What a build returns is clean, is accounted for, and fits.
LEMMA Assembles ==
  ASSUME IInv, Sealed, Itemized, Assemble
  PROVE  NothingSensitiveShown' /\ Accounted' /\ PackFits'
<1>1. /\ build.at = "firewall" /\ build.todo = {}
      /\ build \in [at : {"firewall"}, began : Nat, cands : SUBSET Id, todo : SUBSET LogItem,
                    items : SUBSET LogItem]
      /\ build # NoBuild
  BY DEF Assemble, IInv, TypeOK, Stage, NoBuild
<1> DEFINE shown == build.items
           C == build.cands
<1>2. /\ shown \in SUBSET LogItem /\ IdsOf(shown) \subseteq C
      /\ \A e, f \in shown : e.id = f.id => e = f
  BY <1>1 DEF Itemized, IdsOf
<1>3. IsFiniteSet(C)
  <2>1. C \in SUBSET Logged
    BY <1>1 DEF IInv, TypeOK
  <2>2. IsFiniteSet(Logged)
    BY LoggedFinite DEF IInv
  <2> QED  BY <2>1, <2>2, FS_Subset
<1>4. IsFiniteSet(shown)
  <2> DEFINE f == [e \in shown |-> e.id]
  <2>1. f \in Injection(shown, C)
    BY <1>2 DEF IdsOf, Injection, IsInjective
  <2> HIDE DEF f
  <2> QED  BY <1>3, <2>1, FS_Injection
<1>5. \A e \in shown : Clean(e)
  BY <1>1 DEF Sealed, Screened
<1>6. PICK order \in Orders, header \in Headers :
         LET once == Dedup(order)
             sel == Select(once, Room(header))
             dropped == sel.dropped \cup Drops(IdsOf(shown) \ IdsOf(ToSet(once)), "dedup")
                                    \cup Drops(C \ IdsOf(shown), "sensitivity")
             result == IF Cardinality(sel.chosen) + Cardinality(dropped) # Cardinality(C)
                       THEN "unaccounted"
                       ELSE IF mode.strict /\ \E i \in Id : <<i, "budget">> \in dropped THEN "overflow"
                       ELSE "rendered"
         IN  pack' = [result |-> result, chosen |-> sel.chosen, dropped |-> dropped,
                      cands |-> C, began |-> build.began, header |-> header]
  BY DEF Assemble
<1> DEFINE once == Dedup(order)
           sel == Select(once, Room(header))
           dropped == sel.dropped \cup Drops(IdsOf(shown) \ IdsOf(ToSet(once)), "dedup")
                                  \cup Drops(C \ IdsOf(shown), "sensitivity")
           unbalanced == Cardinality(sel.chosen) + Cardinality(dropped) # Cardinality(C)
<1>7. /\ pack'.chosen = sel.chosen /\ pack'.dropped = dropped /\ pack'.cands = C
      /\ pack'.header = header
      /\ ~unbalanced => pack'.result # "unaccounted"
  BY <1>6
<1> HIDE DEF shown
<1>8. Order(order) /\ ToSet(order) = shown
  BY <1>2, <1>4, OrdersList DEF Orders, shown
<1>9. Order(once) /\ ToSet(once) \subseteq shown
  BY <1>8, DedupKeeps
<1> HIDE DEF once
<1>10. Sorted(sel, ToSet(once)) /\ Fitting(sel, Room(header))
  BY <1>9, RoomIsNat, SelectSorts
<1> HIDE DEF sel
<1>11. Booked(C, sel.chosen, dropped)
  BY <1>2, <1>9, <1>10, BuildBooks
<1> HIDE DEF dropped, C
<1>12. /\ Cardinality(sel.chosen) + Cardinality(dropped) = Cardinality(C)
       /\ \A i \in C : Cardinality({e \in sel.chosen : e.id = i} \cup {d \in dropped : d[1] = i}) = 1
  BY <1>3, <1>11, BooksAddUp
<1>13. Accounted'
  BY <1>7, <1>12 DEF Accounted
<1>14. PackFits'
  <2>1. Tokens(sel.chosen) <= Room(header)
    BY <1>10 DEF Fitting
  <2>2. \A kind \in Kind : Cardinality({e \in sel.chosen : e.kind = kind}) <= KindLimit
    BY <1>10 DEF Fitting
  <2> QED  BY <1>7, <2>1, <2>2 DEF PackFits
<1>15. NothingSensitiveShown'
  <2>1. \A e \in sel.chosen : Clean(e)
    BY <1>5, <1>9, <1>10 DEF Sorted
  <2>2. log' = log
    BY DEF Assemble
  <2> QED  BY <1>7, <2>1, <2>2 DEF NothingSensitiveShown, Clean
<1> QED  BY <1>13, <1>14, <1>15

\* Every other step returns no pack.
LEMMA OtherSteps == Next => Assemble \/ pack' = None
  BY DEF Next, Calls, Builds, Ingest, IngestOwned, IngestEnvelope, PutResult, AppendResult,
         Drilldown, Generate, Close, Screen, Firewall

--------------------------------------------------------------------------------
(* The dependency closure *)

\* The parent of an item of the log is an item of its own or None.
LEMMA EntryOf ==
  ASSUME TypeOK, NEW i \in Logged
  PROVE  Entry(i) \in Entries /\ Entry(i).id = i /\ Entry(i).parent \in Item \cup {None}
<1>1. \E e \in ToSet(log) : e.id = i
  BY DEF Logged, IdsOf
<1>2. Entry(i) \in ToSet(log) /\ Entry(i).id = i
  BY <1>1 DEF Entry
<1> QED  BY <1>2, EntryIsItem DEF Entries, LogItem

\* The way up from an item ends in its last missing ancestor or goes round: in the
\* steps that the log is long it has met every ancestor that is missing.
LEMMA AncestorsClosed ==
  ASSUME TypeOK, NEW e \in LogItem
  PROVE  /\ e.parent \in Missing => e.parent \in Ancestors(e)
         /\ \A i \in Ancestors(e) : Entry(i).parent \in Missing => Entry(i).parent \in Ancestors(e)
<1> DEFINE N == Len(log)
           D == Item \cup {None}
           Up(i) == IF i \in Missing THEN Entry(i).parent ELSE None
           pass == [n \in 1..N |-> [i \in D |-> Up(i)]]
           base == e.parent
           Is(g) == g = [n \in 0..N |-> IF n = 0 THEN e.parent
                                        ELSE IF g[n - 1] \in Missing THEN Entry(g[n - 1]).parent
                                        ELSE None]
<1>1. N \in Nat /\ Missing \subseteq Logged /\ base \in D
  BY DEF Missing, TypeOK, LogItem
<1>2. \A i : Up(i) \in D
  BY <1>1, EntryOf
<1>3. pass \in [1..N -> [D -> D]]
  BY <1>2
<1>4. PICK f \in [0..N -> D] : f[0] = base /\ \A n \in 1..N : f[n] = Up(f[n - 1])
  <2>1. \E f \in [0..N -> D] : Iterates(f, N, base, pass)
    <3> HIDE DEF N, D, pass, base
    <3> QED  BY <1>1, <1>3, Recursion
  <2>2. PICK f \in [0..N -> D] : f[0] = base /\ \A n \in 1..N : f[n] = pass[n][f[n - 1]]
    BY <2>1 DEF Iterates
  <2>3. \A n \in 1..N : n - 1 \in 0..N /\ f[n - 1] \in D
    BY <1>1, <2>2
  <2> QED  BY <2>2, <2>3
<1>5. Is(f)
  <2>1. \A n \in 0..N : f[n] = IF n = 0 THEN e.parent
                               ELSE IF f[n - 1] \in Missing THEN Entry(f[n - 1]).parent ELSE None
    BY <1>1, <1>4
  <2>2. f = [n \in 0..N |-> f[n]]
    BY <1>4
  <2> QED  BY <2>1, <2>2
<1> DEFINE up == CHOOSE g : Is(g)
<1>6. Is(up)
  BY <1>5, Zenon
<1>7. Ancestors(e) = {up[n] : n \in DOMAIN up} \cap Missing
  BY DEF Ancestors
<1> HIDE DEF up
<1>8. /\ DOMAIN up = 0..N /\ up[0] = e.parent
      /\ \A n \in 1..N : up[n] = Up(up[n - 1])
  BY <1>1, <1>6
<1>9. None \notin Missing
  BY <1>1, IdAssumption, EntryIsItem DEF Logged, IdsOf, Entries, LogItem
<1> HIDE DEF N
<1>10. \A n \in 0..N : n # N /\ up[n] \in Missing => Entry(up[n]).parent = up[n + 1]
  <2> SUFFICES ASSUME NEW n \in 0..N, n # N, up[n] \in Missing
               PROVE  Entry(up[n]).parent = up[n + 1]
    OBVIOUS
  <2>1. n + 1 \in 1..N /\ (n + 1) - 1 = n
    BY <1>1
  <2>2. up[n + 1] = Up(up[n])
    BY <1>8, <2>1
  <2> QED  BY <2>2
\* From the end the way has come round to a place it had been in before.
<1>11. up[N] \in Missing => \E n \in 0..N : n # N /\ up[n] = up[N]
  <2> SUFFICES ASSUME up[N] \in Missing
               PROVE  \E n \in 0..N : n # N /\ up[n] = up[N]
    OBVIOUS
  <2>1. \A n \in 0..N : up[n] \in Missing
    <3> DEFINE Good == {k \in 0..N : \A j \in 0..k : up[N - j] \in Missing}
    <3>1. 0 \in Good
      <4>1. \A j \in 0..0 : N - j = N
        BY <1>1
      <4> QED  BY <1>1, <4>1
    <3>2. ASSUME NEW k \in 1..N, k - 1 \in Good PROVE k \in Good
      <4>1. /\ k \in 0..N /\ N - (k - 1) \in 1..N /\ (N - (k - 1)) - 1 = N - k /\ k - 1 \in 0..(k - 1)
            /\ \A j \in 0..k : j \in 0..(k - 1) \/ j = k
        BY <1>1
      <4>2. up[N - (k - 1)] = Up(up[N - k]) /\ up[N - (k - 1)] \in Missing
        BY <1>8, <3>2, <4>1
      <4>3. up[N - k] \in Missing
        BY <1>9, <4>2
      <4> QED  BY <3>2, <4>1, <4>3
    <3>3. N \in Good
      <4> HIDE DEF Good
      <4> QED  BY <1>1, <3>1, <3>2, Steps
    <3> SUFFICES ASSUME NEW n \in 0..N PROVE up[n] \in Missing
      OBVIOUS
    <3>4. N - n \in 0..N /\ N - (N - n) = n
      BY <1>1
    <3> QED  BY <3>3, <3>4
  <2>2. IsFiniteSet(Logged) /\ Cardinality(Logged) <= N
    <3> DEFINE ids == [k \in 1..N |-> log[k].id]
    <3>1. ids \in Surjection(1..N, Logged)
      <4>1. DOMAIN log = 1..N
        BY DEF N, TypeOK
      <4> QED  BY <4>1 DEF Logged, IdsOf, ToSet, Surjection
    <3>2. IsFiniteSet(1..N) /\ Cardinality(1..N) = N
      BY <1>1, FS_Interval
    <3> HIDE DEF ids
    <3> QED  BY <3>1, <3>2, FS_Surjection
  <2>3. IsFiniteSet(0..N) /\ Cardinality(0..N) = N + 1
    BY <1>1, FS_Interval
  <2> DEFINE way == [n \in 0..N |-> up[n]]
  <2>4. way \in [0..N -> Logged]
    BY <1>1, <2>1
  <2>5. PICK x \in 0..N, y \in 0..N : x # y /\ way[x] = way[y]
    <3>1. Cardinality(Logged) < Cardinality(0..N)
      <4>1. Cardinality(Logged) \in Nat
        BY <2>2, FS_CardinalityType
      <4> QED  BY <1>1, <2>2, <2>3, <4>1
    <3> HIDE DEF way
    <3> QED  BY <2>2, <2>3, <2>4, <3>1, FS_PigeonHole
  <2>6. \A a, b \in 0..N : a < b /\ up[a] = up[b] => \E n \in 0..N : n # N /\ up[n] = up[N]
    <3> SUFFICES ASSUME NEW a \in 0..N, NEW b \in 0..N, a < b, up[a] = up[b]
                 PROVE  \E n \in 0..N : n # N /\ up[n] = up[N]
      OBVIOUS
    <3> DEFINE Good == {k \in 0..(N - b) : up[a + k] = up[b + k]}
    <3>1. 0 \in Good /\ N - b \in Nat
      BY <1>1
    <3>2. ASSUME NEW k \in 1..(N - b), k - 1 \in Good PROVE k \in Good
      <4>1. /\ k \in 0..(N - b) /\ a + k \in 1..N /\ b + k \in 1..N
            /\ (a + k) - 1 = a + (k - 1) /\ (b + k) - 1 = b + (k - 1)
        BY <1>1
      <4>2. up[a + k] = Up(up[a + (k - 1)]) /\ up[b + k] = Up(up[b + (k - 1)])
        BY <1>8, <4>1
      <4> QED  BY <3>2, <4>1, <4>2
    <3>3. N - b \in Good
      <4> HIDE DEF Good
      <4> QED  BY <3>1, <3>2, Steps
    <3>4. a + (N - b) \in 0..N /\ a + (N - b) # N /\ b + (N - b) = N
      BY <1>1
    <3> QED  BY <3>3, <3>4
  <2> QED  BY <1>1, <2>5, <2>6
<1>12. e.parent \in Missing => e.parent \in Ancestors(e)
  BY <1>1, <1>7, <1>8
<1>13. \A i \in Ancestors(e) : Entry(i).parent \in Missing => Entry(i).parent \in Ancestors(e)
  <2> SUFFICES ASSUME NEW i \in Ancestors(e), Entry(i).parent \in Missing
               PROVE  Entry(i).parent \in Ancestors(e)
    OBVIOUS
  <2>1. PICK n \in 0..N : n # N /\ i = up[n] /\ i \in Missing
    BY <1>1, <1>7, <1>8, <1>11
  <2>2. Entry(i).parent = up[n + 1] /\ n + 1 \in 0..N
    BY <1>1, <1>10, <2>1
  <2> QED  BY <1>7, <1>8, <2>2
<1> QED  BY <1>12, <1>13

\* Of the items the log had when the build began, the parents of the candidates are
\* candidates, but for those whose turn has not come.
Closing == /\ build.at = "closing" => build.todo \subseteq Entries /\ IdsOf(build.todo) \subseteq build.cands
           /\ build # NoBuild =>
                \A j, k \in 1..build.began :
                    /\ log[j].id \in build.cands /\ log[k].id = log[j].parent
                    /\ build.at = "closing" => log[j] \notin build.todo
                    => log[k].id \in build.cands

\* The log only grows.
LEMMA LogGrows ==
  ASSUME IInv, [Next]_vars
  PROVE  (\A j \in DOMAIN log : log'[j] = log[j] /\ j \in DOMAIN log') /\ Entries \subseteq Entries'
<1>1. log \in Seq(LogItem)
  BY DEF IInv, TypeOK
<1>2. ASSUME NEW e, log' = Append(log, e)
      PROVE  (\A j \in DOMAIN log : log'[j] = log[j] /\ j \in DOMAIN log') /\ Entries \subseteq Entries'
  <2>1. \A j \in DOMAIN log : log'[j] = log[j] /\ j \in DOMAIN log'
    BY <1>1, <1>2
  <2> QED  BY <2>1 DEF Entries, ToSet
<1>3. log' = log => (\A j \in DOMAIN log : log'[j] = log[j] /\ j \in DOMAIN log') /\ Entries \subseteq Entries'
  BY DEF Entries
<1>4. Calls => log' = log \/ \E e : log' = Append(log, e)
  BY DEF Calls, Ingest, IngestOwned, IngestEnvelope, PutResult, AppendResult, Drilldown
<1>5. Builds \/ UNCHANGED vars => log' = log
  BY DEF Builds, Generate, Close, Screen, Firewall, Assemble, vars
<1> QED  BY <1>2, <1>3, <1>4, <1>5 DEF Next

LEMMA NextClosing == ASSUME IInv, Closing, [Next]_vars PROVE Closing'
<1>1. build # NoBuild => build.began \in Nat /\ build.began <= Len(log) /\ Len(log) \in Nat
  BY DEF IInv, TypeOK
<1>2. DOMAIN log = 1..Len(log) /\ \A j, k \in DOMAIN log : log[j].id = log[k].id => j = k
  BY DEF IInv, TypeOK
<1>3. /\ \A j \in DOMAIN log : log'[j] = log[j] /\ j \in DOMAIN log'
      /\ Entries \subseteq Entries'
  BY LogGrows
<1>4. CASE build' = build
  <2>1. build # NoBuild => \A j \in 1..build.began : log'[j] = log[j]
    BY <1>1, <1>2, <1>3
  <2> QED  BY <1>3, <1>4, <2>1 DEF Closing
<1>5. CASE build' = NoBuild
  BY <1>5 DEF Closing, NoBuild
<1>6. ASSUME NEW kinds \in Phases, Generate(kinds)
      PROVE  Closing'
  <2> DEFINE allowed == {e \in Entries : e.kind \in kinds}
  <2>1. /\ build' = [at |-> "closing", began |-> Len(log), todo |-> allowed, cands |-> IdsOf(allowed)]
        /\ log' = log
    BY <1>6 DEF Generate
  <2>2. /\ build'.at = "closing" /\ build'.began = Len(log) /\ build'.todo = allowed
        /\ build'.cands = IdsOf(allowed)
    BY <2>1
  <2>3. \A j \in 1..Len(log) : log[j].id \in IdsOf(allowed) => log[j] \in allowed
    BY <1>2 DEF IdsOf, Entries, ToSet
  <2>4. allowed \subseteq Entries
    OBVIOUS
  <2> HIDE DEF allowed
  <2> QED  BY <2>1, <2>2, <2>3, <2>4 DEF Closing, Entries
<1>7. CASE Close
  <2>1. PICK e \in build.todo :
           build' = [build EXCEPT !.cands = @ \cup Ancestors(e), !.todo = @ \ {e}]
    BY <1>7 DEF Close
  <2>2. /\ build.at = "closing" /\ log' = log
        /\ build \in [at : {"closing"}, began : Nat, cands : SUBSET Id, todo : SUBSET LogItem]
        /\ build # NoBuild
    BY <1>7 DEF Close, IInv, TypeOK, Stage, NoBuild
  <2>3. /\ build'.at = "closing" /\ build'.began = build.began
        /\ build'.cands = build.cands \cup Ancestors(e) /\ build'.todo = build.todo \ {e}
    BY <2>1, <2>2
  <2>4. /\ e \in LogItem /\ e \in Entries
        /\ build.todo \subseteq Entries /\ IdsOf(build.todo) \subseteq build.cands
    BY <2>2 DEF Closing
  <2>5. /\ e.parent \in Missing => e.parent \in Ancestors(e)
        /\ \A i \in Ancestors(e) : Entry(i).parent \in Missing => Entry(i).parent \in Ancestors(e)
        /\ Ancestors(e) \subseteq Missing
    BY <2>4, AncestorsClosed DEF IInv, Ancestors
  <2>6. ASSUME NEW j \in 1..build.began, NEW k \in 1..build.began,
               log[j].id \in build'.cands, log[k].id = log[j].parent, log[j] \notin build'.todo
        PROVE  log[k].id \in build'.cands
    <3>1. j \in DOMAIN log /\ k \in DOMAIN log
      BY <1>1, <1>2, <2>2
    <3>2. log[k].id \in build.cands \/ log[k].id \in Missing
      BY <3>1 DEF Missing, Logged, IdsOf, ToSet
    <3>3. CASE log[j] = e
      BY <2>3, <2>5, <2>6, <3>2, <3>3
    <3>4. CASE log[j] # e /\ log[j].id \in build.cands
      BY <2>2, <2>3, <2>6, <3>4 DEF Closing
    <3>5. CASE log[j].id \in Ancestors(e)
      <4>1. log[j].id \in Logged
        BY <3>1 DEF Logged, IdsOf, ToSet
      <4>2. Entry(log[j].id) = log[j]
        <5>1. Entry(log[j].id) \in Entries /\ Entry(log[j].id).id = log[j].id
          BY <4>1, EntryOf DEF IInv
        <5> QED  BY <1>2, <3>1, <5>1 DEF Entries, ToSet
      <4> QED  BY <2>3, <2>5, <2>6, <3>2, <3>5, <4>2
    <3> QED  BY <2>3, <2>6, <3>3, <3>4, <3>5
  <2>7. build'.todo \subseteq Entries' /\ IdsOf(build'.todo) \subseteq build'.cands
    BY <2>2, <2>3, <2>4 DEF IdsOf, Entries
  <2> QED  BY <2>2, <2>3, <2>6, <2>7 DEF Closing
<1>8. CASE Screen
  <2>1. /\ build'.at = "firewall" /\ build'.began = build.began /\ build'.cands = build.cands
        /\ log' = log /\ build.at = "closing" /\ build.todo = {}
    BY <1>8 DEF Screen
  <2>2. build # NoBuild
    BY <2>1 DEF NoBuild
  <2> QED  BY <2>1, <2>2 DEF Closing
<1>9. CASE Firewall /\ build' # NoBuild
  <2>1. PICK e \in build.todo :
           build' = [build EXCEPT !.todo = @ \ {e}, !.items = @ \cup {Processed(e)}]
    BY <1>9 DEF Firewall
  <2>2. /\ build.at = "firewall" /\ log' = log
        /\ build \in [at : {"firewall"}, began : Nat, cands : SUBSET Id, todo : SUBSET LogItem,
                      items : SUBSET LogItem]
        /\ build # NoBuild
    BY <1>9 DEF Firewall, IInv, TypeOK, Stage, NoBuild
  <2>3. build'.at = "firewall" /\ build'.began = build.began /\ build'.cands = build.cands
    BY <2>1, <2>2
  <2> QED  BY <2>2, <2>3 DEF Closing
<1>10. CASE Assemble
  BY <1>5, <1>10 DEF Assemble
<1>11. CASE Calls \/ UNCHANGED vars
  BY <1>4, <1>11, CallsLeaveBuild DEF vars
<1> QED  BY <1>5, <1>6, <1>7, <1>8, <1>9, <1>10, <1>11 DEF Next, Builds

LEMMA AssemblesClosed == ASSUME IInv, Closing, Assemble PROVE ClosureComplete'
<1>1. build.at = "firewall" /\ log' = log /\ pack'.cands = build.cands /\ pack'.began = build.began
  BY DEF Assemble
<1>2. build # NoBuild
  BY <1>1 DEF NoBuild
<1> QED  BY <1>1, <1>2 DEF Closing, ClosureComplete

PackGood == NothingSensitiveShown /\ Accounted /\ PackFits /\ ClosureComplete

LEMMA PacksGood == Spec => [](IInv /\ Sealed /\ Itemized /\ Closing /\ PackGood)
<1>1. Init => Itemized /\ Closing /\ PackGood
  BY DEF Init, Itemized, Closing, PackGood, NothingSensitiveShown, Accounted, PackFits,
         ClosureComplete, NoBuild
<1>2. IInv /\ Sealed /\ Itemized /\ Closing /\ PackGood /\ [Next]_vars
         => Itemized' /\ Closing' /\ PackGood'
  <2> SUFFICES ASSUME IInv, Sealed, Itemized, Closing, PackGood, [Next]_vars
               PROVE  Itemized' /\ Closing' /\ PackGood'
    OBVIOUS
  <2>1. Itemized' /\ Closing'
    BY NextItemized, NextClosing
  <2>2. CASE Assemble
    BY <2>1, <2>2, Assembles, AssemblesClosed DEF PackGood
  <2>3. CASE pack' = None
    BY <2>1, <2>3 DEF PackGood, NothingSensitiveShown, Accounted, PackFits, ClosureComplete
  <2>4. CASE UNCHANGED vars
    BY <2>1, <2>4 DEF vars, PackGood, NothingSensitiveShown, Accounted, PackFits, ClosureComplete
  <2> QED  BY <2>2, <2>3, <2>4, OtherSteps
<1> QED  BY <1>1, <1>2, AlwaysSealed, PTL DEF Spec

\* No pack shows a text of a datum that an item of the log labels at or above the
\* floor, nor one that the classifier detects: whichever parents the closure adds,
\* handles a drilldown opens and items other callers append during the build.
THEOREM NoLeak == Spec => []NothingSensitiveShown
  BY PacksGood, PTL DEF PackGood

\* Every candidate of a build is chosen or dropped, once, so that the check of
\* build.py never fires, and what is chosen fits the budget and the limits of kinds.
THEOREM PacksBalance == Spec => []PackBalanced
  BY PacksGood, PTL DEF PackGood, PackBalanced, IInv

\* The parent of a candidate that was in the log when the build began is a candidate:
\* however the parents are linked, in circles too, and whatever is appended meanwhile.
THEOREM ParentsTaken == Spec => []ClosureComplete
  BY PacksGood, PTL DEF PackGood

--------------------------------------------------------------------------------
(* What conversations become in the log *)

\* The log takes the longest prefix of a list that has no id twice.
LEMMA IngestedStops ==
  ASSUME NEW S, NEW list \in Seq(S), NEW l, l = Adapters!Ingested(list)
  PROVE  /\ Adapters!IsPrefix(l, list)
         /\ \A i, j \in 1..Len(l) : i # j => l[i].key # l[j].key
         /\ l = list \/ \E i \in 1..Len(l) : l[i].key = list[Len(l) + 1].key
         /\ l \in Seq(S) /\ Len(l) <= Len(list) /\ \A i \in 1..Len(l) : l[i] = list[i]
<1>1. CASE \A i \in 1..Len(list) : Adapters!New(list, i)
  <2>1. l = list
    BY <1>1 DEF Adapters!Ingested
  <2>2. \A i, j \in 1..Len(list) : i < j => list[i].key # list[j].key
    BY <1>1 DEF Adapters!New
  <2>3. \A i, j \in 1..Len(list) : i # j => list[i].key # list[j].key
    BY <2>2
  <2>4. Adapters!IsPrefix(list, list)
    BY DEF Adapters!IsPrefix
  <2> QED  BY <2>1, <2>3, <2>4
<1>2. CASE \E i \in 1..Len(list) : ~Adapters!New(list, i)
  <2> DEFINE Least(i) == ~Adapters!New(list, i) /\ \A j \in 1..(i - 1) : Adapters!New(list, j)
  <2> DEFINE T == {i \in 1..Len(list) : ~Adapters!New(list, i)}
  <2>0. T \in SUBSET Nat /\ T # {}
    BY <1>2
  <2> HIDE DEF T
  <2>1. PICK m \in T : \A y \in T : m <= y
    BY <2>0, NatMinimum
  <2>2. \E i \in 1..Len(list) : Least(i)
    <3>1. \A j \in 1..(m - 1) : Adapters!New(list, j)
      BY <2>1 DEF T
    <3> QED  BY <3>1, <2>1 DEF T
  <2> DEFINE n == CHOOSE i \in 1..Len(list) : Least(i)
  <2>3. n \in 1..Len(list) /\ Least(n)
    BY <2>2
  <2>4. l = SubSeq(list, 1, n - 1)
    BY <1>2 DEF Adapters!Ingested
  <2> HIDE DEF n
  <2>5. l \in Seq(S) /\ Len(l) = n - 1 /\ \A i \in 1..(n - 1) : l[i] = list[i]
    BY <2>3, <2>4
  <2>6. \A i, j \in 1..(n - 1) : i < j => list[i].key # list[j].key
    BY <2>3 DEF Adapters!New
  <2>7. \A i, j \in 1..(n - 1) : i # j => list[i].key # list[j].key
    BY <2>3, <2>6
  <2>8. \E i \in 1..(n - 1) : list[i].key = list[n].key
    BY <2>3 DEF Adapters!New
  <2>9. Adapters!IsPrefix(l, list)
    <3>1. SubSeq(l, 1, Len(l)) = l
      BY <2>3, <2>4, <2>5
    <3> QED  BY <3>1, <2>3, <2>4, <2>5 DEF Adapters!IsPrefix
  <2> QED  BY <2>3, <2>5, <2>7, <2>8, <2>9
<1> QED  BY <1>1, <1>2
--------------------------------------------------------------------------------
(* The messages of the providers *)

Roles == {"system", "user", "assistant", "tool", "model", "function"}
Contents == {"null", "blank", "words", "parts", "joined", "string", "list"}
Kinds == {"policy", "user_turn", "agent_msg", "tool_call", "tool_result"}
Message == [role : Roles, content : Contents, blocks : Seq(Adapters!Block)]
CallKeys == ({"call"} \X CallId) \cup ({"call"} \X CallId \X Nat \X Nat)
Keys == {<<>>} \cup CallKeys \cup ({"result"} \X CallKeys) \cup ({"turn"} \X Nat \X Nat)
Said == [kind : Kinds, key : Keys, parent : Keys, msg : Nat, at : Nat,
         role : Roles, content : Contents, block : Adapters!Block]

MessageType == /\ provider \in Adapters!Provider
               /\ msgs \in Seq(Message)
               /\ items \in Seq(Said)
               /\ open \in Seq(CallKeys)
               /\ step \in {"reading", "read", "rejected"}

IsCall(item) == item.kind = "tool_call"
IsResult(item) == item.kind = "tool_result"
KeyOf(by, item) == IF by = "gemini" THEN <<"call", item.block.name, item.msg, item.at>>
               ELSE <<"call", item.block.name>>

\* Items come from the messages that were read, and what a call is known by from itself.
Sourced ==
    \A i \in 1..Len(items) :
        /\ items[i].msg \in 1..Len(msgs)
        /\ items[i].msg = Len(msgs) => items[i].at <= Len(msgs[Len(msgs)].blocks)
        /\ IsCall(items[i]) <=> items[i].block.type = "call"
        /\ IsCall(items[i]) => items[i].key = KeyOf(provider, items[i])

\* What waits for a result is a call that was read.
Waits == \A k \in 1..Len(open) : \E j \in 1..Len(items) : IsCall(items[j]) /\ items[j].key = open[k]

\* Calls without ids wait in their order, each until its result is there.
OldestFirst ==
    /\ \A i, j \in 1..Len(items) :
         IsCall(items[i]) /\ IsCall(items[j]) /\ items[i].key = items[j].key => i = j
    /\ \A k, l \in 1..Len(open) : k < l =>
         \A i, j \in 1..Len(items) :
           IsCall(items[i]) /\ IsCall(items[j]) /\ items[i].key = open[k] /\ items[j].key = open[l] => i < j
    /\ \A i \in 1..Len(items), k \in 1..Len(open) : IsResult(items[i]) => items[i].parent # open[k]
    /\ \A i, j \in 1..Len(items) :
         IsResult(items[i]) /\ IsResult(items[j]) /\ i # j => items[i].parent # items[j].parent
    /\ \A j \in 1..Len(items) : IsCall(items[j]) =>
         \/ \E k \in 1..Len(open) : open[k] = items[j].key
         \/ \E r \in 1..Len(items) : j < r /\ IsResult(items[r]) /\ items[r].parent = items[j].key

ReadInv == /\ MessageType
           /\ step = "rejected" => items = <<>>
           /\ Sourced
           /\ step # "rejected" => Waits
           /\ step # "rejected" /\ provider = "gemini" => OldestFirst
           /\ Adapters!ThreadsHold

LEMMA BlockKinds ==
  /\ \A b \in Adapters!Block : /\ b.type \in {"text", "call", "result"}
                               /\ b.type # "text" => b.name \in CallId
  /\ Adapters!Blank \in Adapters!Block /\ Adapters!Blank.type = "text"
BY DEF Adapters!Block, Adapters!Blank

LEMMA ReadInit == Adapters!Init => ReadInv
<1> SUFFICES ASSUME Adapters!Init PROVE ReadInv
  OBVIOUS
<1>1. items = <<>> /\ msgs = <<>> /\ open = <<>> /\ step = "reading" /\ provider \in Adapters!Provider
  BY DEF Adapters!Init
<1>2. Len(items) = 0 /\ Len(open) = 0
  BY <1>1
<1>3. MessageType
  BY <1>1 DEF MessageType
<1>4. Sourced /\ Waits /\ OldestFirst /\ Adapters!ThreadsHold
  BY <1>2 DEF Sourced, Waits, OldestFirst, Adapters!ThreadsHold, Adapters!Results
<1> QED  BY <1>1, <1>3, <1>4 DEF ReadInv

\* What joins at the end leaves the rest as it was.
LEMMA JoinsEnd ==
  ASSUME MessageType, NEW x \in Said, items' = Append(items, x)
  PROVE  /\ items' \in Seq(Said) /\ Len(items) \in Nat /\ Len(items') = Len(items) + 1
         /\ \A i \in 1..Len(items) : items'[i] = items[i]
         /\ items'[Len(items) + 1] = x
BY DEF MessageType

LEMMA OldAnswers ==
  ASSUME MessageType, NEW x \in Said, items' = Append(items, x), NEW i \in 1..Len(items)
  PROVE  Adapters!Answers(i)' = Adapters!Answers(i)
<1> DEFINE n == Len(items)
<1>1. n \in Nat /\ Len(items') = n + 1 /\ \A j \in 1..n : items'[j] = items[j]
  BY JoinsEnd
<1> HIDE DEF n
<1>2. i \in 1..n
  BY DEF n
<1>3. \A j \in 1..(i - 1) : items'[j] = items[j]
  BY <1>1, <1>2
<1>4. items'[i] = items[i]
  BY <1>1, <1>2
<1> QED  BY <1>3, <1>4 DEF Adapters!Answers

\* Results of before keep their threads.
LEMMA OldThreads ==
  ASSUME MessageType, Adapters!ThreadsHold, UNCHANGED provider,
         NEW x \in Said, items' = Append(items, x),
         NEW n \in Nat, n = Len(items),
         x.kind = "tool_result" => \A i \in {n + 1} :
           /\ Adapters!Answers(i)' # {}
           /\ provider = "gemini" => \A j \in 1..i :
                /\ j \in Adapters!Results' \ {i} => items'[j].parent # x.parent
                /\ j \in Adapters!Answers(i)' =>
                     \A older \in 1..(j - 1) : items'[older].block = items'[j].block =>
                         \E k \in Adapters!Results' : k < i /\ older \in Adapters!Answers(k)'
  PROVE  Adapters!ThreadsHold'
<1>1. /\ Len(items') = n + 1 /\ \A j \in 1..n : items'[j] = items[j]
      /\ items'[n + 1] = x
  BY JoinsEnd
<1>2. \A i \in 1..n : Adapters!Answers(i)' = Adapters!Answers(i)
  BY OldAnswers
<1>3. /\ Adapters!Results \subseteq 1..n
      /\ \A i \in 1..n : i \in Adapters!Results' <=> i \in Adapters!Results
      /\ \A i \in Adapters!Results' : i \in 1..n \/ (i = n + 1 /\ x.kind = "tool_result")
  BY <1>1 DEF Adapters!Results
<1> SUFFICES ASSUME NEW i \in Adapters!Results'
             PROVE  /\ Adapters!Answers(i)' # {}
                    /\ provider' = "gemini" => \A j \in 1..i :
                         /\ j \in Adapters!Results' \ {i} => items'[j].parent # items'[i].parent
                         /\ j \in Adapters!Answers(i)' =>
                              \A older \in 1..(j - 1) : items'[older].block = items'[j].block =>
                                  \E k \in Adapters!Results' : k < i /\ older \in Adapters!Answers(k)'
  BY DEF Adapters!ThreadsHold
<1>4. CASE i = n + 1 /\ x.kind = "tool_result"
  BY <1>1, <1>4
<1>5. CASE i \in 1..n
  <2>1. i \in Adapters!Results /\ Adapters!Answers(i)' = Adapters!Answers(i)
    BY <1>2, <1>3, <1>5
  <2>2. Adapters!Answers(i) # {}
    BY <2>1 DEF Adapters!ThreadsHold
  <2>3. ASSUME provider = "gemini", NEW j \in 1..i
        PROVE  /\ j \in Adapters!Results' \ {i} => items'[j].parent # items'[i].parent
               /\ j \in Adapters!Answers(i)' =>
                    \A older \in 1..(j - 1) : items'[older].block = items'[j].block =>
                        \E k \in Adapters!Results' : k < i /\ older \in Adapters!Answers(k)'
    <3>1. /\ j \in Adapters!Results \ {i} => items[j].parent # items[i].parent
          /\ j \in Adapters!Answers(i) =>
               \A older \in 1..(j - 1) : items[older].block = items[j].block =>
                   \E k \in Adapters!Results : k < i /\ older \in Adapters!Answers(k)
      BY <2>1, <2>3 DEF Adapters!ThreadsHold
    <3>2. j \in 1..n /\ items'[j] = items[j] /\ items'[i] = items[i]
      BY <1>1, <1>5
    <3>3. \A older \in 1..(j - 1) : items'[older] = items[older]
      BY <1>1, <3>2
    <3>4. \A k \in Adapters!Results : k \in Adapters!Results' /\ Adapters!Answers(k)' = Adapters!Answers(k)
      BY <1>2, <1>3
    <3> QED  BY <1>3, <2>1, <3>1, <3>2, <3>3, <3>4
  <2> QED  BY <2>1, <2>2, <2>3
<1> QED  BY <1>3, <1>4, <1>5

\* The last message is a new one or has as many blocks at least.
Grown == \/ Len(msgs') = Len(msgs) + 1
         \/ /\ Len(msgs') = Len(msgs)
            /\ Len(msgs'[Len(msgs)].blocks) >= Len(msgs[Len(msgs)].blocks)

LEMMA SourcedJoins ==
  ASSUME MessageType, MessageType', Sourced, UNCHANGED provider, Grown,
         NEW x \in Said, items' = Append(items, x),
         x.msg = Len(msgs'), x.msg > 0, x.at <= Len(msgs'[Len(msgs')].blocks),
         x.kind = "tool_call" <=> x.block.type = "call",
         x.kind = "tool_call" => x.key = KeyOf(provider, x)
  PROVE  Sourced'
<1> DEFINE n == Len(items)
<1>1. /\ n \in Nat /\ Len(items') = n + 1 /\ \A j \in 1..n : items'[j] = items[j]
      /\ items'[n + 1] = x
  BY JoinsEnd
<1>2. Len(msgs) \in Nat /\ Len(msgs') \in Nat
  BY DEF MessageType
<1>3. /\ \A i \in 1..n : IsCall(items'[i]) <=> IsCall(items[i])
      /\ IsCall(items'[n + 1]) <=> x.kind = "tool_call"
  BY <1>1 DEF IsCall
<1>4. ASSUME NEW i \in 1..n
      PROVE  /\ items'[i].msg \in 1..Len(msgs')
             /\ items'[i].msg = Len(msgs') => items'[i].at <= Len(msgs'[Len(msgs')].blocks)
             /\ IsCall(items'[i]) <=> items'[i].block.type = "call"
             /\ IsCall(items'[i]) => items'[i].key = KeyOf(provider, items'[i])
  <2>1. /\ items[i].msg \in 1..Len(msgs)
        /\ items[i].msg = Len(msgs) => items[i].at <= Len(msgs[Len(msgs)].blocks)
        /\ IsCall(items[i]) <=> items[i].block.type = "call"
        /\ IsCall(items[i]) => items[i].key = KeyOf(provider, items[i])
    BY <1>4 DEF Sourced
  <2>2. items'[i] = items[i]
    BY <1>1
  <2>3. items[i] \in Said
    BY DEF MessageType
  <2>4. items[i].at \in Nat /\ items[i].msg \in Nat
    BY <2>3 DEF Said
  <2>5. CASE Len(msgs') = Len(msgs) + 1
    BY <1>2, <1>3, <2>1, <2>2, <2>5
  <2>6. CASE Len(msgs') = Len(msgs) /\ Len(msgs'[Len(msgs)].blocks) >= Len(msgs[Len(msgs)].blocks)
    <3>1. msgs'[Len(msgs)] \in Message /\ msgs[Len(msgs)] \in Message
      BY <1>2, <2>1, <2>6 DEF MessageType
    <3>2. Len(msgs'[Len(msgs)].blocks) \in Nat /\ Len(msgs[Len(msgs)].blocks) \in Nat
      BY <3>1 DEF Message
    <3> QED  BY <1>2, <1>3, <2>1, <2>2, <2>4, <2>6, <3>2
  <2> QED  BY <2>5, <2>6 DEF Grown
<1>5. /\ items'[n + 1].msg \in 1..Len(msgs')
      /\ items'[n + 1].msg = Len(msgs') => items'[n + 1].at <= Len(msgs'[Len(msgs')].blocks)
      /\ IsCall(items'[n + 1]) <=> items'[n + 1].block.type = "call"
      /\ IsCall(items'[n + 1]) => items'[n + 1].key = KeyOf(provider, items'[n + 1])
  BY <1>1, <1>2, <1>3
<1>7. \A i \in 1..Len(items') : /\ i \in 1..n \/ i = n + 1
                                /\ items'[i] \in Said
  BY <1>1 DEF MessageType
<1> HIDE DEF n
<1> SUFFICES ASSUME NEW i \in 1..Len(items')
             PROVE  /\ items'[i].msg \in 1..Len(msgs')
                    /\ items'[i].msg = Len(msgs') => items'[i].at <= Len(msgs'[Len(msgs')].blocks)
                    /\ IsCall(items'[i]) <=> items'[i].block.type = "call"
                    /\ IsCall(items'[i]) => items'[i].key = KeyOf(provider', items'[i])
  BY DEF Sourced
<1> QED  BY <1>4, <1>5, <1>7

\* A text or a turn has nothing to do with threads.
LEMMA TextJoins ==
  ASSUME ReadInv, MessageType', Sourced', UNCHANGED <<provider, open, step>>, step = "reading",
         NEW x \in Said, items' = Append(items, x), x.kind \notin {"tool_call", "tool_result"}
  PROVE  ReadInv'
<1> DEFINE n == Len(items)
<1>1. /\ n \in Nat /\ Len(items') = n + 1 /\ \A j \in 1..n : items'[j] = items[j]
      /\ items'[n + 1] = x
  BY JoinsEnd DEF ReadInv
<1>2. Adapters!ThreadsHold'
  BY <1>1, OldThreads DEF ReadInv
<1>3. /\ \A i \in 1..n : (IsCall(items'[i]) <=> IsCall(items[i])) /\ (IsResult(items'[i]) <=> IsResult(items[i]))
      /\ ~IsCall(items'[n + 1]) /\ ~IsResult(items'[n + 1])
  BY <1>1 DEF IsCall, IsResult
<1>4. Waits'
  <2>1. \A k \in 1..Len(open) : \E j \in 1..n : IsCall(items[j]) /\ items[j].key = open[k]
    BY DEF ReadInv, Waits
  <2> QED  BY <1>1, <1>3, <2>1 DEF Waits
<1>5. provider = "gemini" => OldestFirst'
  <2> HAVE provider = "gemini"
  <2> OldestFirst
    BY DEF ReadInv
  <2> HIDE DEF n
  <2>0. \A i \in 1..Len(items') : i \in 1..n \/ i = n + 1
    BY <1>1
  <2>00. n = Len(items)
    BY DEF n
  <2>1. \A k, l \in 1..Len(open') : k < l =>
         \A i, j \in 1..Len(items') :
           IsCall(items'[i]) /\ IsCall(items'[j]) /\ items'[i].key = open'[k] /\ items'[j].key = open'[l] => i < j
    BY <1>1, <1>3, <2>0, <2>00 DEF OldestFirst
  <2>2. \A i \in 1..Len(items'), k \in 1..Len(open') : IsResult(items'[i]) => items'[i].parent # open'[k]
    BY <1>1, <1>3, <2>0, <2>00 DEF OldestFirst
  <2>3. \A i, j \in 1..Len(items') :
         IsResult(items'[i]) /\ IsResult(items'[j]) /\ i # j => items'[i].parent # items'[j].parent
    BY <1>1, <1>3, <2>0, <2>00 DEF OldestFirst
  <2>4. ASSUME NEW j \in 1..Len(items'), IsCall(items'[j])
        PROVE  \/ \E k \in 1..Len(open') : open'[k] = items'[j].key
               \/ \E r \in 1..Len(items') : j < r /\ IsResult(items'[r]) /\ items'[r].parent = items'[j].key
    <3>1. j \in 1..n /\ IsCall(items[j]) /\ items'[j] = items[j]
      BY <1>1, <1>3, <2>0, <2>4
    <3>2. \/ \E k \in 1..Len(open) : open[k] = items[j].key
          \/ \E r \in 1..n : j < r /\ IsResult(items[r]) /\ items[r].parent = items[j].key
      BY <2>00, <3>1 DEF OldestFirst
    <3> QED  BY <1>1, <1>3, <3>1, <3>2
  <2>5. \A i, j \in 1..Len(items') :
         IsCall(items'[i]) /\ IsCall(items'[j]) /\ items'[i].key = items'[j].key => i = j
    BY <1>1, <1>3, <2>0, <2>00 DEF OldestFirst
  <2> QED  BY <2>1, <2>2, <2>3, <2>4, <2>5 DEF OldestFirst
<1> QED  BY <1>2, <1>4, <1>5 DEF ReadInv

\* Without ids a new call is like no other.
LEMMA FreshKey ==
  ASSUME MessageType, Sourced, provider = "gemini", NEW i \in 1..Len(items), IsCall(items[i]),
         Len(msgs) > 0, NEW x \in Said, x.key = KeyOf(provider, x), x.msg = Len(msgs),
         x.at = Len(msgs[Len(msgs)].blocks) + 1
  PROVE  items[i].key # x.key
<1>1. Len(msgs) \in Nat /\ msgs[Len(msgs)] \in Message
  BY DEF MessageType
<1>2. Len(msgs[Len(msgs)].blocks) \in Nat /\ items[i] \in Said
  BY <1>1 DEF Message, MessageType
<1>3. items[i].msg # x.msg \/ items[i].at # x.at
  BY <1>1, <1>2 DEF Sourced, Said
<1>4. items[i].key = <<"call", items[i].block.name, items[i].msg, items[i].at>>
  BY DEF Sourced, KeyOf
<1>5. x.key = <<"call", x.block.name, x.msg, x.at>>
  BY DEF KeyOf
<1> HIDE DEF Said
<1> QED  BY <1>3, <1>4, <1>5

\* A call waits behind the others.
LEMMA CallJoins ==
  ASSUME ReadInv, MessageType', Sourced', UNCHANGED <<provider, step>>, step = "reading",
         NEW x \in Said, items' = Append(items, x), x.kind = "tool_call",
         open' = Append(open, x.key), x.key \in CallKeys,
         provider = "gemini" =>
           \A i \in 1..Len(items) : IsCall(items[i]) => items[i].key # x.key
  PROVE  ReadInv'
<1> DEFINE n == Len(items)
           m == Len(open)
<1>1. /\ n \in Nat /\ Len(items') = n + 1 /\ \A j \in 1..n : items'[j] = items[j]
      /\ items'[n + 1] = x
  BY JoinsEnd DEF ReadInv
<1>2. /\ m \in Nat /\ Len(open') = m + 1 /\ \A k \in 1..m : open'[k] = open[k]
      /\ open'[m + 1] = x.key
  BY DEF ReadInv, MessageType
<1>3. Adapters!ThreadsHold'
  BY <1>1, OldThreads DEF ReadInv
<1>4. n = Len(items) /\ m = Len(open) /\ Waits
  BY DEF ReadInv
<1> HIDE DEF n, m
<1>5. /\ \A i \in 1..Len(items') : i \in 1..n \/ i = n + 1
      /\ \A k \in 1..Len(open') : k \in 1..m \/ k = m + 1
      /\ \A i \in 1..n : i \in 1..Len(items') /\ i # n + 1
      /\ n + 1 \in 1..Len(items') /\ m + 1 \in 1..Len(open')
      /\ IsCall(items'[n + 1]) /\ ~IsResult(items'[n + 1])
  BY <1>1, <1>2 DEF IsCall, IsResult
<1>6. Waits'
  <2> SUFFICES ASSUME NEW k \in 1..Len(open')
               PROVE  \E j \in 1..Len(items') : IsCall(items'[j]) /\ items'[j].key = open'[k]
    BY DEF Waits
  <2>1. CASE k = m + 1
    BY <1>1, <1>2, <1>5, <2>1
  <2>2. CASE k \in 1..m
    <3>1. PICK j \in 1..n : IsCall(items[j]) /\ items[j].key = open[k]
      BY <1>4, <2>2 DEF Waits
    <3> QED  BY <1>1, <1>2, <1>5, <2>2, <3>1
  <2> QED  BY <1>5, <2>1, <2>2
<1>7. provider = "gemini" => OldestFirst'
  <2> HAVE provider = "gemini"
  <2>1. OldestFirst
    BY DEF ReadInv
  <2>2. \A i \in 1..n : IsCall(items[i]) => items[i].key # x.key
    BY <1>4
  <2>3. \A k \in 1..m : open[k] # x.key
    BY <1>4, <2>2 DEF Waits
  <2>4. \A i, j \in 1..Len(items') :
         IsCall(items'[i]) /\ IsCall(items'[j]) /\ items'[i].key = items'[j].key => i = j
    BY <1>1, <1>4, <1>5, <2>1, <2>2 DEF OldestFirst
  <2>5. ASSUME NEW k \in 1..Len(open'), NEW l \in 1..Len(open'), k < l,
               NEW i \in 1..Len(items'), NEW j \in 1..Len(items'),
               IsCall(items'[i]), IsCall(items'[j]), items'[i].key = open'[k], items'[j].key = open'[l]
        PROVE  i < j
    <3>1. k \in 1..m
      BY <1>2, <1>5, <2>5
    <3>2. i \in 1..n
      BY <1>1, <1>2, <1>5, <2>3, <2>5, <3>1
    <3>3. CASE l = m + 1
      BY <1>1, <1>2, <1>5, <2>2, <2>5, <3>2, <3>3
    <3>4. CASE l \in 1..m
      <4>1. j \in 1..n
        BY <1>1, <1>2, <1>5, <2>3, <2>5, <3>4
      <4> QED  BY <1>1, <1>2, <1>4, <2>1, <2>5, <3>1, <3>2, <3>4, <4>1 DEF OldestFirst
    <3> QED  BY <1>5, <3>3, <3>4
  <2>6. ASSUME NEW i \in 1..Len(items'), NEW k \in 1..Len(open'), IsResult(items'[i])
        PROVE  items'[i].parent # open'[k]
    <3>1. i \in 1..n /\ items'[i] = items[i] /\ IsResult(items[i])
      BY <1>1, <1>5, <2>6
    <3>2. CASE k \in 1..m
      BY <1>2, <1>4, <2>1, <3>1, <3>2 DEF OldestFirst
    <3>3. CASE k = m + 1
      <4>1. i \in Adapters!Results
        BY <1>4, <3>1 DEF Adapters!Results, IsResult
      <4>2. PICK j \in Adapters!Answers(i) : TRUE
        BY <4>1 DEF ReadInv, Adapters!ThreadsHold
      <4>3. j \in 1..n /\ IsCall(items[j]) /\ items[j].key = items[i].parent
        BY <1>1, <3>1, <4>2 DEF Adapters!Answers, IsCall
      <4> QED  BY <1>2, <2>2, <3>1, <3>3, <4>3
    <3> QED  BY <1>5, <3>2, <3>3
  <2>7. \A i, j \in 1..Len(items') :
         IsResult(items'[i]) /\ IsResult(items'[j]) /\ i # j => items'[i].parent # items'[j].parent
    BY <1>1, <1>4, <1>5, <2>1 DEF OldestFirst
  <2>8. ASSUME NEW j \in 1..Len(items'), IsCall(items'[j])
        PROVE  \/ \E k \in 1..Len(open') : open'[k] = items'[j].key
               \/ \E r \in 1..Len(items') :
                    j < r /\ IsResult(items'[r]) /\ items'[r].parent = items'[j].key
    <3>1. CASE j = n + 1
      BY <1>1, <1>2, <1>5, <3>1
    <3>2. CASE j \in 1..n
      <4>1. \/ \E k \in 1..m : open[k] = items[j].key
            \/ \E r \in 1..n : j < r /\ IsResult(items[r]) /\ items[r].parent = items[j].key
        BY <1>1, <1>4, <2>1, <2>8, <3>2 DEF OldestFirst
      <4>2. \A k \in 1..m : k \in 1..Len(open')
        BY <1>2
      <4> QED  BY <1>1, <1>2, <1>5, <3>2, <4>1, <4>2
    <3> QED  BY <1>5, <3>1, <3>2
  <2>9. \A k, l \in 1..Len(open') : k < l =>
          \A i, j \in 1..Len(items') :
            IsCall(items'[i]) /\ IsCall(items'[j]) /\ items'[i].key = open'[k] /\ items'[j].key = open'[l]
              => i < j
    BY <2>5
  <2>10. \A i \in 1..Len(items'), k \in 1..Len(open') :
           IsResult(items'[i]) => items'[i].parent # open'[k]
    BY <2>6
  <2> QED  BY <2>4, <2>7, <2>8, <2>9, <2>10 DEF OldestFirst
<1> QED  BY <1>3, <1>6, <1>7 DEF ReadInv

LEMMA Removed ==
  ASSUME NEW R, NEW s \in Seq(R), NEW k \in 1..Len(s)
  PROVE  LET t == Adapters!RemoveAt(s, k)
         IN /\ t \in Seq(R) /\ Len(t) = Len(s) - 1
            /\ \A i \in 1..Len(t) : t[i] = IF i < k THEN s[i] ELSE s[i + 1]
<1>1. Len(s) \in Nat /\ k \in Nat
  OBVIOUS
<1> DEFINE a == SubSeq(s, 1, k - 1)
           b == SubSeq(s, k + 1, Len(s))
<1>2. /\ a \in Seq(R) /\ Len(a) = k - 1 /\ \A i \in 1..(k - 1) : a[i] = s[i]
      /\ b \in Seq(R) /\ Len(b) = Len(s) - k /\ \A i \in 1..(Len(s) - k) : b[i] = s[i + k]
  BY <1>1, SubSeqProperties
<1>3. Adapters!RemoveAt(s, k) = a \o b
  BY DEF Adapters!RemoveAt
<1> HIDE DEF a, b
<1>4. /\ a \o b \in Seq(R) /\ Len(a \o b) = Len(a) + Len(b)
      /\ \A i \in 1..(Len(a) + Len(b)) : (a \o b)[i] = IF i <= Len(a) THEN a[i] ELSE b[i - Len(a)]
  BY <1>2, ConcatProperties
<1>5. Len(a \o b) = Len(s) - 1
  BY <1>1, <1>2, <1>4
<1>6. ASSUME NEW i \in 1..(Len(s) - 1) PROVE (a \o b)[i] = IF i < k THEN s[i] ELSE s[i + 1]
  <2>1. CASE i < k
    BY <1>1, <1>2, <1>4, <2>1
  <2>2. CASE ~(i < k)
    <3>1. i - (k - 1) \in 1..(Len(s) - k) /\ (i - (k - 1)) + k = i + 1
      BY <1>1, <2>2
    <3>2. (a \o b)[i] = b[i - (k - 1)]
      BY <1>1, <1>2, <1>4, <2>2
    <3> QED  BY <1>2, <2>2, <3>1, <3>2
  <2> QED  BY <2>1, <2>2
<1> QED  BY <1>3, <1>4, <1>5, <1>6

\* The place in the queue of what is at k once place p is gone.
Was(k, p) == IF k < p THEN k ELSE k + 1

\* A result takes the oldest call of its name, for good where calls have no ids.
LEMMA ResultJoins ==
  ASSUME ReadInv, MessageType', Sourced', UNCHANGED <<provider, step>>, step = "reading",
         NEW x \in Said, items' = Append(items, x), x.kind = "tool_result",
         NEW p \in 1..Len(open), x.parent = open[p], x.block.name = open[p][2],
         \A k \in 1..Len(open) : open[k][2] = open[p][2] => p <= k,
         open' = IF provider = "gemini" THEN Adapters!RemoveAt(open, p) ELSE open
  PROVE  ReadInv'
<1> DEFINE n == Len(items)
           m == Len(open)
<1>1. /\ n \in Nat /\ Len(items') = n + 1 /\ \A j \in 1..n : items'[j] = items[j]
      /\ items'[n + 1] = x
  BY JoinsEnd DEF ReadInv
<1>2. n = Len(items) /\ m = Len(open) /\ m \in Nat /\ Waits /\ Sourced
  BY DEF ReadInv, MessageType
<1>3. PICK was \in [1..Len(open') -> 1..m] :
        /\ \A k \in 1..Len(open') : open'[k] = open[was[k]]
        /\ \A k, l \in 1..Len(open') : k < l => was[k] < was[l]
        /\ provider = "gemini" => /\ \A k \in 1..Len(open') : was[k] # p
                                  /\ \A k \in 1..m : k # p => \E l \in 1..Len(open') : was[l] = k
  <2>1. CASE provider # "gemini"
    <3> DEFINE w == [k \in 1..m |-> k]
    <3>1. Len(open') = m /\ open' = open
      BY <2>1
    <3>2. /\ w \in [1..Len(open') -> 1..m]
          /\ \A k \in 1..Len(open') : open'[k] = open[w[k]]
          /\ \A k, l \in 1..Len(open') : k < l => w[k] < w[l]
      BY <3>1
    <3> HIDE DEF w
    <3> QED  BY <2>1, <3>2
  <2>2. CASE provider = "gemini"
    <3> DEFINE w == [k \in 1..Len(open') |-> Was(k, p)]
    <3>1. open \in Seq(CallKeys)
      BY DEF ReadInv, MessageType
    <3>2. /\ Len(open') = m - 1
          /\ \A i \in 1..Len(open') : open'[i] = IF i < p THEN open[i] ELSE open[i + 1]
      BY <2>2, <3>1, Removed
    <3>3. /\ w \in [1..Len(open') -> 1..m]
          /\ \A k \in 1..Len(open') : open'[k] = open[w[k]]
          /\ \A k, l \in 1..Len(open') : k < l => w[k] < w[l]
          /\ \A k \in 1..Len(open') : w[k] # p
      BY <1>2, <3>2 DEF Was
    <3>4. ASSUME NEW k \in 1..m, k # p PROVE \E l \in 1..Len(open') : w[l] = k
      <4>1. CASE k < p
        BY <1>2, <3>2, <4>1 DEF Was
      <4>2. CASE k > p
        <5>1. k - 1 \in 1..Len(open') /\ w[k - 1] = k
          BY <1>2, <3>2, <4>2 DEF Was
        <5> QED  BY <5>1
      <4>3. k \in Nat /\ p \in Nat
        BY <1>2
      <4> HIDE DEF w
      <4> QED  BY <3>4, <4>1, <4>2, <4>3
    <3> HIDE DEF w
    <3> QED  BY <3>3, <3>4
  <2> QED  BY <2>1, <2>2
<1> HIDE DEF n, m
<1>4. /\ \A i \in 1..Len(items') : i \in 1..n \/ i = n + 1
      /\ \A i \in 1..n : i \in 1..Len(items') /\ i # n + 1 /\ i < n + 1
      /\ n + 1 \in 1..Len(items')
      /\ ~IsCall(items'[n + 1]) /\ IsResult(items'[n + 1])
  BY <1>1 DEF IsCall, IsResult
<1>5. PICK c \in 1..n : IsCall(items[c]) /\ items[c].key = open[p]
  BY <1>2 DEF Waits
<1>6. ASSUME NEW i \in 1..n, IsCall(items[i]) PROVE items[i].key[2] = items[i].block.name
  <2>1. items[i].key = KeyOf(provider, items[i])
    BY <1>2, <1>6 DEF Sourced
  <2> QED  BY <2>1 DEF KeyOf
<1>7. Waits'
  <2> SUFFICES ASSUME NEW k \in 1..Len(open')
               PROVE  \E j \in 1..Len(items') : IsCall(items'[j]) /\ items'[j].key = open'[k]
    BY DEF Waits
  <2>1. PICK j \in 1..n : IsCall(items[j]) /\ items[j].key = open[was[k]]
    BY <1>2, <1>3 DEF Waits
  <2> QED  BY <1>1, <1>3, <1>4, <2>1
<1>8. \A i \in 1..n : Adapters!Answers(i)' = Adapters!Answers(i)
  BY <1>2, OldAnswers DEF ReadInv
<1>9. /\ Adapters!Results' = Adapters!Results \cup {n + 1}
      /\ Adapters!Results \subseteq 1..n
  BY <1>1, <1>2, <1>4 DEF Adapters!Results, IsResult
<1>10. \A q \in {n + 1} : /\ c \in Adapters!Answers(q)'
                          /\ \A j \in Adapters!Answers(q)' :
                               j \in 1..n /\ IsCall(items[j]) /\ items[j].key = open[p]
  <2> SUFFICES ASSUME NEW q \in {n + 1}
               PROVE  /\ c \in Adapters!Answers(q)'
                      /\ \A j \in Adapters!Answers(q)' :
                           j \in 1..n /\ IsCall(items[j]) /\ items[j].key = open[p]
    OBVIOUS
  <2>1. q = n + 1 /\ 1..(q - 1) = 1..n
    BY <1>1
  <2> QED  BY <1>1, <1>5, <1>6, <2>1 DEF Adapters!Answers, IsCall
<1>11. ASSUME provider = "gemini", NEW k \in 1..m, NEW l \in 1..m, open[k] = open[l]
       PROVE  k = l
  <2>1. OldestFirst
    BY <1>11 DEF ReadInv
  <2>2. PICK j \in 1..n : IsCall(items[j]) /\ items[j].key = open[k]
    BY <1>2 DEF Waits
  <2>3. \A a, b \in 1..m : a < b => ~(open[a] = open[k] /\ open[b] = open[k])
    BY <1>1, <1>2, <2>1, <2>2 DEF OldestFirst
  <2> QED  BY <1>2, <1>11, <2>3
<1>12. Adapters!ThreadsHold'
  <2>1. ASSUME provider = "gemini", NEW j \in 1..n, IsCall(items[j]), items[j].key = open[p],
               NEW older \in 1..(j - 1), items'[older].block = items'[j].block
        PROVE  \E k \in Adapters!Results' : k < n + 1 /\ older \in Adapters!Answers(k)'
    <3>1. OldestFirst
      BY <2>1 DEF ReadInv
    <3>2. older \in 1..n /\ items[older].block = items[j].block
      BY <1>1, <2>1
    <3>3. IsCall(items[older])
      BY <1>2, <2>1, <3>2 DEF Sourced, IsCall
    <3>4. ~\E k \in 1..m : open[k] = items[older].key
      <4> SUFFICES ASSUME NEW k \in 1..m, open[k] = items[older].key PROVE FALSE
        OBVIOUS
      <4>1. open[k][2] = open[p][2]
        BY <1>6, <2>1, <3>2, <3>3
      <4>2. p <= k
        BY <1>2, <4>1
      <4>3. CASE p < k
        BY <1>1, <1>2, <2>1, <3>1, <3>2, <3>3, <4>3 DEF OldestFirst
      <4>4. CASE p = k
        <5>1. items[older].key = items[j].key
          BY <2>1, <4>4
        <5>2. older = j
          BY <1>2, <2>1, <3>1, <3>2, <3>3, <5>1 DEF OldestFirst
        <5> QED  BY <1>1, <2>1, <5>2
      <4> QED  BY <1>2, <4>2, <4>3, <4>4
    <3>5. PICK r \in 1..n : older < r /\ IsResult(items[r]) /\ items[r].parent = items[older].key
      BY <1>2, <3>1, <3>2, <3>3, <3>4 DEF OldestFirst
    <3>6. r \in Adapters!Results
      BY <1>2, <3>5 DEF Adapters!Results, IsResult
    <3>7. PICK a \in Adapters!Answers(r) : TRUE
      BY <3>6 DEF ReadInv, Adapters!ThreadsHold
    <3>8. /\ a \in 1..n /\ IsCall(items[a]) /\ items[a].key = items[r].parent
          /\ items[a].block.name = items[r].block.name
      BY <1>1, <3>5, <3>7 DEF Adapters!Answers, IsCall
    <3>9. a = older
      BY <1>2, <3>1, <3>2, <3>3, <3>5, <3>8 DEF OldestFirst
    <3>10. older \in Adapters!Answers(r)'
      BY <1>8, <3>5, <3>7, <3>9
    <3> QED  BY <1>4, <1>9, <3>5, <3>6, <3>10
  <2>2. ASSUME provider = "gemini", NEW j \in 1..n, j \in Adapters!Results
        PROVE  items'[j].parent # x.parent
    BY <1>1, <1>2, <2>2 DEF ReadInv, OldestFirst, Adapters!Results, IsResult
  <2>3. \A q \in {n + 1} :
          /\ Adapters!Answers(q)' # {}
          /\ provider = "gemini" => \A j \in 1..q :
               /\ j \in Adapters!Results' \ {q} => items'[j].parent # x.parent
               /\ j \in Adapters!Answers(q)' =>
                    \A older \in 1..(j - 1) : items'[older].block = items'[j].block =>
                        \E k \in Adapters!Results' : k < q /\ older \in Adapters!Answers(k)'
    <3> SUFFICES ASSUME NEW q \in {n + 1}
                 PROVE  /\ Adapters!Answers(q)' # {}
                        /\ provider = "gemini" => \A j \in 1..q :
                             /\ j \in Adapters!Results' \ {q} => items'[j].parent # x.parent
                             /\ j \in Adapters!Answers(q)' =>
                                  \A older \in 1..(j - 1) : items'[older].block = items'[j].block =>
                                      \E k \in Adapters!Results' : k < q /\ older \in Adapters!Answers(k)'
      OBVIOUS
    <3>1. Adapters!Answers(q)' # {}
      BY <1>10
    <3>2. ASSUME provider = "gemini", NEW j \in 1..q
          PROVE  /\ j \in Adapters!Results' \ {q} => items'[j].parent # x.parent
                 /\ j \in Adapters!Answers(q)' =>
                      \A older \in 1..(j - 1) : items'[older].block = items'[j].block =>
                          \E k \in Adapters!Results' : k < q /\ older \in Adapters!Answers(k)'
      <4>1. j \in Adapters!Results' \ {q} => items'[j].parent # x.parent
        BY <1>9, <2>2, <3>2
      <4>2. j \in Adapters!Answers(q)' =>
              \A older \in 1..(j - 1) : items'[older].block = items'[j].block =>
                  \E k \in Adapters!Results' : k < q /\ older \in Adapters!Answers(k)'
        BY <1>10, <2>1, <3>2
      <4> QED  BY <4>1, <4>2
    <3> QED  BY <3>1, <3>2
  <2>4. MessageType /\ Adapters!ThreadsHold
    BY DEF ReadInv
  <2>5. x.kind = "tool_result" => \A q \in {n + 1} :
          /\ Adapters!Answers(q)' # {}
          /\ provider = "gemini" => \A j \in 1..q :
               /\ j \in Adapters!Results' \ {q} => items'[j].parent # x.parent
               /\ j \in Adapters!Answers(q)' =>
                    \A older \in 1..(j - 1) : items'[older].block = items'[j].block =>
                        \E k \in Adapters!Results' : k < q /\ older \in Adapters!Answers(k)'
    BY <2>3
  <2> HIDE <2>3
  <2> QED  BY <1>1, <1>2, <2>4, <2>5, OldThreads
<1>13. provider = "gemini" => OldestFirst'
  <2> HAVE provider = "gemini"
  <2>1. OldestFirst
    BY DEF ReadInv
  <2>2. \A i, j \in 1..Len(items') :
         IsCall(items'[i]) /\ IsCall(items'[j]) /\ items'[i].key = items'[j].key => i = j
    BY <1>1, <1>2, <1>4, <2>1 DEF OldestFirst
  <2>3. \A k, l \in 1..Len(open') : k < l =>
         \A i, j \in 1..Len(items') :
           IsCall(items'[i]) /\ IsCall(items'[j]) /\ items'[i].key = open'[k] /\ items'[j].key = open'[l]
             => i < j
    <3> SUFFICES ASSUME NEW k \in 1..Len(open'), NEW l \in 1..Len(open'), k < l
                 PROVE  \A i, j \in 1..Len(items') :
                          IsCall(items'[i]) /\ IsCall(items'[j]) /\ items'[i].key = open'[k]
                            /\ items'[j].key = open'[l] => i < j
      BY Zenon
    <3> SUFFICES ASSUME NEW i \in 1..Len(items'), NEW j \in 1..Len(items'),
                        IsCall(items'[i]), IsCall(items'[j]),
                        items'[i].key = open'[k], items'[j].key = open'[l]
                 PROVE  i < j
      BY Zenon
    <3>1. was[k] \in 1..m /\ was[l] \in 1..m /\ was[k] < was[l]
      BY <1>3
    <3>2. items[i].key = open[was[k]] /\ items[j].key = open[was[l]]
      BY <1>1, <1>3, <1>4
    <3>3. i \in 1..n /\ j \in 1..n /\ IsCall(items[i]) /\ IsCall(items[j])
      BY <1>1, <1>4
    <3> QED  BY <1>2, <2>1, <3>1, <3>2, <3>3 DEF OldestFirst
  <2>4. \A i \in 1..Len(items'), k \in 1..Len(open') :
           IsResult(items'[i]) => items'[i].parent # open'[k]
    <3> SUFFICES ASSUME NEW i \in 1..Len(items'), NEW k \in 1..Len(open'), IsResult(items'[i])
                 PROVE  items'[i].parent # open'[k]
      OBVIOUS
    <3>1. was[k] \in 1..m /\ was[k] # p /\ open'[k] = open[was[k]]
      BY <1>3
    <3>2. CASE i \in 1..n
      BY <1>1, <1>2, <2>1, <3>1, <3>2 DEF OldestFirst
    <3>3. CASE i = n + 1
      BY <1>1, <1>2, <1>11, <3>1, <3>3
    <3> QED  BY <1>4, <3>2, <3>3
  <2>5. \A i, j \in 1..Len(items') :
         IsResult(items'[i]) /\ IsResult(items'[j]) /\ i # j => items'[i].parent # items'[j].parent
    <3>1. \A i \in 1..n : IsResult(items[i]) => items[i].parent # x.parent
      BY <1>2, <2>1 DEF OldestFirst
    <3> QED  BY <1>1, <1>2, <1>4, <2>1, <3>1 DEF OldestFirst
  <2>6. ASSUME NEW j \in 1..Len(items'), IsCall(items'[j])
        PROVE  \/ \E k \in 1..Len(open') : open'[k] = items'[j].key
               \/ \E r \in 1..Len(items') :
                    j < r /\ IsResult(items'[r]) /\ items'[r].parent = items'[j].key
    <3>1. j \in 1..n /\ items'[j] = items[j] /\ IsCall(items[j])
      BY <1>1, <1>4, <2>6
    <3>2. CASE \E r \in 1..n : j < r /\ IsResult(items[r]) /\ items[r].parent = items[j].key
      BY <1>1, <1>4, <3>1, <3>2
    <3>3. CASE \E k \in 1..m : open[k] = items[j].key
      <4>1. PICK k \in 1..m : open[k] = items[j].key
        BY <3>3
      <4>2. CASE k = p
        BY <1>1, <1>4, <3>1, <4>1, <4>2
      <4>3. CASE k # p
        BY <1>3, <3>1, <4>1, <4>3
      <4> QED  BY <4>2, <4>3
    <3> QED  BY <1>2, <2>1, <3>1, <3>2, <3>3 DEF OldestFirst
  <2> QED  BY <2>2, <2>3, <2>4, <2>5, <2>6 DEF OldestFirst
<1> QED  BY <1>7, <1>12, <1>13 DEF ReadInv

LEMMA OpeningIsMessage ==
  ASSUME provider \in Adapters!Provider, NEW m \in Adapters!Opening
  PROVE  m \in Message /\ m.blocks = <<>>
<1>1. m \in [role : Roles, content : Contents, blocks : {<<>>}]
  <2>1. CASE provider = "openai"
    BY <2>1 DEF Adapters!Opening, Roles, Contents
  <2>2. CASE provider = "anthropic"
    BY <2>2 DEF Adapters!Opening, Roles, Contents
  <2>3. CASE provider = "gemini"
    BY <2>3 DEF Adapters!Opening, Roles, Contents
  <2> QED  BY <2>1, <2>2, <2>3 DEF Adapters!Provider
<1>2. <<>> \in Seq(Adapters!Block)
  OBVIOUS
<1> QED  BY <1>1, <1>2 DEF Message

LEMMA KeptIsText ==
  ASSUME NEW m \in Message
  PROVE  Adapters!Kept(m) \in Contents /\ Adapters!TurnKind(m.role) \in {"policy", "user_turn", "agent_msg"}
<1>1. m.role \in Roles /\ m.content \in Contents
  BY DEF Message
<1>2. Adapters!Flat(m.content) \in Contents
  BY <1>1 DEF Adapters!Flat, Contents
<1>3. Adapters!Kept(m) \in Contents
  BY <1>1, <1>2 DEF Adapters!Kept
<1>4. Adapters!TurnKind(m.role) \in {"policy", "user_turn", "agent_msg"}
  BY DEF Adapters!TurnKind
<1> QED  BY <1>3, <1>4

LEMMA KeysAreKeys ==
  /\ <<>> \in Keys /\ CallKeys \subseteq Keys
  /\ \A k \in CallKeys : <<"result", k>> \in Keys
  /\ \A a, b \in Nat : <<"turn", a, b>> \in Keys
BY DEF Keys

LEMMA CallKeyKnown ==
  ASSUME MessageType, Len(msgs) > 0, NEW b \in Adapters!Block, b.type # "text"
  PROVE  Adapters!CallKey(b) \in CallKeys
<1>1. b.name \in CallId
  BY BlockKinds
<1>2. msgs[Len(msgs)] \in Message /\ Len(msgs) \in Nat
  BY DEF MessageType
<1>3. Len(msgs[Len(msgs)].blocks) + 1 \in Nat
  BY <1>2 DEF Message
<1> QED  BY <1>1, <1>2, <1>3 DEF Adapters!CallKey, Adapters!N, CallKeys

LEMMA NewMessageKeeps ==
  ASSUME ReadInv, NEW m \in Adapters!Opening, Adapters!NewMessage(m)
  PROVE  ReadInv'
<1>1. m \in Message /\ m.blocks = <<>>
  BY OpeningIsMessage DEF ReadInv, MessageType
<1>2. /\ step = "reading" /\ step' = step /\ open' = open /\ provider' = provider
      /\ msgs' = Append(msgs, m) /\ MessageType
  BY DEF Adapters!NewMessage, ReadInv
<1>3. /\ msgs' \in Seq(Message) /\ Len(msgs') = Len(msgs) + 1 /\ msgs'[Len(msgs')] = m
      /\ Len(msgs) \in Nat
  BY <1>1, <1>2 DEF MessageType
<1>4. CASE provider = "openai" /\ m.role # "tool"
  <2> DEFINE x == Adapters!Turn(m)
  <2>1. items' = Append(items, x)
    BY <1>4 DEF Adapters!NewMessage
  <2>2. /\ x.kind = Adapters!TurnKind(m.role) /\ x.block = Adapters!Blank /\ x.msg = Len(msgs) + 1
        /\ x.at = 0 /\ x.key = <<"turn", Len(msgs) + 1, 0>> /\ x.parent = <<>> /\ x.role = m.role
        /\ x.content = Adapters!Kept(m)
    BY DEF Adapters!Turn, Adapters!N
  <2> HIDE DEF x
  <2>3. x \in Said
    <3>1. /\ x.kind \in Kinds /\ x.content \in Contents /\ x.role \in Roles
      BY <1>1, <2>2, KeptIsText DEF Message, Kinds
    <3>2. x.key \in Keys /\ x.parent \in Keys
      BY <1>3, <2>2, KeysAreKeys
    <3>3. x.block \in Adapters!Block /\ x.msg \in Nat /\ x.at \in Nat
      BY <1>3, <2>2, BlockKinds
    <3>4. x = [kind |-> x.kind, key |-> x.key, parent |-> x.parent, msg |-> x.msg, at |-> x.at,
               role |-> x.role, content |-> x.content, block |-> x.block]
      BY DEF x, Adapters!Turn
    <3> QED  BY <3>1, <3>2, <3>3, <3>4 DEF Said
  <2>4. x.kind \notin {"tool_call", "tool_result"} /\ x.block.type = "text"
    BY <1>1, <2>2, KeptIsText, BlockKinds
  <2>5. MessageType'
    <3>1. items' \in Seq(Said)
      BY <1>2, <2>1, <2>3, JoinsEnd
    <3> QED  BY <1>2, <1>3, <3>1 DEF MessageType
  <2>6. Sourced'
    <3>1. Len(msgs'[Len(msgs')].blocks) = 0
      BY <1>1, <1>3
    <3> QED  BY <1>2, <1>3, <2>1, <2>2, <2>3, <2>4, <2>5, <3>1, SourcedJoins DEF Grown, ReadInv
  <2> QED  BY <1>2, <2>1, <2>3, <2>4, <2>5, <2>6, TextJoins
<1>5. CASE ~(provider = "openai" /\ m.role # "tool")
  <2>1. items' = items
    BY <1>5 DEF Adapters!NewMessage
  <2>2. MessageType'
    BY <1>2, <1>3, <2>1 DEF MessageType
  <2>3. Sourced'
    BY <1>2, <1>3, <2>1 DEF ReadInv, Sourced
  <2>4. (Waits => Waits') /\ (OldestFirst => OldestFirst')
    BY <1>2, <2>1 DEF Waits, OldestFirst
  <2>5. Adapters!ThreadsHold'
    BY <1>2, <2>1 DEF ReadInv, Adapters!ThreadsHold, Adapters!Results, Adapters!Answers
  <2> QED  BY <1>2, <2>1, <2>2, <2>3, <2>4, <2>5 DEF ReadInv
<1> QED  BY <1>4, <1>5

LEMMA ReadBlockKeeps ==
  ASSUME ReadInv, NEW b \in Adapters!Block, Adapters!ReadBlock(b)
  PROVE  ReadInv'
<1> DEFINE here == Len(msgs[Len(msgs)].blocks)
<1>1. /\ step = "reading" /\ step' = step /\ provider' = provider /\ Len(msgs) > 0
      /\ msgs' = [msgs EXCEPT ![Len(msgs)].blocks = Append(@, b)] /\ MessageType /\ Sourced
  BY DEF Adapters!ReadBlock, ReadInv, Adapters!N
<1>2. msgs \in Seq(Message) /\ Len(msgs) \in Nat /\ Len(msgs) \in 1..Len(msgs)
  BY <1>1 DEF MessageType
<1>3. msgs[Len(msgs)] \in Message /\ here \in Nat
  <2>1. msgs[Len(msgs)] \in Message
    BY <1>2
  <2>2. msgs[Len(msgs)].blocks \in Seq(Adapters!Block)
    BY <2>1 DEF Message
  <2> QED  BY <2>1, <2>2
<1> DEFINE new == [msgs[Len(msgs)] EXCEPT !.blocks = Append(@, b)]
<1>4. /\ new \in Message /\ Len(new.blocks) = here + 1
  <2>1. Append(msgs[Len(msgs)].blocks, b) \in Seq(Adapters!Block)
    BY <1>3 DEF Message
  <2>2. Len(Append(msgs[Len(msgs)].blocks, b)) = here + 1
    BY <1>3 DEF Message
  <2>3. new.blocks = Append(msgs[Len(msgs)].blocks, b)
    BY <1>3 DEF Message
  <2>4. new \in Message
    BY <1>3, <2>1 DEF Message
  <2> QED  BY <2>2, <2>3, <2>4
<1>5. msgs' = [msgs EXCEPT ![Len(msgs)] = new]
  BY <1>1
<1> HIDE DEF new
<1>6. /\ msgs' \in Seq(Message) /\ Len(msgs') = Len(msgs) /\ msgs'[Len(msgs')] = new
  BY <1>2, <1>4, <1>5
<1>7. Grown
  BY <1>3, <1>4, <1>6 DEF Grown
<1>8. ASSUME NEW kind \in Kinds, NEW key \in Keys, NEW parent \in Keys
      PROVE  /\ Adapters!BlockItem(kind, key, parent, b) \in Said
             /\ Adapters!BlockItem(kind, key, parent, b).kind = kind /\ Adapters!BlockItem(kind, key, parent, b).key = key
             /\ Adapters!BlockItem(kind, key, parent, b).parent = parent /\ Adapters!BlockItem(kind, key, parent, b).block = b
             /\ Adapters!BlockItem(kind, key, parent, b).msg = Len(msgs) /\ Adapters!BlockItem(kind, key, parent, b).at = here + 1
  <2>1. msgs[Len(msgs)].role \in Roles /\ Adapters!Kept(msgs[Len(msgs)]) \in Contents
    BY <1>3, KeptIsText DEF Message
  <2> QED  BY <1>2, <1>3, <2>1 DEF Adapters!BlockItem, Adapters!N, Said
<1>9. ASSUME NEW e \in Said, items' = Append(items, e), e.msg = Len(msgs), e.at = here + 1,
             e.kind = "tool_call" <=> e.block.type = "call",
             e.kind = "tool_call" => e.key = KeyOf(provider, e),
             open' \in Seq(CallKeys)
      PROVE  MessageType' /\ Sourced'
  <2>1. items' \in Seq(Said)
    BY <1>1, <1>9, JoinsEnd
  <2>2. MessageType'
    BY <1>1, <1>6, <1>9, <2>1 DEF MessageType
  <2>3. /\ e.at <= Len(msgs'[Len(msgs')].blocks) /\ e.msg = Len(msgs') /\ e.msg > 0
    BY <1>1, <1>2, <1>3, <1>4, <1>6, <1>9
  <2> QED  BY <1>1, <1>7, <1>9, <2>2, <2>3, SourcedJoins
<1>10. open \in Seq(CallKeys)
  BY <1>1 DEF MessageType
<1>11. CASE b.type = "text"
  <2> DEFINE kind == Adapters!TurnKind(msgs[Len(msgs)].role)
             e == Adapters!BlockItem(kind, <<"turn", Len(msgs), here + 1>>, <<>>, b)
  <2>1. items' = Append(items, e) /\ open' = open
    BY <1>11 DEF Adapters!ReadBlock, Adapters!N
  <2>2. kind \in {"policy", "user_turn", "agent_msg"}
    BY <1>3, KeptIsText
  <2>3. <<"turn", Len(msgs), here + 1>> \in Keys /\ <<>> \in Keys
    BY <1>2, <1>3, KeysAreKeys
  <2>4. e \in Said /\ e.kind = kind /\ e.block = b /\ e.msg = Len(msgs) /\ e.at = here + 1
    BY <1>8, <2>2, <2>3 DEF Kinds
  <2> HIDE DEF e, kind
  <2>5. MessageType' /\ Sourced'
    BY <1>9, <1>10, <1>11, <2>1, <2>2, <2>4
  <2> QED  BY <1>1, <2>1, <2>2, <2>4, <2>5, TextJoins
<1>12. CASE b.type = "call"
  <2> DEFINE key == Adapters!CallKey(b)
             e == Adapters!BlockItem("tool_call", key, <<>>, b)
  <2>1. items' = Append(items, e) /\ open' = Append(open, key)
    BY <1>12 DEF Adapters!ReadBlock
  <2>2. key \in CallKeys /\ key \in Keys /\ <<>> \in Keys
    BY <1>1, <1>12, CallKeyKnown, KeysAreKeys
  <2>3. /\ e \in Said /\ e.kind = "tool_call" /\ e.block = b /\ e.msg = Len(msgs) /\ e.at = here + 1
        /\ e.key = key
    BY <1>8, <2>2 DEF Kinds
  <2>4. key = KeyOf(provider, e)
    BY <2>3 DEF Adapters!CallKey, Adapters!N, KeyOf
  <2> HIDE DEF e, key
  <2>5. open' \in Seq(CallKeys)
    BY <1>10, <2>1, <2>2
  <2>6. MessageType' /\ Sourced'
    BY <1>9, <1>12, <2>1, <2>3, <2>4, <2>5
  <2>7. provider = "gemini" => \A i \in 1..Len(items) : IsCall(items[i]) => items[i].key # e.key
    BY <1>1, <2>3, <2>4, FreshKey
  <2> QED  BY <1>1, <2>1, <2>2, <2>3, <2>6, <2>7, CallJoins
<1>13. CASE b.type = "result"
  <2>1. PICK p \in Adapters!Matched(b) :
          /\ items' = Append(items, Adapters!BlockItem("tool_result", <<"result", open[p]>>, open[p], b))
          /\ open' = IF provider = "gemini" THEN Adapters!RemoveAt(open, p) ELSE open
    BY <1>13 DEF Adapters!ReadBlock
  <2> DEFINE e == Adapters!BlockItem("tool_result", <<"result", open[p]>>, open[p], b)
  <2>2. /\ p \in 1..Len(open) /\ open[p][2] = b.name
        /\ \A k \in 1..Len(open) : open[k][2] = open[p][2] => p <= k
    BY DEF Adapters!Matched, Adapters!Answerable
  <2>3. open[p] \in CallKeys
    BY <1>10, <2>2
  <2>4. open[p] \in Keys /\ <<"result", open[p]>> \in Keys
    BY <2>3, KeysAreKeys
  <2>5. /\ e \in Said /\ e.kind = "tool_result" /\ e.block = b /\ e.msg = Len(msgs)
        /\ e.at = here + 1 /\ e.parent = open[p]
    BY <1>8, <2>4 DEF Kinds
  <2>6. items' = Append(items, e)
    BY <2>1
  <2> HIDE DEF e
  <2>7. open' \in Seq(CallKeys)
    BY <1>10, <2>1, <2>2, Removed
  <2>8. MessageType' /\ Sourced'
    BY <1>9, <1>13, <2>5, <2>6, <2>7
  <2> QED  BY <1>1, <2>1, <2>2, <2>5, <2>6, <2>8, ResultJoins
<1> QED  BY <1>11, <1>12, <1>13, BlockKinds

LEMMA ReadStep == ReadInv /\ [Adapters!Next]_Adapters!vars => ReadInv'
<1> SUFFICES ASSUME ReadInv, [Adapters!Next]_Adapters!vars PROVE ReadInv'
  OBVIOUS
<1>1. CASE \E m \in Adapters!Opening : Adapters!NewMessage(m)
  BY <1>1, NewMessageKeeps
<1>2. CASE \E b \in Adapters!Block : Adapters!ReadBlock(b)
  BY <1>2, ReadBlockKeeps
<1>3. CASE \E b \in Adapters!Block : Adapters!Reject(b)
  <2>1. UNCHANGED <<provider, msgs, open>> /\ step' = "rejected" /\ items' = <<>>
    BY <1>3 DEF Adapters!Reject
  <2>2. MessageType' /\ Len(items') = 0
    BY <2>1 DEF ReadInv, MessageType
  <2>3. Sourced' /\ Adapters!ThreadsHold'
    BY <2>2 DEF Sourced, Adapters!ThreadsHold, Adapters!Results
  <2> QED  BY <2>1, <2>2, <2>3 DEF ReadInv
<1>4. CASE UNCHANGED <<provider, msgs, items, open>> /\ step' \in {step, "read"}
           /\ (step' = "read" => step # "rejected")
  <2>1. MessageType' /\ Sourced' /\ (Waits => Waits') /\ (OldestFirst => OldestFirst')
    BY <1>4 DEF ReadInv, MessageType, Sourced, Waits, OldestFirst
  <2>2. Adapters!ThreadsHold'
    BY <1>4 DEF ReadInv, Adapters!ThreadsHold, Adapters!Results, Adapters!Answers
  <2> QED  BY <1>4, <2>1, <2>2 DEF ReadInv, MessageType
<1>5. CASE Adapters!Finish
  BY <1>4, <1>5 DEF Adapters!Finish
<1>6. CASE UNCHANGED Adapters!vars
  <2>1. UNCHANGED <<provider, msgs, items, open>> /\ step' = step
    BY <1>6 DEF Adapters!vars
  <2> QED  BY <1>4, <2>1
<1> QED  BY <1>1, <1>2, <1>3, <1>5, <1>6 DEF Adapters!Next

\* The log of a conversation that was read is what Ingested leaves of it.
Logging == step = "read" => kept = Adapters!Ingested(items)

LEMMA LogsHold == ReadInv /\ Logging => Adapters!LogHolds
<1> SUFFICES ASSUME ReadInv, Logging, step = "read" PROVE Adapters!LogHolds
  BY DEF Adapters!LogHolds
<1>1. items \in Seq(Said) /\ kept = Adapters!Ingested(items)
  BY DEF ReadInv, MessageType, Logging
<1> QED  BY <1>1, IngestedStops DEF Adapters!LogHolds

LEMMA LoggingStep == Logging /\ [Adapters!Next]_Adapters!vars => Logging'
<1> SUFFICES ASSUME Logging, [Adapters!Next]_Adapters!vars PROVE Logging'
  OBVIOUS
<1>2. CASE UNCHANGED Adapters!vars
  BY <1>2 DEF Logging, Adapters!vars
<1>3. CASE Adapters!Finish
  BY <1>3 DEF Adapters!Finish, Logging
<1>4. CASE step' \in {"reading", "rejected"}
  BY <1>4 DEF Logging
<1> QED  BY <1>2, <1>3, <1>4 DEF Adapters!Next, Adapters!NewMessage, Adapters!ReadBlock, Adapters!Reject

----------------------------------------
(* The sessions of the frameworks *)

PartTypes == {"text", "reasoning", "user", "system", "handoff", "observation", "control",
              "unknown", "call", "return", "retry"}
EntryRoles == {"request", "response", "system", "user", "assistant", "tool", "item", "task",
               "planning", "final", "action", "model"}
Recorded == [role : EntryRoles, parts : Seq(Decoders!Part)]
ItemKinds == {"tool_call", "tool_result", "user_turn", "policy", "plan_state", "agent_msg"}
PlaceKeys == (PartTypes \cup {"result"}) \X (CallId \cup {""}) \X Nat \X Nat
Spoken == [kind : ItemKinds, key : PlaceKeys, parent : PlaceKeys \cup {<<>>},
           name : CallId \cup {""}, text : {"words", "blank", "data"}, msg : Nat, at : Nat]

SessionType == /\ provider \in Decoders!Framework
               /\ msgs \in Seq(Recorded)
               /\ items \in Seq(Spoken)
               /\ step \in {"reading", "read", "rejected"}

\* What an entry of a session is like.
Shaped(e) ==
    /\ e.role \in Decoders!Role
    /\ \A k \in 1..Len(e.parts) :
         /\ e.parts[k].type \in Decoders!Types(e.role) \ {"unknown"}
         /\ \/ Decoders!OnePart(e.role) \/ e.parts[k].type = "reasoning"
            \/ e.role = "assistant" /\ e.parts[k].type = "text"
            => k = 1
         /\ e.parts[k].type = "observation" => k = Len(e.parts)

AllShaped == \A g \in 1..Len(msgs) : Shaped(msgs[g])

\* What a part at place k of entry g is known by.
Nameless == ""
Known(as, n, g, k) == IF n = "" THEN <<as, "", g, k>> ELSE <<as, n, 0, 0>>
KeyAt(by, p, g, k) ==
    CASE p.type = "call" -> Known("call", p.name, g, k)
      [] p.type = "return" -> Known("result", p.name, g, k)
      [] p.type = "text" /\ by \in {"google_adk", "agent_framework"} ->
           <<"text", "", g, k>>
      [] OTHER -> <<p.type, "", g, 0>>

\* An item for every part that says something, in their order.
PartOf(i) == msgs[items[i].msg].parts[items[i].at]
OfPart(i) ==
    /\ items[i].msg \in 1..Len(msgs)
    /\ items[i].at \in 1..Len(msgs[items[i].msg].parts)
    /\ ~Decoders!Silent(PartOf(i))
    /\ items[i].kind = "tool_call" <=> PartOf(i).type = "call"
    /\ items[i].kind = "tool_result" <=> PartOf(i).type \in {"return", "observation"}
    /\ items[i].key = KeyAt(provider, PartOf(i), items[i].msg, items[i].at)
    /\ items[i].name = PartOf(i).name
    /\ PartOf(i).type = "return" =>
         items[i].parent = KeyAt(provider, [PartOf(i) EXCEPT !.type = "call"], items[i].msg, items[i].at)
OfParts == \A i \in 1..Len(items) : OfPart(i)
NoneLost ==
    \A g \in 1..Len(msgs) : \A k \in 1..Len(msgs[g].parts) :
        ~Decoders!Silent(msgs[g].parts[k]) =>
            \E i \in 1..Len(items) : items[i].msg = g /\ items[i].at = k
Before(g, k, h, l) == g < h \/ (g = h /\ k < l)
InTurn ==
    \A i, j \in 1..Len(items) :
        i < j => Before(items[i].msg, items[i].at, items[j].msg, items[j].at)

\* Where orphans are refused, and where a step has its observation.
Answered ==
    \A i \in 1..Len(items) : items[i].kind = "tool_result" =>
        /\ provider \in Decoders!Strict => \E j \in Decoders!Callers(i) : j < i
        /\ provider = "smolagents" =>
             IF Decoders!CallsIn(items[i].msg) = {} THEN items[i].parent = <<>>
             ELSE \E j \in Decoders!Callers(i) :
                    /\ items[j].msg = items[i].msg
                    /\ items[j].at = Decoders!Max(Decoders!CallsIn(items[i].msg))

SessionInv == /\ SessionType
              /\ AllShaped
              /\ step = "rejected" => items = <<>>
              /\ step # "rejected" => OfParts /\ NoneLost /\ InTurn
              /\ Answered

LEMMA PartsKnown ==
  ASSUME NEW p \in Decoders!Part
  PROVE  /\ p.type \in PartTypes /\ p.name \in CallId \cup {""}
         /\ p.content \in {"words", "blank", "data"}
         /\ p.type \in {"call", "return"} => p.content = "data"
         /\ p.type \notin {"call", "return", "retry"} => p.name = ""
BY DEF Decoders!Part, PartTypes

\* What the frameworks have in their entries.
LEMMA TypesKnown ==
  ASSUME provider \in Decoders!Framework, NEW role \in Decoders!Role,
         NEW type \in Decoders!Types(role), type # "unknown"
  PROVE  /\ provider = "pydantic_ai" => type \in {"user", "system", "return", "retry", "text", "call"}
         /\ provider = "agno" => /\ type \in {"user", "system", "return", "text", "call"}
                                 /\ Decoders!OnePart(role) \/ (role = "assistant" /\ type \in {"text", "call"})
         /\ provider = "openai_agents" => Decoders!OnePart(role) /\ type # "observation"
         /\ provider = "smolagents" =>
              /\ Decoders!OnePart(role) \/ type \in {"reasoning", "call", "observation"}
              /\ type # "return"
         /\ provider \in {"google_adk", "agent_framework"} => type \in {"text", "call", "return", "control"}
<1>1. CASE provider = "pydantic_ai"
  BY <1>1 DEF Decoders!Role, Decoders!Types
<1>2. CASE provider = "agno"
  BY <1>2 DEF Decoders!Role, Decoders!Types, Decoders!OnePart
<1>3. CASE provider = "openai_agents"
  BY <1>3 DEF Decoders!Role, Decoders!Types, Decoders!OnePart
<1>4. CASE provider = "smolagents"
  BY <1>4 DEF Decoders!Role, Decoders!Types, Decoders!OnePart
<1>5. CASE provider \in {"google_adk", "agent_framework"}
  BY <1>5 DEF Decoders!Role, Decoders!Types, Decoders!OnePart
<1> QED  BY <1>1, <1>2, <1>3, <1>4, <1>5 DEF Decoders!Framework

LEMMA SessionInit == Decoders!Init => SessionInv
<1> SUFFICES ASSUME Decoders!Init PROVE SessionInv
  OBVIOUS
<1>1. items = <<>> /\ msgs = <<>> /\ step = "reading" /\ provider \in Decoders!Framework
  BY DEF Decoders!Init
<1>2. Len(items) = 0 /\ Len(msgs) = 0
  BY <1>1
<1>3. SessionType
  BY <1>1 DEF SessionType
<1>4. AllShaped /\ OfParts /\ NoneLost /\ InTurn /\ Answered
  BY <1>2 DEF OfParts, NoneLost, InTurn, Answered, AllShaped
<1> QED  BY <1>1, <1>2, <1>3, <1>4 DEF SessionInv

\* Parts that were read stay where they are.
Stays == /\ Len(msgs) <= Len(msgs')
         /\ \A g \in 1..Len(msgs) : \A k \in 1..Len(msgs[g].parts) :
              /\ k \in 1..Len(msgs'[g].parts)
              /\ msgs'[g].parts[k] = msgs[g].parts[k]

LEMMA OldParts ==
  ASSUME SessionType, SessionType', UNCHANGED provider, Stays, NEW i \in 1..Len(items), OfPart(i),
         items'[i] = items[i]
  PROVE  OfPart(i)' /\ PartOf(i)' = PartOf(i)
<1>1. /\ items[i].msg \in 1..Len(msgs) /\ items[i].at \in 1..Len(msgs[items[i].msg].parts)
  BY DEF OfPart
<1>2. Len(msgs) \in Nat /\ Len(msgs') \in Nat
  BY DEF SessionType
<1>3. /\ items[i].msg \in 1..Len(msgs') /\ items[i].at \in 1..Len(msgs'[items[i].msg].parts)
      /\ PartOf(i)' = PartOf(i)
  <2>1. PICK g, k : g = items[i].msg /\ k = items[i].at
    OBVIOUS
  <2>2. g \in 1..Len(msgs) /\ k \in 1..Len(msgs[g].parts)
    BY <1>1, <2>1
  <2>3. k \in 1..Len(msgs'[g].parts) /\ msgs'[g].parts[k] = msgs[g].parts[k] /\ Len(msgs) <= Len(msgs')
    BY <2>2 DEF Stays
  <2>4. g \in 1..Len(msgs')
    BY <1>2, <2>2, <2>3
  <2>5. PartOf(i) = msgs[g].parts[k] /\ PartOf(i)' = msgs'[g].parts[k]
    BY <2>1 DEF PartOf
  <2> QED  BY <2>1, <2>3, <2>4, <2>5
<1>4. \A p : Decoders!Silent(p)' <=> Decoders!Silent(p)
  BY DEF Decoders!Silent
<1> DEFINE p == PartOf(i)
<1>5. PICK q : q = PartOf(i)
  OBVIOUS
<1>6. /\ ~Decoders!Silent(q)
      /\ items[i].kind = "tool_call" <=> q.type = "call"
      /\ items[i].kind = "tool_result" <=> q.type \in {"return", "observation"}
      /\ items[i].key = KeyAt(provider, q, items[i].msg, items[i].at)
      /\ items[i].name = q.name
      /\ q.type = "return" =>
           items[i].parent = KeyAt(provider, [q EXCEPT !.type = "call"], items[i].msg, items[i].at)
  BY <1>5 DEF OfPart
<1>7. ~Decoders!Silent(q)' /\ q = PartOf(i)'
  BY <1>3, <1>4, <1>5, <1>6
<1>8. ~Decoders!Silent(PartOf(i))'
  BY <1>7
<1> QED  BY <1>3, <1>5, <1>6, <1>7, <1>8 DEF OfPart

\* Items of before are those of the same parts, and new items come behind them.
Follows == /\ Len(items) <= Len(items')
           /\ \A i \in 1..Len(items) : items'[i] = items[i]

\* An observation ends its step, so that what it answers cannot change.
LEMMA StepEnds ==
  ASSUME SessionType, SessionType', AllShaped, AllShaped', UNCHANGED provider, Stays,
         provider = "smolagents", NEW i \in 1..Len(items), OfPart(i),
         items[i].kind = "tool_result", NEW h, h = items[i].msg
  PROVE  Decoders!CallsIn(h)' = Decoders!CallsIn(h)
<1> DEFINE g == items[i].msg
           k == items[i].at
<1>1. g \in 1..Len(msgs) /\ k \in 1..Len(msgs[g].parts) /\ PartOf(i) = msgs[g].parts[k]
      /\ PartOf(i).type \in {"return", "observation"}
  BY Zenon DEF OfPart, PartOf
<1>2. h = g
  OBVIOUS
<1>3. PICK l : l = k
  OBVIOUS
<1>4. /\ Len(msgs) \in Nat /\ Len(msgs') \in Nat /\ h \in 1..Len(msgs) /\ h \in 1..Len(msgs')
      /\ msgs[h] \in Recorded /\ msgs'[h] \in Recorded
  BY <1>1, <1>2 DEF SessionType, Stays
<1>5. msgs[h].parts \in Seq(Decoders!Part) /\ msgs'[h].parts \in Seq(Decoders!Part)
  BY <1>4 DEF Recorded
<1>6. /\ l \in 1..Len(msgs[h].parts) /\ msgs[h].parts[l].type \in {"return", "observation"}
      /\ l \in 1..Len(msgs'[h].parts) /\ msgs'[h].parts[l] = msgs[h].parts[l]
  BY <1>1, <1>2, <1>3 DEF Stays
<1>7. Shaped(msgs[h])
  BY <1>4 DEF AllShaped
<1>8. msgs[h].parts[l].type = "observation"
  <2>1. /\ msgs[h].role \in Decoders!Role
        /\ msgs[h].parts[l].type \in Decoders!Types(msgs[h].role) \ {"unknown"}
    BY <1>6, <1>7 DEF Shaped
  <2> QED  BY <1>6, <2>1, TypesKnown DEF SessionType
<1>9. l = Len(msgs[h].parts)
  BY <1>6, <1>7, <1>8 DEF Shaped
<1>10. l = Len(msgs'[h].parts)
  <2>1. (\A c \in 1..Len(msgs[h].parts) : msgs[h].parts[c].type = "observation"
           => c = Len(msgs[h].parts))'
    BY <1>4 DEF AllShaped, Shaped
  <2> QED  BY <1>6, <1>8, <2>1
<1>11. \A c \in 1..Len(msgs[h].parts) : msgs'[h].parts[c] = msgs[h].parts[c]
  BY <1>4 DEF Stays
<1>12. {c \in 1..Len(msgs'[h].parts) : msgs'[h].parts[c].type = "call"}
         = {c \in 1..Len(msgs[h].parts) : msgs[h].parts[c].type = "call"}
  BY <1>9, <1>10, <1>11
<1> QED  BY <1>12 DEF Decoders!CallsIn

\* What was answered stays so.
LEMMA OldAnswered ==
  ASSUME SessionType, SessionType', AllShaped, AllShaped', OfParts, Answered, UNCHANGED provider,
         Stays, Follows, NEW i \in 1..Len(items), items[i].kind = "tool_result",
         NEW h, h = items[i].msg
  PROVE  /\ provider \in Decoders!Strict => \E j \in Decoders!Callers(i)' : j < i
         /\ provider = "smolagents" =>
              IF Decoders!CallsIn(h)' = {} THEN items'[i].parent = <<>>
              ELSE \E j \in Decoders!Callers(i)' :
                     /\ items'[j].msg = h
                     /\ items'[j].at = Decoders!Max(Decoders!CallsIn(h)')
<1>1. /\ Len(items) \in Nat /\ Len(items') \in Nat /\ items'[i] = items[i] /\ OfPart(i)
  BY DEF SessionType, Follows, OfParts
<1>2. \A j \in Decoders!Callers(i) :
         j \in Decoders!Callers(i)' /\ j \in 1..Len(items) /\ items'[j] = items[j]
  BY <1>1 DEF Decoders!Callers, Decoders!Calls, Follows
<1>3. provider \in Decoders!Strict => \E j \in Decoders!Callers(i)' : j < i
  BY <1>2 DEF Answered
<1>4. ASSUME provider = "smolagents"
      PROVE  IF Decoders!CallsIn(h)' = {} THEN items'[i].parent = <<>>
             ELSE \E j \in Decoders!Callers(i)' :
                    /\ items'[j].msg = h
                    /\ items'[j].at = Decoders!Max(Decoders!CallsIn(h)')
  <2>1. Decoders!CallsIn(h)' = Decoders!CallsIn(h)
    BY <1>1, <1>4, StepEnds
  <2>2. IF Decoders!CallsIn(h) = {} THEN items[i].parent = <<>>
        ELSE \E j \in Decoders!Callers(i) :
               items[j].msg = h /\ items[j].at = Decoders!Max(Decoders!CallsIn(h))
    BY <1>4 DEF Answered
  <2> QED  BY <1>1, <1>2, <2>1, <2>2
<1> QED  BY <1>3, <1>4

\* Entries and parts that say nothing.
LEMMA SilentJoins ==
  ASSUME SessionInv, step = "reading", UNCHANGED <<provider, step, items>>, SessionType', AllShaped',
         Stays,
         \A g \in 1..Len(msgs') : \A k \in 1..Len(msgs'[g].parts) :
            \/ g \in 1..Len(msgs) /\ k \in 1..Len(msgs[g].parts)
            \/ Decoders!Silent(msgs'[g].parts[k])
  PROVE  SessionInv'
<1>1. SessionType /\ AllShaped /\ OfParts /\ NoneLost /\ InTurn /\ Answered
  BY DEF SessionInv
<1>2. Follows
  BY <1>1 DEF Follows, SessionType
<1>3. OfParts'
  BY <1>1, OldParts DEF OfParts
<1>4. \A p : Decoders!Silent(p)' <=> Decoders!Silent(p)
  BY DEF Decoders!Silent
<1>5. NoneLost'
  <2> SUFFICES ASSUME NEW g \in 1..Len(msgs'), NEW k \in 1..Len(msgs'[g].parts),
                      ~Decoders!Silent(msgs[g].parts[k])'
               PROVE  \E i \in 1..Len(items) : items[i].msg = g /\ items[i].at = k
    BY DEF NoneLost
  <2>1. PICK p : p = msgs'[g].parts[k]
    OBVIOUS
  <2>2. ~Decoders!Silent(p)'
    BY <2>1
  <2>3. ~Decoders!Silent(p)
    BY <1>4, <2>2
  <2>4. g \in 1..Len(msgs) /\ k \in 1..Len(msgs[g].parts)
    BY <2>1, <2>3
  <2>5. msgs[g].parts[k] = p
    BY <2>1, <2>4 DEF Stays
  <2> QED  BY <1>1, <2>3, <2>4, <2>5 DEF NoneLost
<1>6. InTurn'
  BY <1>1 DEF InTurn, Before
<1>7. Answered'
  <2> SUFFICES ASSUME NEW i \in 1..Len(items'), items'[i].kind = "tool_result"
               PROVE  (/\ provider \in Decoders!Strict => \E j \in Decoders!Callers(i) : j < i
                       /\ provider = "smolagents" =>
                            IF Decoders!CallsIn(items[i].msg) = {} THEN items[i].parent = <<>>
                            ELSE \E j \in Decoders!Callers(i) :
                                   /\ items[j].msg = items[i].msg
                                   /\ items[j].at = Decoders!Max(Decoders!CallsIn(items[i].msg)))'
    BY DEF Answered
  <2>1. PICK h : h = items[i].msg
    OBVIOUS
  <2>2. i \in 1..Len(items) /\ items'[i] = items[i] /\ h = items'[i].msg
    BY <2>1
  <2> QED  BY <1>1, <1>2, <2>1, <2>2, OldAnswered
<1> QED  BY <1>3, <1>5, <1>6, <1>7 DEF SessionInv

LEMMA Triples == ASSUME NEW a, NEW b, NEW c, NEW d PROVE <<a>> \o <<b, c, d>> = <<a, b, c, d>>
<1> DEFINE S == {a, b, c, d}
           s == <<a>>
           t == <<b, c, d>>
           u == <<a, b, c, d>>
<1>1. /\ s \in Seq(S) /\ t \in Seq(S) /\ u \in Seq(S)
      /\ Len(s) = 1 /\ Len(t) = 3 /\ Len(u) = 4
      /\ s[1] = a /\ t[1] = b /\ t[2] = c /\ t[3] = d
      /\ u[1] = a /\ u[2] = b /\ u[3] = c /\ u[4] = d
  OBVIOUS
<1> HIDE DEF S, s, t, u
<1>2. /\ s \o t \in Seq(S) /\ Len(s \o t) = Len(s) + Len(t)
      /\ \A i \in 1..(Len(s) + Len(t)) : (s \o t)[i] = IF i <= Len(s) THEN s[i] ELSE t[i - Len(s)]
  BY <1>1, ConcatProperties, Zenon
<1>3. \A i \in 1..Len(u) : (s \o t)[i] = u[i]
  BY <1>1, <1>2
<1>4. s \o t = u
  <2>1. s \o t \in Seq(S) /\ u \in Seq(S) /\ Len(s \o t) = Len(u)
    BY <1>1, <1>2
  <2>2. \A i \in 1..Len(s \o t) : (s \o t)[i] = u[i]
    BY <1>3, <2>1
  <2> QED  BY <2>1, <2>2, SeqEqual, Zenon
<1> QED  BY <1>4 DEF s, t, u

\* What has a name is known by it, what has none by its place.
LEMMA NamedKeys ==
  ASSUME NEW t, NEW n, NEW m, NEW g, NEW k, NEW h, NEW l, g # h \/ k # l
  PROVE  Known(t, n, g, k) = Known(t, m, h, l) <=> n = m /\ n # Nameless
<1>1. CASE n = "" /\ m = ""
  BY <1>1 DEF Known, Nameless
<1>2. CASE n # "" /\ m # ""
  BY <1>2 DEF Known, Nameless
<1>3. CASE n = "" /\ m # ""
  BY <1>3 DEF Known, Nameless
<1>4. CASE n # "" /\ m = ""
  BY <1>4 DEF Known, Nameless
<1> QED  BY <1>1, <1>2, <1>3, <1>4

LEMMA NatMaximum ==
  ASSUME NEW n \in Nat, NEW S \in SUBSET (1..n), S # {}
  PROVE  \E x \in S : \A y \in S : y <= x
<1> DEFINE T == {n - x : x \in S}
<1>1. T \in SUBSET Nat /\ T # {}
  <2>1. \A x \in S : x \in 1..n
    OBVIOUS
  <2>2. \A x \in S : n - x \in Nat
    BY <2>1
  <2> QED  BY <2>2
<1> HIDE DEF T
<1>2. PICK t \in T : \A u \in T : t <= u
  BY <1>1, NatMinimum
<1>3. PICK x \in S : t = n - x
  BY <1>2 DEF T
<1>4. \A y \in S : n - y \in T
  BY DEF T
<1>5. \A y \in S : y <= x
  BY <1>2, <1>3, <1>4
<1> QED  BY <1>5

LEMMA MaxIs ==
  ASSUME NEW S \in SUBSET Nat, NEW x \in S, \A y \in S : y <= x
  PROVE  Decoders!Max(S) = x
<1>1. \A z \in S : (\A y \in S : y <= z) => z = x
  OBVIOUS
<1> QED  BY <1>1 DEF Decoders!Max

\* What an item says of its part, and that an answer has its call.
Telling(x, p, g, k) ==
    /\ x.msg = g /\ x.at = k /\ x.name = p.name /\ x.key = KeyAt(provider, p, g, k)
    /\ x.kind = "tool_call" <=> p.type = "call"
    /\ x.kind = "tool_result" <=> p.type \in {"return", "observation"}
    /\ p.type = "return" => x.parent = KeyAt(provider, [p EXCEPT !.type = "call"], g, k)
Meeting(x, g) ==
    /\ provider \in Decoders!Strict /\ x.kind = "tool_result" =>
         \E j \in Decoders!Calls : items[j].key = x.parent
    /\ provider = "smolagents" /\ x.kind = "tool_result" =>
         IF Decoders!CallsIn(g)' = {} THEN x.parent = <<>>
         ELSE \E j \in Decoders!Calls : /\ items[j].key = x.parent /\ items[j].msg = g
                                        /\ items[j].at = Decoders!Max(Decoders!CallsIn(g)')

\* A part is read at the end of the last entry.
Landing(p, g, k) ==
    /\ g = Len(msgs) /\ g > 0 /\ Len(msgs') = g /\ \A h \in 1..(g - 1) : msgs'[h] = msgs[h]
    /\ k = Len(msgs[g].parts) + 1 /\ Len(msgs'[g].parts) = k /\ p = msgs'[g].parts[k]

\* A part that becomes an item.
LEMMA PartJoins ==
  ASSUME SessionInv, step = "reading", UNCHANGED <<provider, step>>, SessionType', AllShaped', Stays,
         NEW g \in Nat, NEW k \in Nat, NEW p \in Decoders!Part, Landing(p, g, k), ~Decoders!Silent(p),
         NEW x \in Spoken, items' = Append(items, x),
         Telling(x, p, g, k), Meeting(x, g)
  PROVE  SessionInv'
<1> DEFINE n == Len(items)
<1>1. SessionType /\ AllShaped /\ OfParts /\ NoneLost /\ InTurn /\ Answered
  BY DEF SessionInv
<1>2. /\ n \in Nat /\ Len(items') = n + 1 /\ \A j \in 1..n : items'[j] = items[j]
      /\ items'[n + 1] = x
  BY <1>1 DEF SessionType
<1>3. n = Len(items)
  OBVIOUS
<1> HIDE DEF n
<1>4. Follows
  BY <1>2, <1>3 DEF Follows
<1>5. \A i \in 1..Len(items') : i \in 1..n \/ i = n + 1
  BY <1>2
<1>6. ASSUME NEW i, i = n + 1 PROVE OfPart(i)' /\ PartOf(i)' = p
  <2>1. items'[i] = x /\ PartOf(i)' = p
    BY <1>2, <1>6 DEF PartOf, Telling, Landing
  <2>2. Decoders!Silent(p)' <=> Decoders!Silent(p)
    BY DEF Decoders!Silent
  <2>3. ~Decoders!Silent(PartOf(i))'
    BY <2>1, <2>2
  <2>4. x.msg \in 1..Len(msgs') /\ x.at \in 1..Len(msgs'[x.msg].parts)
    BY DEF Telling, Landing
  <2> QED  BY <2>1, <2>3, <2>4 DEF OfPart, Telling
<1>7. OfParts'
  <2>1. \A i \in 1..n : OfPart(i)'
    BY <1>1, <1>2, <1>3, OldParts DEF OfParts
  <2> QED  BY <1>5, <1>6, <2>1 DEF OfParts
<1>8. NoneLost'
  <2> SUFFICES ASSUME NEW h \in 1..Len(msgs'), NEW l \in 1..Len(msgs'[h].parts),
                      ~Decoders!Silent(msgs[h].parts[l])'
               PROVE  \E i \in 1..Len(items') : items'[i].msg = h /\ items'[i].at = l
    BY DEF NoneLost
  <2>1. PICK q : q = msgs'[h].parts[l]
    OBVIOUS
  <2>2. ~Decoders!Silent(q)'
    BY <2>1
  <2>3. ~Decoders!Silent(q)
    BY <2>2 DEF Decoders!Silent
  <2>4. CASE h = g /\ l = k
    BY <1>2, <2>4 DEF Telling
  <2>5. CASE ~(h = g /\ l = k)
    <3>1. h \in 1..Len(msgs)
      BY DEF Landing
    <3>2. msgs[h] \in Recorded
      BY <1>1, <3>1 DEF SessionType
    <3>3. Len(msgs[h].parts) \in Nat
      BY <3>2 DEF Recorded
    <3>4. l \in 1..Len(msgs[h].parts)
      BY <2>5, <3>1, <3>3 DEF Landing
    <3>5. msgs[h].parts[l] = q
      BY <2>1, <3>1, <3>4 DEF Stays
    <3>6. PICK i \in 1..n : items[i].msg = h /\ items[i].at = l
      BY <1>1, <1>3, <2>3, <3>1, <3>4, <3>5 DEF NoneLost
    <3> QED  BY <1>2, <3>6
  <2> QED  BY <2>4, <2>5
<1>9. InTurn'
  <2> SUFFICES ASSUME NEW i \in 1..Len(items'), NEW j \in 1..Len(items'), i < j
               PROVE  Before(items'[i].msg, items'[i].at, items'[j].msg, items'[j].at)
    BY DEF InTurn
  <2>1. i \in 1..n
    BY <1>2, <1>5
  <2>2. CASE j \in 1..n
    BY <1>1, <1>2, <1>3, <2>1, <2>2 DEF InTurn
  <2>3. CASE j = n + 1
    <3>1. items[i].msg \in 1..g /\ items[i].at \in 1..Len(msgs[items[i].msg].parts)
      BY <1>1, <1>3, <2>1 DEF OfParts, OfPart, Landing
    <3>2. items[i].msg < g \/ (items[i].msg = g /\ items[i].at < k)
      BY <3>1 DEF Landing
    <3> QED  BY <1>2, <2>1, <2>3, <3>2 DEF Before, Telling
  <2> QED  BY <1>5, <2>2, <2>3
<1>10. Answered'
  <2> SUFFICES ASSUME NEW i \in 1..Len(items'), items'[i].kind = "tool_result"
               PROVE  (/\ provider \in Decoders!Strict => \E j \in Decoders!Callers(i) : j < i
                       /\ provider = "smolagents" =>
                            IF Decoders!CallsIn(items[i].msg) = {} THEN items[i].parent = <<>>
                            ELSE \E j \in Decoders!Callers(i) :
                                   /\ items[j].msg = items[i].msg
                                   /\ items[j].at = Decoders!Max(Decoders!CallsIn(items[i].msg)))'
    BY DEF Answered
  <2>1. PICK h : h = items'[i].msg
    OBVIOUS
  <2>2. CASE i \in 1..n
    <3>1. /\ items'[i] = items[i] /\ items[i].kind = "tool_result" /\ h = items[i].msg
          /\ i \in 1..Len(items) /\ UNCHANGED provider
      BY <1>2, <1>3, <2>1, <2>2
    <3>2. /\ provider \in Decoders!Strict => \E j \in Decoders!Callers(i)' : j < i
          /\ provider = "smolagents" =>
               IF Decoders!CallsIn(h)' = {} THEN items'[i].parent = <<>>
               ELSE \E j \in Decoders!Callers(i)' :
                      items'[j].msg = h /\ items'[j].at = Decoders!Max(Decoders!CallsIn(h)')
      <4>1. /\ SessionType /\ SessionType' /\ AllShaped /\ AllShaped' /\ OfParts /\ Answered
            /\ UNCHANGED provider /\ Stays /\ Follows
        BY <1>1, <1>4
      <4>2. i \in 1..Len(items) /\ items[i].kind = "tool_result" /\ h = items[i].msg
        BY <3>1
      <4> QED  BY ONLY <4>1, <4>2, OldAnswered, Zenon
    <3> QED  BY <2>1, <3>2
  <2>3. CASE i = n + 1
    <3>1. items'[i] = x /\ h = g
      BY <1>2, <2>1, <2>3 DEF Telling
    <3>2. \A j \in Decoders!Calls : items[j].key = x.parent =>
            j \in Decoders!Callers(i)' /\ j < i /\ items'[j] = items[j]
      BY <1>2, <1>3, <2>3, <3>1 DEF Decoders!Callers, Decoders!Calls
    <3>3. provider \in Decoders!Strict => \E j \in Decoders!Callers(i)' : j < i
      BY <3>1, <3>2 DEF Meeting
    <3>4. provider = "smolagents" =>
               IF Decoders!CallsIn(h)' = {} THEN items'[i].parent = <<>>
               ELSE \E j \in Decoders!Callers(i)' :
                      items'[j].msg = h /\ items'[j].at = Decoders!Max(Decoders!CallsIn(h)')
      BY <3>1, <3>2 DEF Meeting
    <3> QED  BY <2>1, <3>3, <3>4
  <2> QED  BY <1>5, <2>2, <2>3
<1> QED  BY <1>7, <1>8, <1>9, <1>10 DEF SessionInv

LEMMA NewEntryKeeps ==
  ASSUME SessionInv, NEW role \in Decoders!Role, Decoders!NewEntry(role)
  PROVE  SessionInv'
<1> DEFINE e == [role |-> role, parts |-> <<>>]
<1>1. /\ step = "reading" /\ role # "unknown" /\ msgs' = Append(msgs, e)
      /\ UNCHANGED <<provider, step, items>> /\ SessionType /\ AllShaped
  BY DEF Decoders!NewEntry, SessionInv
<1>2. role \in EntryRoles
  BY <1>1 DEF Decoders!Role, EntryRoles
<1>3. e \in Recorded /\ e.parts = <<>> /\ e.role = role
  <2>1. <<>> \in Seq(Decoders!Part)
    OBVIOUS
  <2> QED  BY <1>2, <2>1 DEF Recorded
<1> HIDE DEF e
<1>4. /\ Len(msgs) \in Nat /\ msgs' \in Seq(Recorded) /\ Len(msgs') = Len(msgs) + 1
      /\ \A g \in 1..Len(msgs) : msgs'[g] = msgs[g]
      /\ msgs'[Len(msgs) + 1] = e
  BY <1>1, <1>3 DEF SessionType
<1>5. SessionType'
  BY <1>1, <1>4 DEF SessionType
<1>6. \A h \in 1..Len(msgs') : h \in 1..Len(msgs) \/ (h = Len(msgs) + 1 /\ msgs'[h] = e)
  BY <1>4
<1>7. AllShaped'
  <2>1. \A h \in 1..Len(msgs') : /\ msgs'[h].role \in Decoders!Role
                                 /\ \A k \in 1..Len(msgs'[h].parts) : h \in 1..Len(msgs)
    BY <1>1, <1>3, <1>4, <1>6 DEF AllShaped, Shaped
  <2>2. Decoders!Role' = Decoders!Role
    BY <1>1 DEF Decoders!Role
  <2>3. \A r, t : /\ Decoders!Types(r)' = Decoders!Types(r)
                  /\ Decoders!OnePart(r)' <=> Decoders!OnePart(r)
    BY <1>1 DEF Decoders!Types, Decoders!OnePart
  <2> SUFFICES ASSUME NEW h \in 1..Len(msgs') PROVE Shaped(msgs[h])'
    BY DEF AllShaped
  <2>4. CASE h \in 1..Len(msgs)
    <3>1. msgs'[h] = msgs[h] /\ Shaped(msgs[h])
      BY <1>1, <1>4, <2>4 DEF AllShaped
    <3> QED  BY <2>2, <2>3, <3>1 DEF Shaped
  <2>5. CASE h \notin 1..Len(msgs)
    BY <2>1, <2>2, <2>5 DEF Shaped
  <2> QED  BY <2>4, <2>5
<1>8. Stays
  BY <1>4 DEF Stays
<1>9. \A h \in 1..Len(msgs') : \A k \in 1..Len(msgs'[h].parts) :
         h \in 1..Len(msgs) /\ k \in 1..Len(msgs[h].parts)
  BY <1>3, <1>4, <1>6
<1> QED  BY <1>1, <1>5, <1>7, <1>8, <1>9, SilentJoins

LEMMA KeyAtIs ==
  ASSUME NEW by, NEW p \in Decoders!Part, NEW g \in Nat, NEW k \in Nat
  PROVE  KeyAt(by, p, g, k) \in PlaceKeys
<1>1. p.type \in PartTypes /\ p.name \in CallId \cup {""} /\ "" \in CallId \cup {""}
  BY PartsKnown
<1>2. \A t \in PartTypes \cup {"result"}, n \in CallId \cup {""}, a, b \in Nat : <<t, n, a, b>> \in PlaceKeys
  BY DEF PlaceKeys
<1>3. {"call", "result", "text"} \subseteq PartTypes \cup {"result"}
  BY DEF PartTypes
<1> QED  BY <1>1, <1>2, <1>3 DEF KeyAt, Known

\* The keys and parents of the decoders.
LEMMA DecodedKeys ==
  ASSUME NEW p \in Decoders!Part, NEW g \in Nat, g = Decoders!N, NEW k \in Nat, k = Decoders!Here
  PROVE  /\ Decoders!Key(p) = KeyAt(provider, p, g, k)
         /\ p.type = "return" =>
              Decoders!Parent(p) = KeyAt(provider, [p EXCEPT !.type = "call"], g, k)
<1>1. \A t : <<t>> \o Decoders!Id(p) = Known(t, p.name, g, k)
  BY Triples DEF Decoders!Id, Known
<1>2. CASE p.type = "call"
  BY <1>1, <1>2 DEF Decoders!Key, KeyAt
<1>3. CASE p.type = "return"
  <2>1. [p EXCEPT !.type = "call"].type = "call" /\ [p EXCEPT !.type = "call"].name = p.name
    BY DEF Decoders!Part
  <2>2. Decoders!Key(p) = <<"result">> \o Decoders!Id(p) /\ Decoders!Parent(p) = <<"call">> \o Decoders!Id(p)
    BY <1>3 DEF Decoders!Key, Decoders!Parent
  <2> QED  BY <1>1, <1>3, <2>1, <2>2 DEF KeyAt
<1>4. CASE p.type \notin {"call", "return"}
  BY <1>4 DEF Decoders!Key, KeyAt
<1> QED  BY <1>2, <1>3, <1>4

LEMMA DecodedKinds ==
  ASSUME NEW p \in Decoders!Part
  PROVE  /\ Decoders!Kind(p) \in ItemKinds
         /\ Decoders!Kind(p) = "tool_call" <=> p.type = "call"
         /\ Decoders!Kind(p) = "tool_result" <=> p.type \in {"return", "observation"}
         /\ Decoders!Text(p) \in {"words", "blank", "data"}
<1>1. Decoders!Text(p) \in {"words", "blank", "data"}
  BY PartsKnown DEF Decoders!Text
<1>2. CASE p.type = "call"
  BY <1>1, <1>2 DEF Decoders!Kind, ItemKinds
<1>3. CASE p.type \in {"return", "observation"}
  BY <1>1, <1>3 DEF Decoders!Kind, ItemKinds
<1>4. CASE p.type \notin {"call", "return", "observation"}
  <2>1. Decoders!Kind(p) \in {"user_turn", "policy", "plan_state", "agent_msg"}
    BY <1>4 DEF Decoders!Kind
  <2> QED  BY <1>1, <1>4, <2>1 DEF ItemKinds
<1> QED  BY <1>2, <1>3, <1>4

\* A part joins the last entry.
LEMMA PartLands ==
  ASSUME SessionInv, NEW p \in Decoders!Part, Decoders!ReadPart(p)
  PROVE  /\ SessionType /\ AllShaped /\ OfParts /\ NoneLost /\ InTurn
         /\ Len(msgs) \in Nat \ {0} /\ msgs[Len(msgs)] \in Recorded
         /\ Len(msgs[Len(msgs)].parts) \in Nat /\ Decoders!N = Len(msgs)
         /\ Decoders!Here = Len(msgs[Len(msgs)].parts) + 1
         /\ msgs' \in Seq(Recorded) /\ Len(msgs') = Len(msgs)
         /\ \A h \in 1..(Len(msgs) - 1) : msgs'[h] = msgs[h]
         /\ msgs'[Len(msgs)].role = msgs[Len(msgs)].role
         /\ Len(msgs'[Len(msgs)].parts) = Len(msgs[Len(msgs)].parts) + 1
         /\ \A k \in 1..Len(msgs[Len(msgs)].parts) :
              msgs'[Len(msgs)].parts[k] = msgs[Len(msgs)].parts[k]
         /\ msgs'[Len(msgs)].parts[Len(msgs[Len(msgs)].parts) + 1] = p
         /\ Stays /\ AllShaped'
         /\ UNCHANGED <<provider, step>> /\ step = "reading"
<1>1. /\ step = "reading" /\ UNCHANGED <<provider, step>> /\ Len(msgs) > 0
      /\ msgs' = [msgs EXCEPT ![Len(msgs)].parts = Append(@, p)] /\ Decoders!Placed(p)
      /\ ~Decoders!Raises(p)
      /\ SessionType /\ AllShaped /\ OfParts /\ NoneLost /\ InTurn
  BY DEF Decoders!ReadPart, Decoders!N, SessionInv
<1>2. PICK g \in Nat : g = Len(msgs) /\ msgs \in Seq(Recorded) /\ g \in 1..g
  BY <1>1 DEF SessionType
<1>3. PICK e \in Recorded : e = msgs[g]
  BY <1>2
<1>4. e.parts \in Seq(Decoders!Part) /\ Len(e.parts) \in Nat
  BY DEF Recorded
<1>5. PICK parts : parts = Append(e.parts, p)
  OBVIOUS
<1>6. /\ parts \in Seq(Decoders!Part) /\ Len(parts) = Len(e.parts) + 1
      /\ \A k \in 1..Len(e.parts) : parts[k] = e.parts[k]
      /\ parts[Len(e.parts) + 1] = p
  BY <1>4, <1>5
<1>7. PICK new : new = [e EXCEPT !.parts = parts]
  OBVIOUS
<1>8. new \in Recorded /\ new.parts = parts /\ new.role = e.role
  BY <1>6, <1>7 DEF Recorded
<1>9. msgs' = [msgs EXCEPT ![g] = new]
  BY <1>1, <1>2, <1>3, <1>5, <1>7
<1>10. /\ msgs' \in Seq(Recorded) /\ Len(msgs') = g /\ msgs'[g] = new
       /\ \A h \in 1..g : h # g => msgs'[h] = msgs[h]
  BY <1>2, <1>8, <1>9
<1>11. Stays
  <2>1. \A h \in 1..g : \A k \in 1..Len(msgs[h].parts) :
           k \in 1..Len(msgs'[h].parts) /\ msgs'[h].parts[k] = msgs[h].parts[k]
    BY <1>2, <1>3, <1>4, <1>6, <1>8, <1>10
  <2> QED  BY <1>2, <1>10, <2>1 DEF Stays
<1>12. Decoders!Role' = Decoders!Role
  BY <1>1 DEF Decoders!Role
<1>13. \A r, t : /\ Decoders!Types(r)' = Decoders!Types(r)
                 /\ Decoders!OnePart(r)' <=> Decoders!OnePart(r)
  BY <1>1 DEF Decoders!Types, Decoders!OnePart
<1>14. /\ p.type \in Decoders!Types(e.role)
       /\ \/ Decoders!OnePart(e.role) \/ p.type = "reasoning"
          \/ e.role = "assistant" /\ p.type = "text"
          => e.parts = <<>>
       /\ \A k \in 1..Len(e.parts) : e.parts[k].type # "observation"
  BY <1>1, <1>2, <1>3 DEF Decoders!Placed, Decoders!N
<1>15. p.type # "unknown"
  BY <1>1 DEF Decoders!Raises
<1>16. Shaped(e)
  BY <1>1, <1>2, <1>3 DEF AllShaped
<1>17. (Shaped(new))'
  <2> SUFFICES ASSUME NEW k \in 1..Len(new.parts)
               PROVE  /\ new.parts[k].type \in Decoders!Types(e.role) \ {"unknown"}
                      /\ \/ Decoders!OnePart(e.role) \/ new.parts[k].type = "reasoning"
                         \/ e.role = "assistant" /\ new.parts[k].type = "text"
                         => k = 1
                      /\ new.parts[k].type = "observation" => k = Len(new.parts)
    BY <1>8, <1>12, <1>13, <1>16 DEF Shaped
  <2>1. CASE k \in 1..Len(e.parts)
    BY <1>6, <1>8, <1>14, <1>16, <2>1 DEF Shaped
  <2>2. CASE k = Len(e.parts) + 1
    <3>1. new.parts[k] = p
      BY <1>6, <1>8, <2>2
    <3>2. e.parts = <<>> => k = 1
      BY <2>2
    <3>3. \/ Decoders!OnePart(e.role) \/ p.type = "reasoning"
          \/ e.role = "assistant" /\ p.type = "text"
          => k = 1
      BY <1>14, <3>2
    <3>4. k = Len(new.parts)
      BY <1>6, <1>8, <2>2
    <3> QED  BY <1>14, <1>15, <3>1, <3>3, <3>4
  <2> QED  BY <1>4, <1>6, <1>8, <2>1, <2>2
<1>18. AllShaped'
  <2> SUFFICES ASSUME NEW h \in 1..Len(msgs') PROVE Shaped(msgs[h])'
    BY DEF AllShaped
  <2>1. CASE h = g
    BY <1>10, <1>17, <2>1 DEF Shaped
  <2>2. CASE h # g
    <3>1. h \in 1..Len(msgs) /\ msgs'[h] = msgs[h]
      BY <1>2, <1>10, <2>2
    <3>2. Shaped(msgs[h])
      BY <1>1, <3>1 DEF AllShaped
    <3> QED  BY <1>12, <1>13, <3>1, <3>2 DEF Shaped
  <2> QED  BY <2>1, <2>2
<1>19. Decoders!N = g /\ Decoders!Here = Len(e.parts) + 1
  BY <1>2, <1>3 DEF Decoders!N, Decoders!Here
<1>20. \A h \in 1..(g - 1) : msgs'[h] = msgs[h]
  BY <1>10
<1> QED
  BY <1>1, <1>2, <1>3, <1>4, <1>6, <1>8, <1>10, <1>11, <1>18, <1>19, <1>20

\* An observation is of the last call of its step.
LEMMA OwnerIsLast ==
  ASSUME SessionType, OfParts, NoneLost, InTurn, Len(msgs) > 0
  PROVE  IF Decoders!CallsIn(Len(msgs)) = {} THEN Decoders!Owner = <<>>
         ELSE \E j \in Decoders!Calls :
                /\ items[j].key = Decoders!Owner /\ items[j].msg = Len(msgs)
                /\ items[j].at = Decoders!Max(Decoders!CallsIn(Len(msgs)))
<1> DEFINE own == {i \in Decoders!Calls : items[i].msg = Decoders!N}
<1>1. PICK g \in Nat : g = Len(msgs) /\ Decoders!N = g /\ g \in 1..Len(msgs) /\ msgs[g] \in Recorded
  BY DEF SessionType, Decoders!N
<1>2. PICK n \in Nat : n = Len(items)
  BY DEF SessionType
<1>3. msgs[g].parts \in Seq(Decoders!Part) /\ Len(msgs[g].parts) \in Nat
  BY <1>1 DEF Recorded
<1>4. own \subseteq 1..n
  BY <1>2 DEF Decoders!Calls
<1>5. \A i \in own : items[i].at \in Decoders!CallsIn(g) /\ i \in Decoders!Calls /\ items[i].msg = g
  BY <1>1, <1>2 DEF Decoders!Calls, Decoders!CallsIn, OfParts, OfPart, PartOf
<1>6. ASSUME NEW k \in Decoders!CallsIn(g) PROVE \E i \in own : items[i].at = k
  <2>1. k \in 1..Len(msgs[g].parts) /\ msgs[g].parts[k].type = "call"
    BY <1>6 DEF Decoders!CallsIn
  <2>2. msgs[g].parts[k] \in Decoders!Part
    BY <1>3, <2>1
  <2>3. ~Decoders!Silent(msgs[g].parts[k])
    BY <2>1, <2>2, PartsKnown DEF Decoders!Silent
  <2>4. PICK i \in 1..n : items[i].msg = g /\ items[i].at = k
    BY <1>1, <1>2, <2>1, <2>3 DEF NoneLost
  <2>5. items[i].kind = "tool_call"
    BY <1>2, <2>1, <2>4 DEF OfParts, OfPart, PartOf
  <2> QED  BY <1>1, <1>2, <2>4, <2>5 DEF Decoders!Calls
<1>7. Decoders!Owner = IF own = {} THEN <<>> ELSE items[Decoders!Max(own)].key
  BY DEF Decoders!Owner
<1> HIDE DEF own
<1>8. CASE own = {}
  BY <1>1, <1>6, <1>7, <1>8
<1>9. CASE own # {}
  <2>1. PICK j \in own : \A i \in own : i <= j
    BY <1>4, <1>9, NatMaximum
  <2>2. Decoders!Max(own) = j
    BY <1>4, <2>1, MaxIs
  <2>3. \A k \in Decoders!CallsIn(g) : k <= items[j].at
    <3> SUFFICES ASSUME NEW k \in Decoders!CallsIn(g) PROVE k <= items[j].at
      OBVIOUS
    <3>1. PICK i \in own : items[i].at = k
      BY <1>6
    <3>2. i \in 1..n /\ j \in 1..n /\ i <= j /\ items[i].msg = g /\ items[j].msg = g
      BY <1>4, <1>5, <2>1
    <3>3. items[i] \in Spoken /\ items[j] \in Spoken
      BY <1>2, <3>2 DEF SessionType
    <3>4. items[i].at \in Nat /\ items[j].at \in Nat
      BY <3>3 DEF Spoken
    <3>5. i < j => items[i].at < items[j].at
      BY <1>1, <1>2, <3>2 DEF InTurn, Before
    <3> QED  BY <3>1, <3>2, <3>4, <3>5
  <2>4. Decoders!CallsIn(g) \in SUBSET Nat
    BY <1>3 DEF Decoders!CallsIn
  <2>5. Decoders!Max(Decoders!CallsIn(g)) = items[j].at
    BY <1>5, <2>1, <2>3, <2>4, MaxIs
  <2> QED  BY <1>1, <1>5, <1>7, <1>9, <2>1, <2>2, <2>5
<1> QED  BY <1>8, <1>9

LEMMA ReadPartKeeps ==
  ASSUME SessionInv, NEW p \in Decoders!Part, Decoders!ReadPart(p)
  PROVE  SessionInv'
<1> DEFINE g == Len(msgs)
           k == Len(msgs[g].parts) + 1
<1>1. /\ SessionType /\ AllShaped /\ OfParts /\ NoneLost /\ InTurn
      /\ g \in Nat \ {0} /\ msgs[g] \in Recorded /\ k \in Nat /\ k > 0
      /\ Decoders!N = g /\ Decoders!Here = k
      /\ msgs' \in Seq(Recorded) /\ Len(msgs') = g
      /\ \A h \in 1..(g - 1) : msgs'[h] = msgs[h]
      /\ msgs'[g].role = msgs[g].role
      /\ Len(msgs'[g].parts) = k
      /\ \A l \in 1..(k - 1) : msgs'[g].parts[l] = msgs[g].parts[l]
      /\ msgs'[g].parts[k] = p
      /\ Stays /\ AllShaped' /\ UNCHANGED <<provider, step>> /\ step = "reading"
  BY PartLands
<1> DEFINE x == [kind |-> Decoders!Kind(p), key |-> Decoders!Key(p), parent |-> Decoders!Parent(p),
                 name |-> p.name, text |-> Decoders!Text(p), msg |-> Decoders!N, at |-> Decoders!Here]
<1>2. items' = IF Decoders!Silent(p) THEN items ELSE Append(items, x)
  BY DEF Decoders!ReadPart
<1>3. ~Decoders!Raises(p) /\ Decoders!Placed(p)
  BY DEF Decoders!ReadPart
<1>4. p.type # "unknown" /\ p.type \in Decoders!Types(msgs[g].role) /\ msgs[g].role \in Decoders!Role
  <2>1. p.type # "unknown"
    BY <1>3 DEF Decoders!Raises
  <2>2. g \in 1..Len(msgs)
    BY <1>1
  <2>3. msgs[g].role \in Decoders!Role
    BY <1>1, <2>2 DEF AllShaped, Shaped
  <2>4. p.type \in Decoders!Types(msgs[Decoders!N].role)
    BY <1>3 DEF Decoders!Placed
  <2> QED  BY <1>1, <2>1, <2>3, <2>4
<1>5. \A h \in 1..Len(msgs') : \A l \in 1..Len(msgs'[h].parts) :
         \/ h \in 1..Len(msgs) /\ l \in 1..Len(msgs[h].parts)
         \/ msgs'[h].parts[l] = p
  <2> SUFFICES ASSUME NEW h \in 1..Len(msgs'), NEW l \in 1..Len(msgs'[h].parts)
               PROVE  \/ h \in 1..Len(msgs) /\ l \in 1..Len(msgs[h].parts)
                      \/ msgs'[h].parts[l] = p
    OBVIOUS
  <2>1. CASE h = g
    BY <1>1, <2>1
  <2>2. CASE h # g
    BY <1>1, <2>2
  <2> QED  BY <2>1, <2>2
<1>6. CASE Decoders!Silent(p)
  <2>1. SessionType' /\ items' = items
    BY <1>1, <1>2, <1>6 DEF SessionType
  <2> QED  BY <1>1, <1>5, <1>6, <2>1, SilentJoins
<1>7. CASE ~Decoders!Silent(p)
  <2> SUFFICES ASSUME NEW a, a = g, NEW b, b = k PROVE SessionInv'
    OBVIOUS
  <2>1. items' = Append(items, x)
    BY <1>2, <1>7
  <2>2. /\ x.key = Decoders!Key(p) /\ x.parent = Decoders!Parent(p) /\ x.name = p.name
        /\ x.text = Decoders!Text(p) /\ x.msg = a /\ x.at = b /\ x.kind = Decoders!Kind(p)
    BY <1>1
  <2>3. /\ x.kind \in ItemKinds
        /\ x.kind = "tool_call" <=> p.type = "call"
        /\ x.kind = "tool_result" <=> p.type \in {"return", "observation"}
        /\ x.text \in {"words", "blank", "data"}
    BY DecodedKinds
  <2>4. /\ x.key = KeyAt(provider, p, a, b)
        /\ p.type = "return" => x.parent = KeyAt(provider, [p EXCEPT !.type = "call"], a, b)
    BY <1>1, DecodedKeys
  <2>5. IF Decoders!CallsIn(a) = {} THEN Decoders!Owner = <<>>
        ELSE \E j \in Decoders!Calls : /\ items[j].key = Decoders!Owner /\ items[j].msg = a
                                       /\ items[j].at = Decoders!Max(Decoders!CallsIn(a))
    BY <1>1, OwnerIsLast
  <2>6. x = [kind |-> x.kind, key |-> x.key, parent |-> x.parent, name |-> x.name, text |-> x.text,
             msg |-> x.msg, at |-> x.at]
    OBVIOUS
  <2>7. p.type \notin {"return", "observation"} => x.parent = <<>>
    BY DEF Decoders!Parent
  <2>8. p.type = "observation" => x.parent = Decoders!Owner
    BY DEF Decoders!Parent
  <2> HIDE DEF x
  <2>9. x.key \in PlaceKeys
    BY <1>1, <2>4, KeyAtIs
  <2>10. x.parent \in PlaceKeys \cup {<<>>}
    <3>1. CASE p.type = "return"
      <4>1. [p EXCEPT !.type = "call"] \in Decoders!Part
        BY <3>1 DEF Decoders!Part
      <4> QED  BY <1>1, <2>4, <3>1, <4>1, KeyAtIs
    <3>2. CASE p.type = "observation"
      <4>1. \A j \in Decoders!Calls : items[j] \in Spoken
        BY <1>1 DEF Decoders!Calls, SessionType
      <4>2. \A j \in Decoders!Calls : items[j].key \in PlaceKeys
        BY <4>1 DEF Spoken
      <4> QED  BY <2>5, <2>8, <3>2, <4>2
    <3> QED  BY <2>7, <3>1, <3>2
  <2>11. x \in Spoken
    <3>1. x.name \in CallId \cup {""} /\ x.msg \in Nat /\ x.at \in Nat
      <4>1. p.name \in CallId \cup {""}
        BY PartsKnown
      <4>2. a \in Nat /\ b \in Nat
        BY <1>1
      <4> QED  BY <2>2, <4>1, <4>2
    <3> QED  BY <2>3, <2>6, <2>9, <2>10, <3>1 DEF Spoken
  <2>12. SessionType'
    <3>1. items' \in Seq(Spoken)
      BY <1>1, <2>1, <2>11 DEF SessionType
    <3> QED  BY <1>1, <3>1 DEF SessionType
  <2>13. provider \in Decoders!Strict /\ x.kind = "tool_result" =>
           \E j \in Decoders!Calls : items[j].key = x.parent
    <3> HAVE provider \in Decoders!Strict /\ x.kind = "tool_result"
    <3>1. provider \in {"pydantic_ai", "agno"} /\ provider \in Decoders!Framework
      BY DEF Decoders!Strict, Decoders!Framework
    <3>2. p.type = "return"
      BY <1>4, <2>3, <3>1, TypesKnown
    <3>3. p.name # "" /\ \E i \in Decoders!Calls : items[i].name = p.name
      BY <1>3, <3>2 DEF Decoders!Raises
    <3>4. PICK j \in Decoders!Calls : items[j].name = p.name
      BY <3>3
    <3>5. j \in 1..Len(items) /\ items[j].kind = "tool_call"
      BY DEF Decoders!Calls
    <3>6. /\ PartOf(j).type = "call" /\ PartOf(j).name = p.name
          /\ items[j].key = KeyAt(provider, PartOf(j), items[j].msg, items[j].at)
      BY <1>1, <3>4, <3>5 DEF OfParts, OfPart
    <3>7. items[j].key = <<"call", p.name, 0, 0>>
      BY <3>3, <3>6 DEF KeyAt, Known
    <3>8. [p EXCEPT !.type = "call"].type = "call" /\ [p EXCEPT !.type = "call"].name = p.name
      BY <3>2 DEF Decoders!Part
    <3>9. x.parent = <<"call", p.name, 0, 0>>
      BY <2>4, <3>2, <3>3, <3>8 DEF KeyAt, Known
    <3> QED  BY <3>7, <3>9
  <2>14. provider = "smolagents" /\ x.kind = "tool_result" =>
            IF Decoders!CallsIn(a)' = {} THEN x.parent = <<>>
            ELSE \E j \in Decoders!Calls : /\ items[j].key = x.parent /\ items[j].msg = a
                                           /\ items[j].at = Decoders!Max(Decoders!CallsIn(a)')
    <3> HAVE provider = "smolagents" /\ x.kind = "tool_result"
    <3>1. p.type = "observation"
      <4>1. provider \in Decoders!Framework
        BY DEF Decoders!Framework
      <4> QED  BY <1>4, <2>3, <4>1, TypesKnown
    <3>2. Decoders!CallsIn(a)' = Decoders!CallsIn(a)
      <4>1. {c \in 1..k : msgs'[g].parts[c].type = "call"}
              = {c \in 1..(k - 1) : msgs[g].parts[c].type = "call"}
        BY <1>1, <3>1
      <4>2. k - 1 = Len(msgs[g].parts)
        BY <1>1
      <4> QED  BY <1>1, <4>1, <4>2 DEF Decoders!CallsIn
    <3> QED  BY <2>5, <2>8, <3>1, <3>2
  <2>15. /\ a \in Nat /\ b \in Nat /\ AllShaped' /\ Stays
         /\ step = "reading" /\ UNCHANGED <<provider, step>>
    BY <1>1
  <2>16. Landing(p, a, b)
    BY <1>1 DEF Landing
  <2>17. Telling(x, p, a, b)
    BY <2>2, <2>3, <2>4 DEF Telling
  <2>18. Meeting(x, a)
    BY <2>13, <2>14 DEF Meeting
  <2> HIDE DEF g, k
  <2> QED  BY ONLY SessionInv, p \in Decoders!Part, <1>7, <2>1, <2>11, <2>12, <2>15, <2>16, <2>17, <2>18, PartJoins
<1> QED  BY <1>6, <1>7

LEMMA SessionStep == SessionInv /\ [Decoders!Next]_Decoders!vars => SessionInv'
<1> SUFFICES ASSUME SessionInv, [Decoders!Next]_Decoders!vars PROVE SessionInv'
  OBVIOUS
<1>1. CASE \E role \in Decoders!Role : Decoders!NewEntry(role)
  BY <1>1, NewEntryKeeps
<1>2. CASE \E p \in Decoders!Part : Decoders!ReadPart(p)
  BY <1>2, ReadPartKeeps
<1>3. ASSUME UNCHANGED <<provider, msgs>>
      PROVE  (SessionType /\ AllShaped => AllShaped') /\ \A p : Decoders!Silent(p)' <=> Decoders!Silent(p)
  <2>1. Decoders!Role' = Decoders!Role /\ \A p : Decoders!Silent(p)' <=> Decoders!Silent(p)
    BY <1>3 DEF Decoders!Role, Decoders!Silent
  <2>2. \A r : /\ Decoders!Types(r)' = Decoders!Types(r)
               /\ Decoders!OnePart(r)' <=> Decoders!OnePart(r)
    BY <1>3 DEF Decoders!Types, Decoders!OnePart
  <2> QED  BY <1>3, <2>1, <2>2 DEF AllShaped, Shaped
<1>4. CASE Decoders!Reject
  <2>1. UNCHANGED <<provider, msgs>> /\ step' = "rejected" /\ items' = <<>>
    BY <1>4 DEF Decoders!Reject
  <2>2. Len(items') = 0 /\ SessionType'
    BY <2>1 DEF SessionInv, SessionType
  <2>3. Answered'
    BY <2>2 DEF Answered
  <2> QED  BY <1>3, <2>1, <2>2, <2>3 DEF SessionInv
<1>5. CASE UNCHANGED <<provider, msgs, items>> /\ step' \in {step, "read"}
           /\ (step' = "read" => step # "rejected")
  <2>1. SessionType' /\ AllShaped'
    BY <1>3, <1>5 DEF SessionInv, SessionType
  <2>2. InTurn => InTurn'
    BY <1>5 DEF InTurn, Before
  <2>3. Answered'
    <3> SUFFICES ASSUME NEW i \in 1..Len(items), items[i].kind = "tool_result"
                 PROVE  (/\ provider \in Decoders!Strict => \E j \in Decoders!Callers(i) : j < i
                         /\ provider = "smolagents" =>
                              IF Decoders!CallsIn(items[i].msg) = {} THEN items[i].parent = <<>>
                              ELSE \E j \in Decoders!Callers(i) :
                                     /\ items[j].msg = items[i].msg
                                     /\ items[j].at = Decoders!Max(Decoders!CallsIn(items[i].msg)))'
      BY <1>5 DEF Answered
    <3>1. SessionType /\ AllShaped /\ AllShaped' /\ Answered
      BY <1>3, <1>5 DEF SessionInv
    <3>2. \A g : Decoders!CallsIn(g)' = Decoders!CallsIn(g)
      BY <1>5 DEF Decoders!CallsIn
    <3>3. Decoders!Callers(i)' = Decoders!Callers(i)
      BY <1>5 DEF Decoders!Callers, Decoders!Calls
    <3>4. PICK h : h = items[i].msg
      OBVIOUS
    <3>5. h = items'[i].msg
      BY <1>5, <3>4
    <3>6. /\ provider \in Decoders!Strict => \E j \in Decoders!Callers(i) : j < i
          /\ provider = "smolagents" =>
               IF Decoders!CallsIn(h) = {} THEN items[i].parent = <<>>
               ELSE \E j \in Decoders!Callers(i) :
                      items[j].msg = h /\ items[j].at = Decoders!Max(Decoders!CallsIn(h))
      BY <3>1, <3>4 DEF Answered
    <3>7. /\ provider' \in Decoders!Strict => \E j \in Decoders!Callers(i)' : j < i
          /\ provider' = "smolagents" =>
               IF Decoders!CallsIn(h)' = {} THEN items'[i].parent = <<>>
               ELSE \E j \in Decoders!Callers(i)' :
                      items'[j].msg = h /\ items'[j].at = Decoders!Max(Decoders!CallsIn(h)')
      BY <1>5, <3>2, <3>3, <3>6
    <3> QED  BY <3>5, <3>7
  <2>4. OfParts => OfParts'
    <3> SUFFICES ASSUME OfParts, NEW i \in 1..Len(items) PROVE OfPart(i)'
      BY <1>5 DEF OfParts
    <3>1. Stays
      BY <1>5 DEF Stays, SessionInv, SessionType
    <3>2. OfPart(i) /\ items'[i] = items[i] /\ SessionType
      BY <1>5 DEF OfParts, SessionInv
    <3> QED  BY <1>5, <2>1, <3>1, <3>2, OldParts
  <2>5. NoneLost => NoneLost'
    <3> SUFFICES ASSUME NoneLost, NEW g \in 1..Len(msgs), NEW k \in 1..Len(msgs[g].parts),
                        ~Decoders!Silent(msgs[g].parts[k])'
                 PROVE  \E i \in 1..Len(items) : items[i].msg = g /\ items[i].at = k
      BY <1>5 DEF NoneLost
    <3>1. PICK q : q = msgs[g].parts[k]
      OBVIOUS
    <3>2. ~Decoders!Silent(q)'
      BY <1>5, <3>1
    <3>3. ~Decoders!Silent(q)
      BY <1>3, <1>5, <3>2
    <3> QED  BY <3>1, <3>3 DEF NoneLost
  <2> QED  BY <1>5, <2>1, <2>2, <2>3, <2>4, <2>5 DEF SessionInv, SessionType
<1>6. CASE Decoders!Finish
  BY <1>5, <1>6 DEF Decoders!Finish
<1>7. CASE UNCHANGED Decoders!vars
  <2>1. UNCHANGED <<provider, msgs, items>> /\ step' = step
    BY <1>7 DEF Decoders!vars
  <2> QED  BY <1>5, <2>1
<1> QED  BY <1>1, <1>2, <1>4, <1>6, <1>7 DEF Decoders!Next

\* A result of a framework that asks for nothing finds the call of its id, if there is one.
LEMMA Lenient ==
  ASSUME SessionType, AllShaped, OfParts, NoneLost, provider \in Decoders!Lenient,
         NEW i \in 1..Len(items), items[i].kind = "tool_result"
  PROVE  Decoders!Callers(i) # {} <=> items[i].name # "" /\ Decoders!CallOf(items[i].name)
<1>1. PICK p, g, k : p = PartOf(i) /\ g = items[i].msg /\ k = items[i].at
  OBVIOUS
<1>2. g \in 1..Len(msgs) /\ k \in 1..Len(msgs[g].parts) /\ p = msgs[g].parts[k]
  BY <1>1 DEF OfParts, OfPart, PartOf
<1>3. \A h \in 1..Len(msgs) : /\ msgs[h] \in Recorded /\ Shaped(msgs[h])
                              /\ \A l \in 1..Len(msgs[h].parts) : msgs[h].parts[l] \in Decoders!Part
  <2>1. \A h \in 1..Len(msgs) : msgs[h] \in Recorded
    BY DEF SessionType
  <2> QED  BY <2>1 DEF AllShaped, Recorded
<1>4. p \in Decoders!Part
  BY <1>2, <1>3
<1>5. p.type = "return"
  <2>1. p.type \in {"return", "observation"}
    BY <1>1 DEF OfParts, OfPart
  <2>2. msgs[g].role \in Decoders!Role /\ p.type \in Decoders!Types(msgs[g].role)
    BY <1>2, <1>3 DEF Shaped
  <2> QED  BY <2>1, <2>2, TypesKnown DEF SessionType, Decoders!Lenient
<1>6. items[i].name = p.name /\ items[i].parent = KeyAt(provider, [p EXCEPT !.type = "call"], g, k)
  BY <1>1, <1>5 DEF OfParts, OfPart
<1>7. [p EXCEPT !.type = "call"].type = "call" /\ [p EXCEPT !.type = "call"].name = p.name
  BY <1>4, <1>5 DEF Decoders!Part
<1>8. items[i].parent = Known("call", p.name, g, k)
  BY <1>6, <1>7 DEF KeyAt
<1>9. ASSUME NEW j \in Decoders!Calls
      PROVE  /\ j \in 1..Len(items) /\ items[j].msg \in 1..Len(msgs)
             /\ items[j].at \in 1..Len(msgs[items[j].msg].parts)
             /\ PartOf(j) = msgs[items[j].msg].parts[items[j].at] /\ PartOf(j).type = "call"
             /\ items[j].key = Known("call", PartOf(j).name, items[j].msg, items[j].at)
  <2>1. j \in 1..Len(items) /\ OfPart(j) /\ items[j].kind = "tool_call"
    BY DEF Decoders!Calls, OfParts
  <2>2. PartOf(j).type = "call" /\ items[j].key = KeyAt(provider, PartOf(j), items[j].msg, items[j].at)
    BY <2>1 DEF OfPart
  <2>3. items[j].key = Known("call", PartOf(j).name, items[j].msg, items[j].at)
    BY <2>2 DEF KeyAt
  <2> QED  BY <2>1, <2>2, <2>3 DEF OfPart, PartOf
<1>10. ASSUME NEW j \in Decoders!Callers(i)
       PROVE  items[i].name # "" /\ Decoders!CallOf(items[i].name)
  <2>1. j \in Decoders!Calls /\ items[j].key = items[i].parent
    BY DEF Decoders!Callers
  <2>2. PICK q, h, l : q = PartOf(j) /\ h = items[j].msg /\ l = items[j].at
    OBVIOUS
  <2>3. q = msgs[h].parts[l] /\ q.type = "call" /\ items[i].parent = Known("call", q.name, h, l)
    BY <1>9, <2>1, <2>2
  <2>4. g # h \/ k # l
    BY <1>2, <1>5, <2>3
  <2>5. q.name = p.name /\ p.name # ""
    <3>1. q.name = p.name /\ p.name # Nameless
      BY <1>8, <2>3, <2>4, NamedKeys
    <3> QED  BY <3>1 DEF Nameless
  <2>6. h \in 1..Len(msgs) /\ l \in 1..Len(msgs[h].parts)
    BY <1>9, <2>1, <2>2
  <2> QED  BY <1>6, <2>3, <2>5, <2>6 DEF Decoders!CallOf, Decoders!N
<1>11. ASSUME items[i].name # "", Decoders!CallOf(items[i].name) PROVE Decoders!Callers(i) # {}
  <2>1. PICK h \in 1..Len(msgs) : \E l \in 1..Len(msgs[h].parts) :
                msgs[h].parts[l].type = "call" /\ msgs[h].parts[l].name = p.name
    BY <1>6, <1>11 DEF Decoders!CallOf, Decoders!N
  <2>2. PICK l \in 1..Len(msgs[h].parts) :
                msgs[h].parts[l].type = "call" /\ msgs[h].parts[l].name = p.name
    BY <2>1
  <2>3. ~Decoders!Silent(msgs[h].parts[l])
    BY <1>3, <2>2, PartsKnown DEF Decoders!Silent
  <2>4. PICK j \in 1..Len(items) : items[j].msg = h /\ items[j].at = l
    BY <2>3 DEF NoneLost
  <2>5. PartOf(j) = msgs[h].parts[l]
    BY <2>4 DEF PartOf
  <2>6. j \in Decoders!Calls
    BY <2>2, <2>5 DEF OfParts, OfPart, Decoders!Calls
  <2>7. items[j].key = Known("call", p.name, 0, 0)
    BY <1>6, <1>9, <1>11, <2>2, <2>5, <2>6 DEF Known
  <2> QED  BY <1>6, <1>8, <1>11, <2>6, <2>7 DEF Decoders!Callers, Known
<1> QED  BY <1>10, <1>11

LEMMA SessionThreads == SessionInv => Decoders!ThreadsHold
<1> SUFFICES ASSUME SessionInv, NEW i \in 1..Len(items), items[i].kind = "tool_result"
             PROVE  CASE provider \in Decoders!Strict -> \E j \in Decoders!Callers(i) : j < i
                      [] provider = "smolagents" ->
                           IF Decoders!CallsIn(items[i].msg) = {} THEN items[i].parent = <<>>
                           ELSE \E j \in Decoders!Callers(i) :
                                  /\ items[j].msg = items[i].msg
                                  /\ items[j].at = Decoders!Max(Decoders!CallsIn(items[i].msg))
                      [] OTHER -> Decoders!Callers(i) # {} <=>
                                    items[i].name # "" /\ Decoders!CallOf(items[i].name)
  BY DEF Decoders!ThreadsHold
<1>1. Answered /\ provider \in Decoders!Framework
  BY DEF SessionInv, SessionType
<1>2. CASE provider \in Decoders!Strict
  <2>1. provider # "smolagents"
    BY <1>2 DEF Decoders!Strict
  <2> QED  BY <1>1, <1>2, <2>1 DEF Answered
<1>3. CASE provider = "smolagents"
  <2>1. provider \notin Decoders!Strict
    BY <1>3 DEF Decoders!Strict
  <2> QED  BY <1>1, <1>3, <2>1 DEF Answered
<1>4. CASE provider \notin Decoders!Strict \cup {"smolagents"}
  <2>1. provider \in Decoders!Lenient
    BY <1>1, <1>4 DEF Decoders!Strict, Decoders!Lenient, Decoders!Framework
  <2>2. step # "rejected"
    BY DEF SessionInv
  <2>3. SessionType /\ AllShaped /\ OfParts /\ NoneLost
    BY <2>2 DEF SessionInv
  <2> QED  BY <1>4, <2>1, <2>3, Lenient
<1> QED  BY <1>2, <1>3, <1>4

\* Two parts share what they are known by just where a session repeats an id.
LEMMA KeysRepeat ==
  ASSUME SessionType, AllShaped,
         NEW g \in 1..Len(msgs), NEW k \in 1..Len(msgs[g].parts),
         NEW h \in 1..Len(msgs), NEW l \in 1..Len(msgs[h].parts),
         ~Decoders!Silent(msgs[g].parts[k]), g # h \/ k # l
  PROVE  KeyAt(provider, msgs[g].parts[k], g, k) = KeyAt(provider, msgs[h].parts[l], h, l)
           <=> Decoders!Repeats(g, k, h, l)
<1>1. PICK p, q : p = msgs[g].parts[k] /\ q = msgs[h].parts[l]
  OBVIOUS
<1>2. /\ msgs[g] \in Recorded /\ msgs[h] \in Recorded /\ Shaped(msgs[g]) /\ Shaped(msgs[h])
  BY DEF SessionType, AllShaped
<1>3. p \in Decoders!Part /\ q \in Decoders!Part
  BY <1>1, <1>2 DEF Recorded
<1>4. PICK r : r = msgs[g].role
  OBVIOUS
<1>5. r \in Decoders!Role /\ p.type \in Decoders!Types(r) /\ p.type # "unknown"
  BY <1>1, <1>2, <1>4 DEF Shaped
<1>6. Decoders!Repeats(g, k, h, l) <=>
        /\ p.type = q.type
        /\ IF p.type \in {"call", "return"} THEN p.name = q.name /\ p.name # ""
           ELSE provider = "pydantic_ai" /\ g = h
  <2>1. <<g, k>> # <<h, l>>
    OBVIOUS
  <2> QED  BY <1>1, <2>1 DEF Decoders!Repeats
<1>7. p.type \in PartTypes /\ q.type \in PartTypes
  BY <1>3, PartsKnown
<1>8. CASE p.type = "call"
  <2>1. KeyAt(provider, p, g, k) = Known("call", p.name, g, k)
    BY <1>8 DEF KeyAt
  <2>2. CASE q.type = "call"
    <3>1. KeyAt(provider, q, h, l) = Known("call", q.name, h, l)
      BY <2>2 DEF KeyAt
    <3>2. KeyAt(provider, p, g, k) = KeyAt(provider, q, h, l) <=> p.name = q.name /\ p.name # ""
      <4>1. KeyAt(provider, p, g, k) = KeyAt(provider, q, h, l) <=> p.name = q.name /\ p.name # Nameless
        BY <2>1, <3>1, NamedKeys
      <4> QED  BY <4>1 DEF Nameless
    <3> QED  BY <1>1, <1>6, <1>8, <2>2, <3>2
  <2>3. CASE q.type # "call"
    <3>1. KeyAt(provider, q, h, l)[1] # "call"
      BY <1>7, <2>3 DEF KeyAt, Known, PartTypes
    <3>2. KeyAt(provider, p, g, k)[1] = "call"
      BY <1>8 DEF KeyAt, Known
    <3> QED  BY <1>1, <1>6, <1>8, <2>3, <3>1, <3>2
  <2> QED  BY <2>2, <2>3
<1>9. CASE p.type = "return"
  <2>1. KeyAt(provider, p, g, k) = Known("result", p.name, g, k)
    BY <1>9 DEF KeyAt
  <2>2. CASE q.type = "return"
    <3>1. KeyAt(provider, q, h, l) = Known("result", q.name, h, l)
      BY <2>2 DEF KeyAt
    <3>2. KeyAt(provider, p, g, k) = KeyAt(provider, q, h, l) <=> p.name = q.name /\ p.name # ""
      <4>1. KeyAt(provider, p, g, k) = KeyAt(provider, q, h, l) <=> p.name = q.name /\ p.name # Nameless
        BY <2>1, <3>1, NamedKeys
      <4> QED  BY <4>1 DEF Nameless
    <3> QED  BY <1>1, <1>6, <1>9, <2>2, <3>2
  <2>3. CASE q.type # "return"
    <3>1. KeyAt(provider, q, h, l)[1] # "result"
      BY <1>7, <2>3 DEF KeyAt, Known, PartTypes
    <3>2. KeyAt(provider, p, g, k)[1] = "result"
      BY <1>9 DEF KeyAt, Known
    <3> QED  BY <1>1, <1>6, <1>9, <2>3, <3>1, <3>2
  <2> QED  BY <2>2, <2>3
<1>10. CASE p.type \notin {"call", "return"}
  <2>1. KeyAt(provider, p, g, k)[1] = p.type
    BY <1>10 DEF KeyAt
  <2>2. KeyAt(provider, q, h, l)[1] = IF q.type = "return" THEN "result" ELSE q.type
    BY DEF KeyAt, Known
  <2>3. p.type # "result"
    BY <1>7 DEF PartTypes
  <2>4. CASE p.type # q.type
    BY <1>1, <1>6, <1>10, <2>1, <2>2, <2>3, <2>4
  <2>5. CASE p.type = q.type /\ p.type = "text" /\ provider \in {"google_adk", "agent_framework"}
    <3>1. /\ KeyAt(provider, p, g, k) = <<"text", "", g, k>>
          /\ KeyAt(provider, q, h, l) = <<"text", "", h, l>>
      BY <2>5 DEF KeyAt
    <3>2. KeyAt(provider, p, g, k) # KeyAt(provider, q, h, l)
      <4>1. <<"text", "", g, k>> # <<"text", "", h, l>>
        OBVIOUS
      <4> QED  BY <3>1, <4>1
    <3> QED  BY <1>1, <1>6, <2>5, <3>2
  <2>6. CASE p.type = q.type /\ ~(p.type = "text" /\ provider \in {"google_adk", "agent_framework"})
    <3>1. /\ KeyAt(provider, p, g, k) = <<p.type, "", g, 0>>
          /\ KeyAt(provider, q, h, l) = <<p.type, "", h, 0>>
      BY <1>10, <2>6 DEF KeyAt
    <3>2. KeyAt(provider, p, g, k) = KeyAt(provider, q, h, l) <=> g = h
      <4>1. <<p.type, "", g, 0>> = <<p.type, "", h, 0>> <=> g = h
        OBVIOUS
      <4> QED  BY <3>1, <4>1, <2>6
    <3>3. ASSUME g = h, provider # "pydantic_ai" PROVE FALSE
      <4>1. p.type # "control"
        BY <1>1 DEF Decoders!Silent
      <4>2. provider \in Decoders!Framework
        BY DEF SessionType
      <4>3. /\ Decoders!OnePart(r) \/ p.type = "reasoning" \/ (r = "assistant" /\ p.type = "text")
                 => k = 1 /\ l = 1
            /\ p.type = "observation" => k = Len(msgs[g].parts) /\ l = Len(msgs[g].parts)
        BY <1>1, <1>2, <1>4, <2>6, <3>3 DEF Shaped
      <4>4. ~(Decoders!OnePart(r) \/ p.type \in {"reasoning", "observation"}
                \/ (r = "assistant" /\ p.type = "text"))
        BY <3>3, <4>3
      <4>5. CASE provider = "agno"
        BY <1>5, <1>10, <4>2, <4>4, <4>5, TypesKnown
      <4>6. CASE provider = "openai_agents"
        BY <1>5, <1>10, <4>2, <4>4, <4>6, TypesKnown
      <4>7. CASE provider = "smolagents"
        BY <1>5, <1>10, <4>2, <4>4, <4>7, TypesKnown
      <4>8. CASE provider \in {"google_adk", "agent_framework"}
        BY <1>5, <1>10, <2>6, <4>1, <4>2, <4>8, TypesKnown
      <4> QED  BY <3>3, <4>2, <4>5, <4>6, <4>7, <4>8 DEF Decoders!Framework
    <3> QED  BY <1>1, <1>6, <1>10, <2>6, <3>2, <3>3
  <2> QED  BY <2>4, <2>5, <2>6
<1> QED  BY <1>8, <1>9, <1>10

\* The items of a session have an id each, unless it repeats one.
LEMMA KeysOnce ==
  ASSUME SessionType, AllShaped, OfParts, NoneLost, InTurn
  PROVE  (\A i, j \in 1..Len(items) : i # j => items[i].key # items[j].key) <=> ~Decoders!Repeated
<1>1. ASSUME NEW i \in 1..Len(items)
      PROVE  /\ items[i].msg \in 1..Len(msgs) /\ items[i].at \in 1..Len(msgs[items[i].msg].parts)
             /\ ~Decoders!Silent(msgs[items[i].msg].parts[items[i].at])
             /\ items[i].key = KeyAt(provider, msgs[items[i].msg].parts[items[i].at],
                                     items[i].msg, items[i].at)
  BY DEF OfParts, OfPart, PartOf
<1>2. ASSUME NEW i \in 1..Len(items), NEW j \in 1..Len(items), i # j, items[i].key = items[j].key
      PROVE  Decoders!Repeated
  <2>1. PICK g, k, h, l : g = items[i].msg /\ k = items[i].at /\ h = items[j].msg /\ l = items[j].at
    OBVIOUS
  <2>2. /\ g \in 1..Len(msgs) /\ k \in 1..Len(msgs[g].parts) /\ ~Decoders!Silent(msgs[g].parts[k])
        /\ items[i].key = KeyAt(provider, msgs[g].parts[k], g, k)
    BY <1>1, <2>1
  <2>3. /\ h \in 1..Len(msgs) /\ l \in 1..Len(msgs[h].parts)
        /\ items[j].key = KeyAt(provider, msgs[h].parts[l], h, l)
    BY <1>1, <2>1
  <2>4. g # h \/ k # l
    <3>1. i < j \/ j < i
      BY <1>2
    <3> QED  BY <2>1, <2>2, <2>3, <3>1 DEF InTurn, Before
  <2>5. Decoders!Repeats(g, k, h, l)
    BY <1>2, <2>2, <2>3, <2>4, KeysRepeat
  <2> QED  BY <2>2, <2>3, <2>5 DEF Decoders!Repeated, Decoders!N
<1>3. ASSUME Decoders!Repeated
      PROVE  \E i, j \in 1..Len(items) : i # j /\ items[i].key = items[j].key
  <2>1. PICK g \in 1..Len(msgs), h \in 1..Len(msgs) :
          \E k \in 1..Len(msgs[g].parts), l \in 1..Len(msgs[h].parts) : Decoders!Repeats(g, k, h, l)
    BY <1>3 DEF Decoders!Repeated, Decoders!N
  <2>2. PICK k \in 1..Len(msgs[g].parts), l \in 1..Len(msgs[h].parts) : Decoders!Repeats(g, k, h, l)
    BY <2>1
  <2>3. /\ g # h \/ k # l
        /\ msgs[g].parts[k].type = msgs[h].parts[l].type
        /\ msgs[g].parts[k].type \in {"call", "return"} \/ provider = "pydantic_ai"
    BY <2>2 DEF Decoders!Repeats
  <2>4. ASSUME NEW a \in 1..Len(msgs), NEW b \in 1..Len(msgs[a].parts),
               msgs[a].parts[b].type \in {"call", "return"} \/ provider = "pydantic_ai"
        PROVE  ~Decoders!Silent(msgs[a].parts[b])
    <3>1. msgs[a] \in Recorded /\ Shaped(msgs[a])
      BY DEF SessionType, AllShaped
    <3>2. msgs[a].parts[b] \in Decoders!Part
      BY <3>1 DEF Recorded
    <3>3. /\ msgs[a].role \in Decoders!Role /\ provider \in Decoders!Framework
          /\ msgs[a].parts[b].type \in Decoders!Types(msgs[a].role)
          /\ msgs[a].parts[b].type # "unknown"
      BY <3>1 DEF Shaped, SessionType
    <3>4. CASE msgs[a].parts[b].type \in {"call", "return"}
      BY <3>2, <3>4, PartsKnown DEF Decoders!Silent
    <3>5. CASE provider = "pydantic_ai"
      <4>1. msgs[a].parts[b].type \notin {"control", "reasoning"}
        BY <3>3, <3>5, TypesKnown
      <4> QED  BY <3>5, <4>1 DEF Decoders!Silent
    <3> QED  BY <2>4, <3>4, <3>5
  <2>5. PICK i \in 1..Len(items) : items[i].msg = g /\ items[i].at = k
    BY <2>3, <2>4 DEF NoneLost
  <2>6. PICK j \in 1..Len(items) : items[j].msg = h /\ items[j].at = l
    BY <2>3, <2>4, Zenon DEF NoneLost
  <2>7. KeyAt(provider, msgs[g].parts[k], g, k) = KeyAt(provider, msgs[h].parts[l], h, l)
    BY <2>2, <2>3, <2>4, KeysRepeat
  <2> QED  BY <1>1, <2>3, <2>5, <2>6, <2>7
<1> QED  BY <1>2, <1>3

LEMMA SameLog == ASSUME NEW list PROVE Decoders!Ingested(list) = Adapters!Ingested(list)
BY DEF Decoders!Ingested, Adapters!Ingested, Decoders!New, Adapters!New

LEMMA LoggingSteps == Logging /\ [Decoders!Next]_Decoders!vars => Logging'
<1> SUFFICES ASSUME Logging, [Decoders!Next]_Decoders!vars PROVE Logging'
  OBVIOUS
<1>2. CASE UNCHANGED Decoders!vars
  BY <1>2 DEF Logging, Decoders!vars
<1>3. CASE Decoders!Finish
  BY <1>3, SameLog DEF Decoders!Finish, Logging
<1>4. CASE step' \in {"reading", "rejected"}
  BY <1>4 DEF Logging
<1> QED  BY <1>2, <1>3, <1>4 DEF Decoders!Next, Decoders!NewEntry, Decoders!ReadPart, Decoders!Reject

LEMMA SessionLogs == SessionInv /\ Logging => Decoders!LogHolds
<1> SUFFICES ASSUME SessionInv, Logging, step = "read"
             PROVE  Decoders!IsPrefix(kept, items) /\ (kept = items <=> ~Decoders!Repeated)
  BY DEF Decoders!LogHolds
<1>1. SessionType /\ AllShaped /\ OfParts /\ NoneLost /\ InTurn
  BY DEF SessionInv
<1>2. items \in Seq(Spoken) /\ kept = Adapters!Ingested(items)
  BY <1>1 DEF SessionType, Logging
<1>3. /\ Adapters!IsPrefix(kept, items)
      /\ \A i, j \in 1..Len(kept) : i # j => kept[i].key # kept[j].key
      /\ kept = items \/ \E i \in 1..Len(kept) : kept[i].key = items[Len(kept) + 1].key
      /\ kept \in Seq(Spoken) /\ Len(kept) <= Len(items)
      /\ \A i \in 1..Len(kept) : kept[i] = items[i]
  BY <1>2, IngestedStops
<1>5. Decoders!IsPrefix(kept, items)
  BY <1>3 DEF Adapters!IsPrefix, Decoders!IsPrefix
<1>6. ASSUME kept # items PROVE \E i, j \in 1..Len(items) : i # j /\ items[i].key = items[j].key
  <2>1. Len(items) \in Nat /\ Len(kept) \in Nat
    BY <1>2, <1>3
  <2>2. Len(kept) # Len(items)
    BY <1>2, <1>3, <1>6, SeqEqual
  <2>3. PICK i \in 1..Len(kept) : kept[i].key = items[Len(kept) + 1].key
    BY <1>3, <1>6
  <2> QED  BY <1>3, <2>1, <2>2, <2>3
<1>7. kept = items => \A i, j \in 1..Len(items) : i # j => items[i].key # items[j].key
  BY <1>3
<1> QED  BY <1>1, <1>5, <1>6, <1>7, KeysOnce

--------------------------------------------------------------------------------
(* Orders *)

Linear(S, R) == /\ \A x \in S : <<x, x>> \notin R
                /\ \A x, y, z \in S : <<x, y>> \in R /\ <<y, z>> \in R => <<x, z>> \in R
                /\ \A x, y \in S : x = y \/ <<x, y>> \in R \/ <<y, x>> \in R
Ahead(S, R, x) == {y \in S : <<y, x>> \in R}
Ranked(S, R) == [k \in 1..Cardinality(S) |->
                   CHOOSE x \in S : Cardinality(Ahead(S, R, x)) = k - 1]

\* There is one way of counting.
LEMMA SameCounts ==
  \A S : Adapters!Cardinality(S) = Cardinality(S) /\ Decoders!Cardinality(S) = Cardinality(S)
BY DEF Adapters!Cardinality, Decoders!Cardinality, Cardinality

LEMMA RankedIs ==
  ASSUME NEW S, NEW R
  PROVE  Adapters!Ordered(S, R) = Ranked(S, R) /\ Decoders!Ordered(S, R) = Ranked(S, R)
<1>1. Adapters!Ordered(S, R) = Ranked(S, R)
  BY DEF Adapters!Ordered, Adapters!Cardinality, Cardinality, Ranked, Ahead
<1>2. Decoders!Ordered(S, R) = Ranked(S, R)
  BY DEF Decoders!Ordered, Decoders!Cardinality, Cardinality, Ranked, Ahead
<1> QED  BY <1>1, <1>2

\* What comes later has more before it.
LEMMA Ranks ==
  ASSUME NEW S, IsFiniteSet(S), NEW R, Linear(S, R)
  PROVE  /\ Cardinality(S) \in Nat
         /\ \A x \in S : Cardinality(Ahead(S, R, x)) \in 0..(Cardinality(S) - 1)
         /\ \A x, y \in S : <<x, y>> \in R => Cardinality(Ahead(S, R, x)) < Cardinality(Ahead(S, R, y))
         /\ \A x, y \in S : Cardinality(Ahead(S, R, x)) = Cardinality(Ahead(S, R, y)) => x = y
<1>1. Cardinality(S) \in Nat
  BY FS_CardinalityType
<1>2. ASSUME NEW x \in S
      PROVE  /\ IsFiniteSet(Ahead(S, R, x)) /\ Cardinality(Ahead(S, R, x)) \in Nat
             /\ Cardinality(Ahead(S, R, x)) < Cardinality(S)
  <2>1. Ahead(S, R, x) \in SUBSET S /\ x \notin Ahead(S, R, x)
    BY DEF Ahead, Linear
  <2>2. /\ IsFiniteSet(Ahead(S, R, x)) /\ Cardinality(Ahead(S, R, x)) <= Cardinality(S)
        /\ Cardinality(Ahead(S, R, x)) # Cardinality(S)
    BY <2>1, FS_Subset
  <2>3. Cardinality(Ahead(S, R, x)) \in Nat
    BY <2>2, FS_CardinalityType
  <2> QED  BY <1>1, <2>2, <2>3
<1>3. ASSUME NEW x \in S, NEW y \in S, <<x, y>> \in R
      PROVE  Cardinality(Ahead(S, R, x)) < Cardinality(Ahead(S, R, y))
  <2>1. Ahead(S, R, x) \in SUBSET Ahead(S, R, y)
    BY <1>3 DEF Ahead, Linear
  <2>2. x \in Ahead(S, R, y) /\ x \notin Ahead(S, R, x)
    BY <1>3 DEF Ahead, Linear
  <2>3. /\ Cardinality(Ahead(S, R, x)) <= Cardinality(Ahead(S, R, y))
        /\ Cardinality(Ahead(S, R, x)) # Cardinality(Ahead(S, R, y))
    BY <1>2, <2>1, <2>2, FS_Subset
  <2> QED  BY <1>2, <2>3
<1>4. ASSUME NEW x \in S, NEW y \in S, Cardinality(Ahead(S, R, x)) = Cardinality(Ahead(S, R, y))
      PROVE  x = y
  <2>1. x = y \/ <<x, y>> \in R \/ <<y, x>> \in R
    BY DEF Linear
  <2>2. Cardinality(Ahead(S, R, x)) \in Nat
    BY <1>2
  <2> QED  BY <1>3, <1>4, <2>1, <2>2
<1>5. \A x \in S : Cardinality(Ahead(S, R, x)) \in 0..(Cardinality(S) - 1)
  BY <1>1, <1>2
<1> QED  BY <1>1, <1>3, <1>4, <1>5

LEMMA Enumerated ==
  ASSUME NEW S, IsFiniteSet(S), NEW R, Linear(S, R),
         NEW n, n = Cardinality(S), NEW s, s = Ranked(S, R)
  PROVE  /\ n \in Nat /\ s \in [1..n -> S]
         /\ \A x \in S : \E k \in 1..n : s[k] = x
         /\ \A k \in 1..n : Cardinality(Ahead(S, R, s[k])) = k - 1
         /\ \A j, k \in 1..n : j < k <=> <<s[j], s[k]>> \in R
         /\ \A j, k \in 1..n : s[j] = s[k] => j = k
<1>1. /\ n \in Nat
      /\ \A x \in S : Cardinality(Ahead(S, R, x)) \in 0..(n - 1)
      /\ \A x, y \in S : <<x, y>> \in R => Cardinality(Ahead(S, R, x)) < Cardinality(Ahead(S, R, y))
      /\ \A x, y \in S : Cardinality(Ahead(S, R, x)) = Cardinality(Ahead(S, R, y)) => x = y
  BY Ranks
<1> DEFINE r == [x \in S |-> Cardinality(Ahead(S, R, x))]
<1>2. r \in Injection(S, 0..(n - 1))
  BY <1>1 DEF Injection, IsInjective
<1>3. IsFiniteSet(0..(n - 1)) /\ Cardinality(0..(n - 1)) = n
  <2>1. 0 \in Int /\ n - 1 \in Int /\ n \in Nat
    BY <1>1
  <2>2. /\ IsFiniteSet(0..(n - 1))
        /\ Cardinality(0..(n - 1)) = IF 0 > n - 1 THEN 0 ELSE ((n - 1) - 0) + 1
    BY <2>1, FS_Interval
  <2> QED  BY <2>1, <2>2
<1> HIDE DEF r
<1>4. r \in Surjection(S, 0..(n - 1))
  BY <1>2, <1>3, FS_Injection
<1>5. \A k \in 1..n : \E x \in S : Cardinality(Ahead(S, R, x)) = k - 1
  <2>1. \A j \in 0..(n - 1) : \E x \in S : r[x] = j
    BY <1>4 DEF Surjection
  <2>2. \A k \in 1..n : k - 1 \in 0..(n - 1)
    BY <1>1
  <2> QED  BY <2>1, <2>2 DEF r
<1>6. \A k \in 1..n : s[k] \in S /\ Cardinality(Ahead(S, R, s[k])) = k - 1
  BY <1>5 DEF Ranked
<1>7. s \in [1..n -> S]
  BY <1>6 DEF Ranked
<1>8. ASSUME NEW x \in S PROVE \E k \in 1..n : s[k] = x
  <2>1. PICK j \in 0..(n - 1) : j = Cardinality(Ahead(S, R, x))
    BY <1>1
  <2>2. j + 1 \in 1..n /\ (j + 1) - 1 = j
    BY <1>1
  <2>3. Cardinality(Ahead(S, R, s[j + 1])) = j /\ s[j + 1] \in S
    BY <1>6, <2>2
  <2> QED  BY <1>1, <2>1, <2>2, <2>3
<1>9. \A j, k \in 1..n : s[j] = s[k] => j = k
  BY <1>6
<1>10. ASSUME NEW j \in 1..n, NEW k \in 1..n PROVE j < k <=> <<s[j], s[k]>> \in R
  <2>1. <<s[j], s[k]>> \in R => j < k
    BY <1>1, <1>6
  <2>2. <<s[k], s[j]>> \in R => k < j
    BY <1>1, <1>6
  <2>3. s[j] = s[k] \/ <<s[j], s[k]>> \in R \/ <<s[k], s[j]>> \in R
    BY <1>6 DEF Linear
  <2> QED  BY <1>9, <2>1, <2>2, <2>3
<1> QED  BY <1>1, <1>6, <1>7, <1>8, <1>9, <1>10

\* There is but one way to put things in order.
LEMMA Matches ==
  ASSUME NEW S, NEW R, Linear(S, R), NEW n \in Nat, NEW f \in [1..n -> S],
         \A x \in S : \E k \in 1..n : f[k] = x,
         \A j, k \in 1..n : j < k => <<f[j], f[k]>> \in R
  PROVE  IsFiniteSet(S) /\ Cardinality(S) = n /\ Ranked(S, R) = f
<1>1. \A j, k \in 1..n : f[j] = f[k] => j = k
  <2> SUFFICES ASSUME NEW j \in 1..n, NEW k \in 1..n, f[j] = f[k], j # k PROVE FALSE
    OBVIOUS
  <2>1. <<f[j], f[k]>> \in R \/ <<f[k], f[j]>> \in R
    <3>1. j < k \/ k < j
      OBVIOUS
    <3> QED  BY <3>1
  <2>2. f[j] \in S
    OBVIOUS
  <2> QED  BY <2>1, <2>2 DEF Linear
<1>2. IsFiniteSet(1..n) /\ Cardinality(1..n) = n
  BY FS_Interval
<1>3. f \in Bijection(1..n, S)
  BY <1>1 DEF Bijection, Injection, Surjection, IsInjective
<1>4. IsFiniteSet(S) /\ Cardinality(S) = n
  BY <1>2, <1>3, FS_Bijection DEF ExistsBijection
<1>5. ASSUME NEW k \in 1..n PROVE Cardinality(Ahead(S, R, f[k])) = k - 1
  <2> DEFINE h == [j \in 1..(k - 1) |-> f[j]]
             T == Ahead(S, R, f[k])
  <2>1. \A j \in 1..(k - 1) : j \in 1..n /\ f[j] \in T
    BY DEF Ahead
  <2>2. \A x \in T : \E j \in 1..(k - 1) : f[j] = x
    <3> SUFFICES ASSUME NEW x \in T PROVE \E j \in 1..(k - 1) : f[j] = x
      OBVIOUS
    <3>1. PICK j \in 1..n : f[j] = x
      BY DEF Ahead
    <3>2. <<f[j], f[k]>> \in R
      BY <3>1 DEF Ahead
    <3>3. ~(k < j) /\ k # j
      <4>1. f[k] \in S /\ f[j] \in S
        OBVIOUS
      <4>2. k < j => <<f[k], f[j]>> \in R
        OBVIOUS
      <4> QED  BY <3>2, <4>1, <4>2 DEF Linear
    <3> QED  BY <3>1, <3>3
  <2> HIDE DEF T
  <2>3. h \in Bijection(1..(k - 1), T)
    <3>1. h \in [1..(k - 1) -> T]
      BY <2>1
    <3>2. \A i, j \in 1..(k - 1) : h[i] = h[j] => i = j
      BY <1>1, <2>1
    <3> QED  BY <2>2, <3>1, <3>2 DEF Bijection, Injection, Surjection, IsInjective
  <2>4. IsFiniteSet(1..(k - 1)) /\ Cardinality(1..(k - 1)) = k - 1
    BY FS_Interval
  <2> HIDE DEF h
  <2> QED  BY <2>3, <2>4, FS_Bijection DEF ExistsBijection, T
<1>6. ASSUME NEW k \in 1..n PROVE Ranked(S, R)[k] = f[k]
  <2>1. \A x \in S : Cardinality(Ahead(S, R, x)) = k - 1 => x = f[k]
    BY <1>4, <1>5, Ranks
  <2>2. f[k] \in S /\ Cardinality(Ahead(S, R, f[k])) = k - 1
    BY <1>5
  <2> QED  BY <1>4, <2>1, <2>2 DEF Ranked
<1> QED  BY <1>4, <1>6 DEF Ranked

\* What is carried over in order stays in order.
LEMMA Carried ==
  ASSUME NEW S, IsFiniteSet(S), NEW R, Linear(S, R), NEW T, NEW Q, Linear(T, Q),
         NEW f \in [S -> T], \A y \in T : \E x \in S : f[x] = y,
         \A x, y \in S : <<x, y>> \in R => <<f[x], f[y]>> \in Q
  PROVE  /\ IsFiniteSet(T) /\ Cardinality(T) = Cardinality(S) /\ Cardinality(S) \in Nat
         /\ Ranked(T, Q) = [k \in 1..Cardinality(S) |-> f[Ranked(S, R)[k]]]
<1> DEFINE n == Cardinality(S)
           s == Ranked(S, R)
           g == [k \in 1..n |-> f[s[k]]]
<1>1. /\ n \in Nat /\ s \in [1..n -> S]
      /\ \A x \in S : \E k \in 1..n : s[k] = x
      /\ \A j, k \in 1..n : j < k <=> <<s[j], s[k]>> \in R
  BY Enumerated
<1> HIDE DEF n, s
<1>2. g \in [1..n -> T]
  BY <1>1
<1>3. \A y \in T : \E k \in 1..n : g[k] = y
  BY <1>1
<1>4. \A j, k \in 1..n : j < k => <<g[j], g[k]>> \in Q
  BY <1>1
<1> HIDE DEF g
<1>5. n \in Nat
  BY <1>1
<1>6. IsFiniteSet(T) /\ Cardinality(T) = n /\ Ranked(T, Q) = g
  BY ONLY Linear(T, Q), <1>2, <1>3, <1>4, <1>5, Matches
<1> QED  BY <1>1, <1>6 DEF g, n, s

\* Numbers are in order, and so are places.
Less(S) == {p \in S \X S : p[1] < p[2]}
Later(S) == {p \in S \X S : Adapters!Earlier(p[1], p[2])}

LEMMA NumbersOrdered ==
  ASSUME NEW S, S \subseteq Int
  PROVE  /\ Linear(S, Less(S)) /\ \A x, y \in S : <<x, y>> \in Less(S) <=> x < y
         /\ Adapters!InOrder(S) = Ranked(S, Less(S)) /\ Decoders!InOrder(S) = Ranked(S, Less(S))
<1>1. \A x, y \in S : <<x, y>> \in Less(S) <=> x < y
  BY DEF Less
<1>2. Linear(S, Less(S))
  BY <1>1 DEF Linear
<1>3. Adapters!InOrder(S) = Ranked(S, Less(S)) /\ Decoders!InOrder(S) = Ranked(S, Less(S))
  BY RankedIs DEF Adapters!InOrder, Decoders!InOrder, Less
<1> QED  BY <1>1, <1>2, <1>3

LEMMA PlacesOrdered ==
  ASSUME NEW S, S \subseteq Nat \X Nat
  PROVE  /\ Linear(S, Later(S))
         /\ \A x, y \in S : <<x, y>> \in Later(S) <=> x[1] < y[1] \/ (x[1] = y[1] /\ x[2] < y[2])
         /\ Adapters!Following(S) = Ranked(S, Later(S))
<1>1. \A x, y \in S : <<x, y>> \in Later(S) <=> x[1] < y[1] \/ (x[1] = y[1] /\ x[2] < y[2])
  BY DEF Later, Adapters!Earlier
<1>2. \A x \in S : x[1] \in Nat /\ x[2] \in Nat /\ x = <<x[1], x[2]>>
  OBVIOUS
<1>3. \A x, y \in S : x[1] = y[1] /\ x[2] = y[2] => x = y
  BY <1>2
<1>4. Linear(S, Later(S))
  <2>1. \A x \in S : <<x, x>> \notin Later(S)
    BY <1>1, <1>2
  <2>2. ASSUME NEW x \in S, NEW y \in S
        PROVE  x = y \/ <<x, y>> \in Later(S) \/ <<y, x>> \in Later(S)
    <3>1. /\ x[1] \in Nat /\ x[2] \in Nat /\ y[1] \in Nat /\ y[2] \in Nat
          /\ x[1] = y[1] /\ x[2] = y[2] => x = y
      BY <1>2, <1>3
    <3>2. /\ <<x, y>> \in Later(S) <=> x[1] < y[1] \/ (x[1] = y[1] /\ x[2] < y[2])
          /\ <<y, x>> \in Later(S) <=> y[1] < x[1] \/ (y[1] = x[1] /\ y[2] < x[2])
      BY <1>1
    <3> QED  BY ONLY <3>1, <3>2
  <2>3. \A x, y, z \in S : <<x, y>> \in Later(S) /\ <<y, z>> \in Later(S) => <<x, z>> \in Later(S)
    BY <1>1, <1>2
  <2> QED  BY <2>1, <2>2, <2>3 DEF Linear
<1>5. Adapters!Following(S) = Ranked(S, Later(S))
  BY RankedIs DEF Adapters!Following, Later
<1> QED  BY <1>1, <1>4, <1>5

--------------------------------------------------------------------------------
(* The places of items in their messages *)

\* What a message is like that was read.
Formed(m) ==
    /\ provider = "openai" =>
         /\ m.content \in {"null", "words", "parts"}
         /\ m.role = "tool" => Len(m.blocks) <= 1 /\ \A k \in 1..Len(m.blocks) : m.blocks[k].type = "result"
         /\ m.role = "assistant" => \A k \in 1..Len(m.blocks) : m.blocks[k].type = "call"
         /\ m.role \notin {"tool", "assistant"} => Len(m.blocks) = 0
    /\ provider # "openai" =>
         /\ m.content \in {"null", "string", "list"}
         /\ Len(m.blocks) > 0 => m.content # "null"
AllFormed == \A g \in 1..Len(msgs) : Formed(msgs[g])

KindAt(m, k) == IF k = 0 \/ m.blocks[k].type = "text" THEN Adapters!TurnKind(m.role)
                ELSE IF m.blocks[k].type = "call" THEN "tool_call" ELSE "tool_result"
Stands(m, item) ==
    /\ item.at \in 0..Len(m.blocks)
    /\ item.role = m.role
    /\ item.content = Adapters!Kept(m)
    /\ item.kind = KindAt(m, item.at)
    /\ item.at = 0 => provider = "openai" /\ m.role # "tool"
    /\ item.at > 0 => item.block = m.blocks[item.at]

\* An item for every turn and every block, in their order.
OfPlaces == \A i \in 1..Len(items) : items[i].msg \in 1..Len(msgs) /\ Stands(msgs[items[i].msg], items[i])
Has(g, k) == \E i \in 1..Len(items) : items[i].msg = g /\ items[i].at = k
Begins(g) == provider = "openai" /\ msgs[g].role # "tool"
Told == \A g \in 1..Len(msgs) : /\ Begins(g) => Has(g, 0)
                                /\ \A k \in 1..Len(msgs[g].blocks) : Has(g, k)

PlaceInv == AllFormed /\ (step # "rejected" => OfPlaces /\ Told /\ InTurn)

\* Messages that were read stay, and may go on.
Extends == /\ Len(msgs) <= Len(msgs')
           /\ \A g \in 1..Len(msgs) :
                /\ msgs'[g].role = msgs[g].role /\ msgs'[g].content = msgs[g].content
                /\ Len(msgs[g].blocks) <= Len(msgs'[g].blocks)
                /\ \A k \in 1..Len(msgs[g].blocks) : msgs'[g].blocks[k] = msgs[g].blocks[k]

LEMMA BlocksTyped ==
  ASSUME NEW m \in Message
  PROVE  /\ m.blocks \in Seq(Adapters!Block) /\ Len(m.blocks) \in Nat
         /\ \A k \in 1..Len(m.blocks) : m.blocks[k] \in Adapters!Block
         /\ m = [role |-> m.role, content |-> m.content, blocks |-> m.blocks]
BY DEF Message

LEMMA StaysThere ==
  ASSUME NEW m \in Message, NEW l \in Message, UNCHANGED provider,
         l.role = m.role, l.content = m.content, Len(m.blocks) <= Len(l.blocks),
         \A k \in 1..Len(m.blocks) : l.blocks[k] = m.blocks[k],
         NEW x \in Said, Stands(m, x)
  PROVE  Stands(l, x)'
<1>1. Len(m.blocks) \in Nat /\ Len(l.blocks) \in Nat
  BY BlocksTyped
<1>2. /\ x.at \in 0..Len(m.blocks) /\ x.role = m.role /\ x.content = Adapters!Kept(m)
      /\ x.kind = KindAt(m, x.at) /\ (x.at = 0 => provider = "openai" /\ m.role # "tool")
      /\ (x.at > 0 => x.block = m.blocks[x.at])
  BY DEF Stands
<1>3. Adapters!Kept(l) = Adapters!Kept(m) /\ Adapters!TurnKind(l.role) = Adapters!TurnKind(m.role)
  BY DEF Adapters!Kept
<1>4. x.at \in 0..Len(l.blocks) /\ (x.at > 0 => l.blocks[x.at] = m.blocks[x.at])
  BY <1>1, <1>2
<1>5. KindAt(l, x.at) = KindAt(m, x.at)
  BY <1>1, <1>2, <1>3, <1>4 DEF KindAt
<1> QED  BY <1>2, <1>3, <1>4, <1>5 DEF Stands, Adapters!Kept, KindAt

LEMMA ItemJoins ==
  ASSUME MessageType, MessageType', AllFormed', OfPlaces, Told, InTurn, UNCHANGED provider, Extends,
         NEW x \in Said, items' = Append(items, x),
         NEW g \in 1..Len(msgs'), NEW k \in Nat, x.msg = g, x.at = k, Stands(msgs'[g], x),
         \A h \in 1..Len(msgs) : \A l \in 0..Len(msgs[h].blocks) : Before(h, l, g, k),
         \A h \in 1..Len(msgs') : \/ h \in 1..Len(msgs)
                                  \/ h = g /\ k = 0 /\ Len(msgs'[h].blocks) = 0,
         \A h \in 1..Len(msgs) : \A l \in 1..Len(msgs'[h].blocks) :
            l \in 1..Len(msgs[h].blocks) \/ (h = g /\ l = k)
  PROVE  PlaceInv'
<1> DEFINE n == Len(items)
<1>1. /\ n \in Nat /\ Len(items') = n + 1 /\ \A j \in 1..n : items'[j] = items[j]
      /\ items'[n + 1] = x
  BY JoinsEnd
<1>2. n = Len(items)
  OBVIOUS
<1> HIDE DEF n
<1>3. \A i \in 1..Len(items') : i \in 1..n \/ i = n + 1
  BY <1>1
<1>4. OfPlaces'
  <2> SUFFICES ASSUME NEW i \in 1..Len(items')
               PROVE  items'[i].msg \in 1..Len(msgs') /\ Stands(msgs[items[i].msg], items[i])'
    BY DEF OfPlaces
  <2>1. CASE i = n + 1
    <3>1. PICK l : l = msgs'[g]
      OBVIOUS
    <3>2. Stands(l, x)'
      BY <3>1 DEF Stands, KindAt
    <3>3. items'[i] = x /\ l = msgs'[items'[i].msg] /\ items'[i].msg \in 1..Len(msgs')
      BY <1>1, <2>1, <3>1
    <3> QED  BY <3>2, <3>3
  <2>2. CASE i \in 1..n
    <3>1. items'[i] = items[i] /\ items[i] \in Said
      BY <1>1, <1>2, <2>2 DEF MessageType
    <3>2. items[i].msg \in 1..Len(msgs) /\ Stands(msgs[items[i].msg], items[i])
      BY <1>2, <2>2 DEF OfPlaces
    <3>3. PICK h : h = items[i].msg
      OBVIOUS
    <3>4. h \in 1..Len(msgs) /\ h \in 1..Len(msgs') /\ msgs[h] \in Message /\ msgs'[h] \in Message
      <4>1. Len(msgs) \in Nat /\ Len(msgs') \in Nat /\ Len(msgs) <= Len(msgs')
        BY DEF Extends, MessageType
      <4>2. msgs \in Seq(Message) /\ msgs' \in Seq(Message)
        BY DEF MessageType
      <4>3. h \in 1..Len(msgs) /\ h \in 1..Len(msgs')
        BY <3>2, <3>3, <4>1
      <4> QED  BY <4>2, <4>3
    <3>5. Stands(msgs[h], items[i])
      BY <3>2, <3>3
    <3>6. PICK m, l, it : m = msgs[h] /\ l = msgs'[h] /\ it = items[i]
      OBVIOUS
    <3>7. /\ m \in Message /\ l \in Message /\ it \in Said /\ Stands(m, it)
          /\ l.role = m.role /\ l.content = m.content /\ Len(m.blocks) <= Len(l.blocks)
          /\ \A b \in 1..Len(m.blocks) : l.blocks[b] = m.blocks[b]
      BY <3>1, <3>4, <3>5, <3>6 DEF Extends
    <3>8. Stands(l, it)'
      BY <3>7, StaysThere
    <3>9. l = msgs'[items'[i].msg] /\ it = items'[i] /\ items'[i].msg = h
      BY <3>1, <3>3, <3>6
    <3> QED  BY <3>4, <3>8, <3>9
  <2> QED  BY <1>3, <2>1, <2>2
<1>5. ASSUME NEW h, NEW l, Has(h, l) PROVE Has(h, l)'
  <2>1. PICK i \in 1..n : items[i].msg = h /\ items[i].at = l
    BY <1>2, <1>5 DEF Has
  <2> QED  BY <1>1, <2>1 DEF Has
<1>6. Has(g, k)'
  BY <1>1 DEF Has
<1>7. Told'
  <2> SUFFICES ASSUME NEW h \in 1..Len(msgs')
               PROVE  /\ Begins(h)' => Has(h, 0)'
                      /\ \A l \in 1..Len(msgs'[h].blocks) : Has(h, l)'
    BY DEF Told
  <2>1. CASE h \in 1..Len(msgs)
    <3>1. Begins(h)' => Begins(h)
      BY <2>1 DEF Extends, Begins
    <3>2. Begins(h)' => Has(h, 0)'
      BY <1>5, <2>1, <3>1 DEF Told
    <3>3. \A l \in 1..Len(msgs'[h].blocks) : Has(h, l) \/ (h = g /\ l = k)
      BY <2>1 DEF Told
    <3> QED  BY <1>5, <1>6, <3>2, <3>3
  <2>2. CASE h = g /\ k = 0 /\ Len(msgs'[h].blocks) = 0
    BY <1>6, <2>2
  <2> QED  BY <2>1, <2>2
<1>8. InTurn'
  <2> SUFFICES ASSUME NEW i \in 1..Len(items'), NEW j \in 1..Len(items'), i < j
               PROVE  Before(items'[i].msg, items'[i].at, items'[j].msg, items'[j].at)
    BY DEF InTurn
  <2>1. i \in 1..n
    BY <1>1, <1>3
  <2>2. CASE j \in 1..n
    BY <1>1, <1>2, <2>1, <2>2 DEF InTurn
  <2>3. CASE j = n + 1
    <3>1. items[i].msg \in 1..Len(msgs) /\ items[i].at \in 0..Len(msgs[items[i].msg].blocks)
      BY <1>2, <2>1 DEF OfPlaces, Stands
    <3> QED  BY <1>1, <2>1, <2>3, <3>1
  <2> QED  BY <1>3, <2>2, <2>3
<1> QED  BY <1>4, <1>7, <1>8 DEF PlaceInv

LEMMA OpensFormed ==
  ASSUME provider \in Adapters!Provider, NEW m \in Adapters!Opening
  PROVE  Formed(m)
<1>1. m.blocks = <<>> /\ Len(m.blocks) = 0
  BY OpeningIsMessage
<1>2. m.content \in IF provider = "openai" THEN {"null", "words", "parts"}
                    ELSE {"null", "string", "list"}
  <2>1. CASE provider = "anthropic"
    BY <2>1 DEF Adapters!Opening
  <2>2. CASE provider = "gemini"
    BY <2>2 DEF Adapters!Opening
  <2>3. CASE provider = "openai"
    BY <2>3 DEF Adapters!Opening
  <2> QED  BY <2>1, <2>2, <2>3 DEF Adapters!Provider
<1> QED  BY <1>1, <1>2 DEF Formed

LEMMA MessagePlaced ==
  ASSUME ReadInv, MessageType', PlaceInv, NEW m \in Adapters!Opening, Adapters!NewMessage(m)
  PROVE  PlaceInv'
<1>1. m \in Message /\ m.blocks = <<>> /\ Len(m.blocks) = 0 /\ Formed(m)
  BY OpeningIsMessage, OpensFormed DEF ReadInv, MessageType
<1>2. /\ step = "reading" /\ step' = step /\ provider' = provider
      /\ msgs' = Append(msgs, m) /\ MessageType
  BY DEF Adapters!NewMessage, ReadInv
<1>3. /\ Len(msgs) \in Nat /\ Len(msgs') = Len(msgs) + 1 /\ msgs'[Len(msgs) + 1] = m
      /\ \A g \in 1..Len(msgs) : msgs'[g] = msgs[g] /\ msgs[g] \in Message
  BY <1>1, <1>2 DEF MessageType
<1>4. \A g \in 1..Len(msgs') : g \in 1..Len(msgs) \/ g = Len(msgs) + 1
  BY <1>3
<1>5. Extends
  <2>1. \A g \in 1..Len(msgs) : Len(msgs[g].blocks) \in Nat
    BY <1>3, BlocksTyped
  <2> QED  BY <1>3, <2>1 DEF Extends
<1>6. AllFormed'
  <2>1. AllFormed
    BY DEF PlaceInv
  <2>2. \A g \in 1..Len(msgs') : Formed(msgs[g])'
    BY <1>1, <1>2, <1>3, <1>4, <2>1 DEF AllFormed, Formed
  <2> QED  BY <2>2 DEF AllFormed
<1>7. OfPlaces /\ Told /\ InTurn
  BY <1>2 DEF PlaceInv
<1>8. CASE provider = "openai" /\ m.role # "tool"
  <2> DEFINE g == Len(msgs) + 1
  <2>0. PICK x : x = Adapters!Turn(m)
    OBVIOUS
  <2>1. items' = Append(items, x)
    BY <1>8, <2>0 DEF Adapters!NewMessage
  <2>2. /\ x.kind = Adapters!TurnKind(m.role) /\ x.msg = g /\ x.at = 0 /\ x.role = m.role
        /\ x.content = Adapters!Kept(m)
    BY <2>0 DEF Adapters!Turn, Adapters!N
  <2>3. x \in Said
    <3>1. items' \in Seq(Said) /\ items \in Seq(Said)
      BY <1>2 DEF MessageType
    <3>2. Len(items') = Len(items) + 1 /\ Len(items) \in Nat /\ items'[Len(items) + 1] = x
      BY <2>1, <3>1
    <3>3. Len(items) + 1 \in 1..Len(items')
      BY <3>2
    <3> QED  BY <3>1, <3>2, <3>3
  <2>4. Stands(m, x)
    BY <1>1, <1>8, <2>2 DEF Stands, KindAt
  <2>5. g \in 1..Len(msgs') /\ Stands(msgs'[g], x) /\ 0 \in Nat /\ Len(msgs'[g].blocks) = 0
    BY <1>1, <1>3, <2>4
  <2>6. \A h \in 1..Len(msgs) : \A l \in 0..Len(msgs[h].blocks) : Before(h, l, g, 0)
    BY <1>3 DEF Before
  <2>7. \A h \in 1..Len(msgs) : \A l \in 1..Len(msgs'[h].blocks) : l \in 1..Len(msgs[h].blocks)
    BY <1>3
  <2>8. \A h \in 1..Len(msgs') : h \in 1..Len(msgs) \/ h = g
    BY <1>4
  <2> HIDE DEF g
  <2> QED  BY <1>2, <1>5, <1>6, <1>7, <2>1, <2>2, <2>3, <2>5, <2>6, <2>7, <2>8, ItemJoins
<1>9. CASE ~(provider = "openai" /\ m.role # "tool")
  <2>1. items' = items
    BY <1>9 DEF Adapters!NewMessage
  <2>2. OfPlaces'
    <3> SUFFICES ASSUME NEW i \in 1..Len(items)
                 PROVE  items[i].msg \in 1..Len(msgs') /\ Stands(msgs[items[i].msg], items[i])'
      BY <2>1 DEF OfPlaces
    <3>1. items[i].msg \in 1..Len(msgs) /\ Stands(msgs[items[i].msg], items[i])
      BY <1>7 DEF OfPlaces
    <3> QED  BY <1>2, <1>3, <2>1, <3>1 DEF Stands, KindAt
  <2>3. Told'
    <3>1. \A h, l : Has(h, l)' <=> Has(h, l)
      BY <2>1 DEF Has
    <3>2. \A h \in 1..Len(msgs) : /\ Begins(h)' <=> Begins(h)
                                  /\ msgs'[h].blocks = msgs[h].blocks
      BY <1>2, <1>3 DEF Begins
    <3>3. \A h : h = Len(msgs) + 1 => ~Begins(h)' /\ Len(msgs'[h].blocks) = 0
      BY <1>1, <1>2, <1>3, <1>9 DEF Begins
    <3> SUFFICES ASSUME NEW h \in 1..Len(msgs')
                 PROVE  /\ Begins(h)' => Has(h, 0)'
                        /\ \A l \in 1..Len(msgs'[h].blocks) : Has(h, l)'
      BY DEF Told
    <3>4. CASE h \in 1..Len(msgs)
      BY <1>7, <3>1, <3>2, <3>4 DEF Told
    <3>5. CASE h = Len(msgs) + 1
      BY <3>3, <3>5
    <3> QED  BY <1>4, <3>4, <3>5
  <2>4. InTurn'
    BY <1>7, <2>1 DEF InTurn, Before
  <2> QED  BY <1>6, <2>2, <2>3, <2>4 DEF PlaceInv
<1> QED  BY <1>8, <1>9

LEMMA BlockPlaced ==
  ASSUME ReadInv, MessageType', PlaceInv, NEW b \in Adapters!Block, Adapters!ReadBlock(b)
  PROVE  PlaceInv'
<1> DEFINE g == Len(msgs)
           k == Len(msgs[g].blocks) + 1
           m == msgs[g]
           new == [m EXCEPT !.blocks = Append(@, b)]
<1>1. /\ step = "reading" /\ step' = step /\ provider' = provider /\ g > 0
      /\ msgs' = [msgs EXCEPT ![g].blocks = Append(@, b)] /\ MessageType
      /\ Adapters!Fits(b) /\ ~Adapters!Rejected(b)
  BY DEF Adapters!ReadBlock, ReadInv, Adapters!N
<1>2. /\ msgs \in Seq(Message) /\ g \in Nat /\ g \in 1..Len(msgs) /\ m \in Message
  BY <1>1 DEF MessageType
<1>3. m.blocks \in Seq(Adapters!Block) /\ k \in Nat /\ k > 0 /\ Len(m.blocks) = k - 1
  BY <1>2, BlocksTyped
<1>4. /\ new.role = m.role /\ new.content = m.content /\ new.blocks = Append(m.blocks, b)
      /\ Len(new.blocks) = k /\ new.blocks[k] = b /\ \A l \in 1..(k - 1) : new.blocks[l] = m.blocks[l]
  BY <1>2, <1>3 DEF Message
<1>5. msgs' = [msgs EXCEPT ![g] = new]
  BY <1>1
<1>6. g = Len(msgs) /\ m = msgs[g]
  OBVIOUS
<1> HIDE DEF new, k, m, g
<1>7. /\ Len(msgs') = g /\ msgs'[g] = new
      /\ \A h \in 1..Len(msgs) : h # g => msgs'[h] = msgs[h]
  BY <1>2, <1>5, <1>6
<1>8. Formed(m)
  BY <1>2, <1>6 DEF PlaceInv, AllFormed
<1>9. /\ b.type \in {"text", "call", "result"}
      /\ \/ provider = "openai" /\ m.role = "assistant" /\ b.type = "call"
         \/ provider = "openai" /\ m.role = "tool" /\ b.type = "result" /\ m.blocks = <<>>
         \/ m.content = "string" /\ b.type = "text" /\ m.blocks = <<>>
         \/ m.content = "list"
  BY <1>1, <1>6, BlockKinds DEF Adapters!Fits, Adapters!N, g, m
<1>10. Formed(new)
  <2>1. \A l \in 1..Len(new.blocks) : l \in 1..(k - 1) \/ l = k
    BY <1>3, <1>4
  <2>2. CASE provider = "openai" /\ m.role = "assistant" /\ b.type = "call"
    BY <1>3, <1>4, <1>8, <2>1, <2>2 DEF Formed
  <2>3. CASE provider = "openai" /\ m.role = "tool" /\ b.type = "result" /\ m.blocks = <<>>
    <3>1. k = 1
      BY <1>3, <2>3
    <3> QED  BY <1>4, <1>8, <2>1, <2>3, <3>1 DEF Formed
  <2>4. CASE provider # "openai"
    BY <1>4, <1>8, <1>9, <2>4 DEF Formed
  <2>5. provider = "openai" => m.content \notin {"string", "list"}
    BY <1>8 DEF Formed
  <2> QED  BY <1>9, <2>2, <2>3, <2>4, <2>5
<1>11. AllFormed'
  <2>1. \A h \in 1..Len(msgs') : h \in 1..Len(msgs)
    BY <1>6, <1>7
  <2>2. \A h \in 1..Len(msgs') : Formed(msgs'[h])
    BY <1>7, <1>10, <2>1 DEF PlaceInv, AllFormed
  <2>3. \A l : Formed(l)' <=> Formed(l)
    BY <1>1 DEF Formed
  <2>4. \A h \in 1..Len(msgs') : Formed(msgs[h])'
    BY <2>2, <2>3
  <2> QED  BY <2>4 DEF AllFormed
<1>12. Extends
  <2> SUFFICES ASSUME NEW h \in 1..Len(msgs)
               PROVE  /\ msgs'[h].role = msgs[h].role /\ msgs'[h].content = msgs[h].content
                      /\ Len(msgs[h].blocks) <= Len(msgs'[h].blocks)
                      /\ \A l \in 1..Len(msgs[h].blocks) : msgs'[h].blocks[l] = msgs[h].blocks[l]
    BY <1>2, <1>6, <1>7 DEF Extends
  <2>1. CASE h = g
    BY <1>3, <1>4, <1>6, <1>7, <2>1
  <2>2. CASE h # g
    <3>1. Len(msgs[h].blocks) \in Nat
      BY <1>2, BlocksTyped
    <3> QED  BY <1>7, <2>2, <3>1
  <2> QED  BY <2>1, <2>2
<1>13. PICK e : /\ items' = Append(items, e) /\ e.msg = g /\ e.at = k /\ e.role = m.role
                /\ e.content = Adapters!Kept(m) /\ e.block = b /\ e.kind = KindAt(new, k)
  <2>1. ASSUME NEW kind, NEW key, NEW parent
        PROVE  LET e == Adapters!BlockItem(kind, key, parent, b) IN
                 /\ e.msg = g /\ e.at = k /\ e.role = m.role /\ e.content = Adapters!Kept(m)
                 /\ e.block = b /\ e.kind = kind
    BY DEF Adapters!BlockItem, Adapters!N, g, m, k
  <2>2. CASE b.type = "text"
    <3>1. PICK key, parent :
            items' = Append(items, Adapters!BlockItem(Adapters!TurnKind(m.role), key, parent, b))
      BY <2>2, Zenon DEF Adapters!ReadBlock, Adapters!N, g, m
    <3>2. KindAt(new, k) = Adapters!TurnKind(m.role)
      BY <1>4, <2>2 DEF KindAt
    <3> QED  BY <2>1, <3>1, <3>2
  <2>3. CASE b.type = "call"
    <3>1. PICK key, parent : items' = Append(items, Adapters!BlockItem("tool_call", key, parent, b))
      BY <2>3, Zenon DEF Adapters!ReadBlock
    <3>2. KindAt(new, k) = "tool_call"
      BY <1>3, <1>4, <2>3 DEF KindAt
    <3> QED  BY <2>1, <3>1, <3>2
  <2>4. CASE b.type = "result"
    <3>1. PICK key, parent : items' = Append(items, Adapters!BlockItem("tool_result", key, parent, b))
      BY <2>4, Zenon DEF Adapters!ReadBlock
    <3>2. KindAt(new, k) = "tool_result"
      BY <1>3, <1>4, <2>4 DEF KindAt
    <3> QED  BY <2>1, <3>1, <3>2
  <2> QED  BY <1>9, <2>2, <2>3, <2>4
<1>14. e \in Said
  <2>1. items' \in Seq(Said) /\ items \in Seq(Said)
    BY <1>1 DEF MessageType
  <2>2. Len(items') = Len(items) + 1 /\ Len(items) \in Nat /\ items'[Len(items) + 1] = e
    BY <1>13, <2>1
  <2>3. Len(items) + 1 \in 1..Len(items')
    BY <2>2
  <2> QED  BY <2>1, <2>2, <2>3
<1>15. Stands(new, e)
  <2>1. Adapters!Kept(new) = Adapters!Kept(m)
    BY <1>4 DEF Adapters!Kept
  <2> QED  BY <1>3, <1>4, <1>13, <2>1 DEF Stands
<1>16. g \in 1..Len(msgs') /\ Stands(msgs'[g], e)
  BY <1>2, <1>6, <1>7, <1>15
<1>17. \A h \in 1..Len(msgs) : \A l \in 0..Len(msgs[h].blocks) : Before(h, l, g, k)
  BY <1>2, <1>3, <1>6 DEF Before
<1>18. \A h \in 1..Len(msgs) : \A l \in 1..Len(msgs'[h].blocks) :
         l \in 1..Len(msgs[h].blocks) \/ (h = g /\ l = k)
  BY <1>3, <1>4, <1>6, <1>7
<1>19. \A h \in 1..Len(msgs') : \/ h \in 1..Len(msgs)
                                \/ h = g /\ k = 0 /\ Len(msgs'[h].blocks) = 0
  BY <1>6, <1>7
<1>20. OfPlaces /\ Told /\ InTurn
  BY <1>1 DEF PlaceInv
<1>21. MessageType /\ UNCHANGED provider /\ k \in Nat /\ items' = Append(items, e) /\ e.msg = g /\ e.at = k
  BY <1>1, <1>3, <1>13
<1>22. PICK at : at = k
  OBVIOUS
<1>23. PICK of : of = g
  OBVIOUS
<1>24. /\ of \in 1..Len(msgs') /\ at \in Nat /\ e.msg = of /\ e.at = at /\ Stands(msgs'[of], e)
  BY <1>16, <1>21, <1>22, <1>23
<1>25. \A h \in 1..Len(msgs) : \A l \in 0..Len(msgs[h].blocks) : Before(h, l, of, at)
  BY <1>17, <1>22, <1>23
<1>26. \A h \in 1..Len(msgs') : \/ h \in 1..Len(msgs)
                                \/ h = of /\ at = 0 /\ Len(msgs'[h].blocks) = 0
  BY <1>19, <1>22, <1>23
<1>27. \A h \in 1..Len(msgs) : \A l \in 1..Len(msgs'[h].blocks) :
         l \in 1..Len(msgs[h].blocks) \/ (h = of /\ l = at)
  BY <1>18, <1>22, <1>23
<1> QED  BY <1>11, <1>12, <1>14, <1>20, <1>21, <1>24, <1>25, <1>26, <1>27, ItemJoins

LEMMA PlaceInit == Adapters!Init => PlaceInv
<1> SUFFICES ASSUME Adapters!Init PROVE PlaceInv
  OBVIOUS
<1>1. Len(items) = 0 /\ Len(msgs) = 0
  BY DEF Adapters!Init
<1> QED  BY <1>1 DEF PlaceInv, AllFormed, OfPlaces, Told, InTurn

LEMMA PlaceStep == ReadInv /\ ReadInv' /\ PlaceInv /\ [Adapters!Next]_Adapters!vars => PlaceInv'
<1> SUFFICES ASSUME ReadInv, ReadInv', PlaceInv, [Adapters!Next]_Adapters!vars PROVE PlaceInv'
  OBVIOUS
<1>0. MessageType'
  BY DEF ReadInv
<1>1. CASE \E m \in Adapters!Opening : Adapters!NewMessage(m)
  BY <1>0, <1>1, MessagePlaced
<1>2. CASE \E b \in Adapters!Block : Adapters!ReadBlock(b)
  BY <1>0, <1>2, BlockPlaced
<1>3. CASE \E b \in Adapters!Block : Adapters!Reject(b)
  <2>1. UNCHANGED <<provider, msgs>> /\ step' = "rejected"
    BY <1>3 DEF Adapters!Reject
  <2> QED  BY <2>1 DEF PlaceInv, AllFormed, Formed
<1>4. CASE UNCHANGED <<provider, msgs, items>> /\ (step' # "rejected" => step # "rejected")
  <2>1. AllFormed'
    BY <1>4 DEF PlaceInv, AllFormed, Formed
  <2>2. step' # "rejected" => OfPlaces' /\ Told' /\ InTurn'
    BY <1>4 DEF PlaceInv, OfPlaces, Stands, KindAt, Told, Begins, Has, InTurn, Before
  <2> QED  BY <2>1, <2>2 DEF PlaceInv
<1>5. CASE Adapters!Finish
  BY <1>4, <1>5 DEF Adapters!Finish
<1>6. CASE UNCHANGED Adapters!vars
  <2>1. UNCHANGED <<provider, msgs, items, step>>
    BY <1>6 DEF Adapters!vars
  <2> QED  BY <1>4, <2>1
<1> QED  BY <1>1, <1>2, <1>3, <1>5, <1>6 DEF Adapters!Next

--------------------------------------------------------------------------------
(* What is sent of a list of items *)

\* Where the items of a list come from; that they do; that no two are of one place;
\* and that they are in the order of their places.
KeptOf(list) == {<<list[k].msg, list[k].at>> : k \in 1..Len(list)}
Placing(list) == \A k \in 1..Len(list) : list[k].msg \in 1..Len(msgs) /\ Stands(msgs[list[k].msg], list[k])
Apart(list) == \A j, k \in 1..Len(list) :
                  list[j].msg = list[k].msg /\ list[j].at = list[k].at => j = k
Rising(list) == \A j, k \in 1..Len(list) :
                  j < k => Before(list[j].msg, list[j].at, list[k].msg, list[k].at)

LEMMA RisingApart ==
  ASSUME NEW list \in Seq(Said), Rising(list)
  PROVE  Apart(list)
<1> SUFFICES ASSUME NEW j \in 1..Len(list), NEW k \in 1..Len(list),
                    list[j].msg = list[k].msg, list[j].at = list[k].at, j # k
             PROVE  FALSE
  BY DEF Apart
<1>1. /\ list[j] \in Said /\ list[k] \in Said
  OBVIOUS
<1>2. list[j].msg \in Nat /\ list[j].at \in Nat
  BY <1>1 DEF Said
<1>3. j < k \/ k < j
  OBVIOUS
<1> QED  BY <1>2, <1>3 DEF Rising, Before

LEMMA PlacesRead ==
  ASSUME MessageType, OfPlaces, Told, InTurn
  PROVE  Adapters!Following(Adapters!Here) = [i \in 1..Len(items) |-> <<items[i].msg, items[i].at>>]
<1> DEFINE f == [i \in 1..Len(items) |-> <<items[i].msg, items[i].at>>]
           H == Adapters!Here
<1>1. Len(items) \in Nat /\ \A i \in 1..Len(items) : items[i].msg \in Nat /\ items[i].at \in Nat
  <2>1. \A i \in 1..Len(items) : items[i] \in Said
    BY DEF MessageType
  <2> QED  BY <2>1 DEF MessageType, Said
<1>2. \A g \in 1..Len(msgs) : Len(msgs[g].blocks) \in Nat
  BY BlocksTyped DEF MessageType
<1>3. \A g \in 1..Len(msgs) : Adapters!First(g) \in {0, 1} /\ (Adapters!First(g) = 0 <=> Begins(g))
  BY DEF Adapters!First, Begins
<1>4. H = UNION {{g} \X (Adapters!First(g)..Len(msgs[g].blocks)) : g \in 1..Len(msgs)}
  BY DEF Adapters!Here, Adapters!N
<1> HIDE DEF H
<1>5. \A g \in 1..Len(msgs) : \A k \in Adapters!First(g)..Len(msgs[g].blocks) : <<g, k>> \in H
  BY <1>4
<1>6. ASSUME NEW x \in H
      PROVE  \E g \in 1..Len(msgs) : \E k \in Adapters!First(g)..Len(msgs[g].blocks) : x = <<g, k>>
  BY <1>4
<1>7. H \subseteq Nat \X Nat
  <2> SUFFICES ASSUME NEW x \in H PROVE x \in Nat \X Nat
    OBVIOUS
  <2>1. PICK g \in 1..Len(msgs) : \E k \in Adapters!First(g)..Len(msgs[g].blocks) : x = <<g, k>>
    BY <1>6
  <2>2. PICK k \in Adapters!First(g)..Len(msgs[g].blocks) : x = <<g, k>>
    BY <2>1
  <2>3. g \in Nat /\ k \in Nat
    BY <1>2, <1>3
  <2> QED  BY <2>2, <2>3
<1>8. ASSUME NEW i \in 1..Len(items) PROVE <<items[i].msg, items[i].at>> \in H
  <2>1. PICK g, k : g = items[i].msg /\ k = items[i].at
    OBVIOUS
  <2>2. /\ g \in 1..Len(msgs) /\ k \in 0..Len(msgs[g].blocks)
        /\ k = 0 => Begins(g)
    BY <2>1 DEF OfPlaces, Stands, Begins
  <2>3. k \in Adapters!First(g)..Len(msgs[g].blocks)
    BY <1>2, <1>3, <2>2
  <2> QED  BY <1>5, <2>1, <2>2, <2>3
<1>9. f \in [1..Len(items) -> H]
  BY <1>8
<1>10. \A x \in H : \E i \in 1..Len(items) : f[i] = x
  <2> SUFFICES ASSUME NEW x \in H PROVE \E i \in 1..Len(items) : <<items[i].msg, items[i].at>> = x
    OBVIOUS
  <2>1. PICK g \in 1..Len(msgs) : \E k \in Adapters!First(g)..Len(msgs[g].blocks) : x = <<g, k>>
    BY <1>6
  <2>2. PICK k \in Adapters!First(g)..Len(msgs[g].blocks) : x = <<g, k>>
    BY <2>1
  <2>3. (k = 0 /\ Begins(g)) \/ k \in 1..Len(msgs[g].blocks)
    BY <1>2, <1>3
  <2>4. Has(g, k)
    BY <2>3 DEF Told
  <2> QED  BY <2>2, <2>4 DEF Has
<1>11. Linear(H, Later(H)) /\ Adapters!Following(H) = Ranked(H, Later(H))
       /\ \A x, y \in H : <<x, y>> \in Later(H) <=> x[1] < y[1] \/ (x[1] = y[1] /\ x[2] < y[2])
  BY <1>7, PlacesOrdered
<1>12. \A j, k \in 1..Len(items) : j < k => <<f[j], f[k]>> \in Later(H)
  <2> SUFFICES ASSUME NEW j \in 1..Len(items), NEW k \in 1..Len(items), j < k
               PROVE  <<f[j], f[k]>> \in Later(H)
    OBVIOUS
  <2>1. f[j] \in H /\ f[k] \in H
    BY <1>8
  <2>2. f[j][1] < f[k][1] \/ (f[j][1] = f[k][1] /\ f[j][2] < f[k][2])
    BY DEF InTurn, Before
  <2> HIDE DEF f
  <2> QED  BY <1>11, <2>1, <2>2
<1> HIDE DEF f
<1>13. Ranked(H, Later(H)) = f
  <2>1. Len(items) \in Nat /\ Linear(H, Later(H))
    BY <1>1, <1>11
  <2> QED  BY ONLY <1>9, <1>10, <1>12, <2>1, Matches
<1> QED  BY <1>11, <1>13 DEF f, H

\* The members of a set of numbers, one by one.
Listed(S, picked) ==
    /\ IsFiniteSet(S) /\ Linear(S, Less(S)) /\ Len(picked) = Cardinality(S)
    /\ Len(picked) \in Nat /\ picked \in [1..Len(picked) -> S]
    /\ \A i \in S : \E k \in 1..Len(picked) : picked[k] = i
    /\ \A j, k \in 1..Len(picked) : j < k <=> picked[j] < picked[k]

LEMMA Picks ==
  ASSUME NEW n \in Nat, NEW S \in SUBSET (1..n), NEW picked, picked = Ranked(S, Less(S))
  PROVE  Listed(S, picked)
<1>1. IsFiniteSet(S)
  <2>1. IsFiniteSet(1..n)
    BY FS_Interval
  <2> QED  BY <2>1, FS_Subset
<1>2. S \subseteq Int
  OBVIOUS
<1>3. Linear(S, Less(S)) /\ \A x, y \in S : <<x, y>> \in Less(S) <=> x < y
  BY <1>2, NumbersOrdered
<1>4. PICK c : c = Cardinality(S)
  OBVIOUS
<1>5. /\ c \in Nat /\ picked \in [1..c -> S]
      /\ \A x \in S : \E k \in 1..c : picked[k] = x
      /\ \A j, k \in 1..c : j < k <=> <<picked[j], picked[k]>> \in Less(S)
  BY <1>1, <1>3, <1>4, Enumerated
<1>6. Len(picked) = c
  BY <1>5
<1>7. \A j, k \in 1..c : picked[j] \in S /\ picked[k] \in S
  BY <1>5
<1> QED  BY <1>1, <1>3, <1>4, <1>5, <1>6, <1>7 DEF Listed

\* Those that somebody kept.
Sheet(picked) == [k \in 1..Len(picked) |-> items[picked[k]]]

LEMMA SheetOf ==
  ASSUME MessageType, step = "rejected" => items = <<>>, step # "rejected" => OfPlaces /\ InTurn,
         NEW S \in SUBSET (1..Len(items)), NEW picked, picked = Adapters!InOrder(S),
         NEW list, list = Sheet(picked)
  PROVE  /\ list \in Seq(Said) /\ Placing(list) /\ Rising(list)
         /\ KeptOf(list) = {<<items[i].msg, items[i].at>> : i \in S}
<1>1. Len(items) \in Nat /\ items \in Seq(Said)
  BY DEF MessageType
<1>2. S \subseteq Int /\ picked = Ranked(S, Less(S))
  <2>1. S \subseteq Int
    BY <1>1
  <2> QED  BY <2>1, NumbersOrdered
<1>3. /\ Len(picked) \in Nat /\ picked \in [1..Len(picked) -> S]
      /\ \A i \in S : \E k \in 1..Len(picked) : picked[k] = i
      /\ \A j, k \in 1..Len(picked) : j < k <=> picked[j] < picked[k]
  <2>1. Len(items) \in Nat /\ S \in SUBSET (1..Len(items)) /\ picked = Ranked(S, Less(S))
    BY <1>1, <1>2
  <2>2. Listed(S, picked)
    BY ONLY <2>1, Picks
  <2> QED  BY <2>2 DEF Listed
<1>4. S # {} => step # "rejected"
  <2> SUFFICES ASSUME step = "rejected" PROVE S = {}
    OBVIOUS
  <2>1. Len(items) = 0
    BY <1>1
  <2>2. 1..Len(items) = {}
    BY <2>1
  <2> QED  BY <2>2
<1>5. \A k \in 1..Len(picked) : picked[k] \in S /\ picked[k] \in 1..Len(items) /\ list[k] = items[picked[k]]
  BY <1>3 DEF Sheet
<1>6. list \in Seq(Said) /\ Len(list) = Len(picked)
  <2>1. \A k \in 1..Len(picked) : items[picked[k]] \in Said
    BY <1>1, <1>5
  <2> QED  BY <1>3, <2>1 DEF Sheet
<1>7. Placing(list)
  BY <1>4, <1>5, <1>6 DEF Placing, OfPlaces
<1>8. Rising(list)
  BY <1>3, <1>4, <1>5, <1>6 DEF Rising, InTurn
<1>9. KeptOf(list) = {<<items[i].msg, items[i].at>> : i \in S}
  <2>1. \A k \in 1..Len(list) : \E i \in S : list[k] = items[i]
    BY <1>5, <1>6
  <2>2. \A i \in S : \E k \in 1..Len(list) : list[k] = items[i]
    BY <1>3, <1>5, <1>6
  <2>3. ASSUME NEW p, p \in KeptOf(list) PROVE \E i \in S : p = <<items[i].msg, items[i].at>>
    <3>1. PICK k \in 1..Len(list) : p = <<list[k].msg, list[k].at>>
      BY <2>3 DEF KeptOf
    <3>2. PICK i \in S : list[k] = items[i]
      BY <2>1
    <3> QED  BY <3>1, <3>2
  <2>4. ASSUME NEW i \in S PROVE <<items[i].msg, items[i].at>> \in KeptOf(list)
    <3>1. PICK k \in 1..Len(list) : list[k] = items[i]
      BY <2>2
    <3> QED  BY <3>1 DEF KeptOf
  <2> QED  BY <2>3, <2>4
<1> QED  BY <1>6, <1>7, <1>8, <1>9

LEMMA ReversedSheet ==
  ASSUME NEW list \in Seq(Said), Placing(list), Apart(list), NEW back, back = Adapters!Reverse(list)
  PROVE  back \in Seq(Said) /\ Placing(back) /\ Apart(back) /\ KeptOf(back) = KeptOf(list)
<1> DEFINE n == Len(list)
<1>1. n \in Nat /\ back = [i \in 1..n |-> list[(n - i) + 1]]
  BY DEF Adapters!Reverse
<1>2. \A i \in 1..n : (n - i) + 1 \in 1..n /\ (n - ((n - i) + 1)) + 1 = i
  BY <1>1
<1>3. back \in Seq(Said) /\ Len(back) = n
  <2>1. \A i \in 1..n : list[(n - i) + 1] \in Said
    BY <1>2
  <2> HIDE DEF n
  <2> QED  BY <1>1, <2>1
<1>4. \A i \in 1..n : back[i] = list[(n - i) + 1] /\ list[i] = back[(n - i) + 1]
  BY <1>1, <1>2
<1>5. n = Len(list)
  OBVIOUS
<1> HIDE DEF n
<1>6. Placing(back)
  BY <1>2, <1>3, <1>4, <1>5 DEF Placing
<1>7. Apart(back)
  <2> SUFFICES ASSUME NEW j \in 1..n, NEW k \in 1..n,
                      back[j].msg = back[k].msg, back[j].at = back[k].at
               PROVE  j = k
    BY <1>3 DEF Apart
  <2>1. (n - j) + 1 = (n - k) + 1
    BY <1>2, <1>4, <1>5 DEF Apart
  <2> QED  BY <1>1, <2>1
<1>8. KeptOf(back) = KeptOf(list)
  <2>1. \A k \in 1..Len(back) : \E i \in 1..n : back[k] = list[i]
    BY <1>2, <1>3, <1>4
  <2>2. \A i \in 1..n : \E k \in 1..Len(back) : back[k] = list[i]
    BY <1>2, <1>3, <1>4
  <2>3. ASSUME NEW p, p \in KeptOf(back) PROVE \E i \in 1..n : p = <<list[i].msg, list[i].at>>
    <3>1. PICK k \in 1..Len(back) : p = <<back[k].msg, back[k].at>>
      BY <2>3 DEF KeptOf
    <3>2. PICK i \in 1..n : back[k] = list[i]
      BY <2>1
    <3> QED  BY <3>1, <3>2
  <2>4. ASSUME NEW i \in 1..n PROVE <<list[i].msg, list[i].at>> \in KeptOf(back)
    <3>1. PICK k \in 1..Len(back) : back[k] = list[i]
      BY <2>2
    <3> QED  BY <3>1 DEF KeptOf
  <2> QED  BY <1>5, <2>3, <2>4 DEF KeptOf
<1> QED  BY <1>3, <1>6, <1>7, <1>8

--------------------------------------------------------------------------------
(* Anthropic and Gemini *)

\* A message of what is in the list of one that was read.
Gathered(list, group) ==
    [role |-> list[group[1]].role,
     content |-> IF list[group[1]].content = "string" THEN "string" ELSE "list",
     blocks |-> [k \in 1..Len(group) |-> list[group[k]].block]]

LEMMA GatheredIs ==
  ASSUME MessageType, AllFormed, provider # "openai",
         NEW list \in Seq(Said), Placing(list), Apart(list), NEW stay, stay = KeptOf(list),
         NEW x \in stay
  PROVE  Gathered(list, Adapters!Group(list, x[1])) = Adapters!Left(x, stay)
<1> DEFINE g == x[1]
           m == msgs[g]
           own == {i \in 1..Len(list) : list[i].msg = g}
           R == {p \in own \X own : list[p[1]].at < list[p[2]].at}
           B == {b \in 1..Len(m.blocks) : <<g, b>> \in stay}
           f == [i \in own |-> list[i].at]
           group == Adapters!Group(list, g)
           places == Adapters!InOrder(B)
<1>1. PICK h \in 1..Len(list) : x = <<list[h].msg, list[h].at>>
  BY DEF KeptOf
<1>2. g = list[h].msg /\ g \in 1..Len(msgs) /\ m \in Message /\ Formed(m) /\ h \in own
  BY <1>1 DEF Placing, MessageType, AllFormed
<1>3. m.blocks \in Seq(Adapters!Block) /\ Len(m.blocks) \in Nat
  BY <1>2, BlocksTyped
<1>4. ASSUME NEW i \in own
      PROVE  /\ list[i].at \in 1..Len(m.blocks) /\ <<g, list[i].at>> \in stay
             /\ list[i].role = m.role /\ list[i].content = Adapters!Kept(m)
             /\ list[i].block = m.blocks[list[i].at]
  <2>1. i \in 1..Len(list) /\ list[i].msg = g /\ list[i] \in Said
    OBVIOUS
  <2>2. Stands(m, list[i])
    BY <2>1 DEF Placing
  <2>3. list[i].at \in 0..Len(m.blocks) /\ list[i].at # 0
    BY <2>2 DEF Stands
  <2>4. list[i].at \in 1..Len(m.blocks)
    BY <1>3, <2>3
  <2>5. <<g, list[i].at>> \in stay
    BY <2>1 DEF KeptOf
  <2> QED  BY <2>2, <2>3, <2>4, <2>5 DEF Stands
<1>5. IsFiniteSet(own)
  <2>1. Len(list) \in Nat /\ own \in SUBSET (1..Len(list))
    OBVIOUS
  <2>2. IsFiniteSet(1..Len(list))
    BY <2>1, FS_Interval
  <2> QED  BY ONLY <2>1, <2>2, FS_Subset
<1>6. \A i, j \in own : i # j => list[i].at # list[j].at
  BY DEF Apart
<1>7. group = Ranked(own, R)
  BY RankedIs DEF Adapters!Group
<1>8. B \subseteq Int /\ \A b \in B : \E i \in own : list[i].at = b
  <2>1. \A b \in B : <<g, b>> \in stay /\ b \in Int
    BY <1>3
  <2> QED  BY <2>1 DEF KeptOf
<1>9. f \in [own -> B] /\ \A b \in B : \E i \in own : f[i] = b
  BY <1>4, <1>8
<1>10. \A i, j \in own : <<i, j>> \in R <=> list[i].at < list[j].at
  OBVIOUS
<1> HIDE DEF own, B, R
<1>11. Linear(own, R)
  <2>1. ASSUME NEW i \in own PROVE list[i].at \in Nat
    <3>1. list[i].at \in 1..Len(m.blocks) /\ Len(m.blocks) \in Nat
      BY <1>3, <1>4
    <3> QED  BY <3>1
  <2>2. \A i \in own : <<i, i>> \notin R
    BY <1>10, <2>1
  <2>3. ASSUME NEW i \in own, NEW j \in own, NEW k \in own, <<i, j>> \in R, <<j, k>> \in R
        PROVE  <<i, k>> \in R
    <3>1. list[i].at < list[j].at /\ list[j].at < list[k].at
      BY <1>10, <2>3
    <3>2. list[i].at \in Nat /\ list[j].at \in Nat /\ list[k].at \in Nat
      BY <2>1
    <3>3. \A a, b, c \in Nat : a < b /\ b < c => a < c
      OBVIOUS
    <3>4. list[i].at < list[k].at
      BY <3>1, <3>2, <3>3
    <3> QED  BY <1>10, <3>4
  <2>4. ASSUME NEW i \in own, NEW j \in own PROVE i = j \/ <<i, j>> \in R \/ <<j, i>> \in R
    <3>1. \A a, b \in Nat : a = b \/ a < b \/ b < a
      OBVIOUS
    <3>2. i = j \/ list[i].at < list[j].at \/ list[j].at < list[i].at
      BY <1>6, <2>1, <3>1
    <3> QED  BY <1>10, <3>2
  <2> QED  BY <2>2, <2>3, <2>4 DEF Linear
<1>12. /\ Linear(B, Less(B)) /\ \A b, c \in B : <<b, c>> \in Less(B) <=> b < c
       /\ places = Ranked(B, Less(B))
  BY <1>8, NumbersOrdered
<1>13. \A i, j \in own : <<i, j>> \in R => <<f[i], f[j]>> \in Less(B)
  <2> SUFFICES ASSUME NEW i \in own, NEW j \in own, <<i, j>> \in R PROVE <<f[i], f[j]>> \in Less(B)
    OBVIOUS
  <2>1. f[i] \in B /\ f[j] \in B /\ f[i] < f[j]
    BY <1>9, <1>10
  <2> QED  BY <1>12, <2>1
<1> HIDE DEF f
<1>14. PICK c : c = Cardinality(own)
  OBVIOUS
<1>15. /\ c \in Nat /\ places = [k \in 1..c |-> f[group[k]]]
  BY <1>5, <1>7, <1>9, <1>11, <1>12, <1>13, <1>14, Carried
<1>16. group \in [1..c -> own] /\ \A i \in own : \E k \in 1..c : group[k] = i
  BY <1>5, <1>7, <1>11, <1>14, Enumerated
<1> HIDE DEF group, places
<1>17. \A k \in 1..c : group[k] \in own /\ places[k] = list[group[k]].at
  BY <1>15, <1>16 DEF f
<1>18. Len(group) = c /\ Len(places) = c /\ 1 \in 1..c /\ group[1] \in own
  <2>1. \A k \in 1..c : f[group[k]] \in B
    BY <1>9, <1>16
  <2>2. \E k \in 1..c : group[k] = h
    BY <1>2, <1>16
  <2> QED  BY <1>15, <1>16, <2>1, <2>2
<1>19. Gathered(list, group).blocks = [k \in 1..c |-> m.blocks[places[k]]]
  <2>1. Gathered(list, group).blocks = [k \in 1..c |-> list[group[k]].block]
    BY <1>18 DEF Gathered
  <2>2. \A k \in 1..c : list[group[k]].block = m.blocks[places[k]]
    BY <1>4, <1>17
  <2> QED  BY <2>1, <2>2
<1>20. Adapters!Left(x, stay) = [m EXCEPT !.blocks = [k \in 1..Len(places) |-> m.blocks[places[k]]]]
  BY DEF Adapters!Left, places, B
<1>21. Gathered(list, group).role = m.role
  BY <1>4, <1>18 DEF Gathered
<1>22. Gathered(list, group).content = m.content
  <2>1. list[group[1]].content = Adapters!Kept(m)
    BY <1>4, <1>18
  <2>2. Len(m.blocks) > 0
    <3>1. list[h].at \in 1..Len(m.blocks)
      BY <1>2, <1>4
    <3> QED  BY <1>3, <3>1
  <2>3. m.content \in {"string", "list"}
    BY <1>2, <2>2 DEF Formed
  <2>4. Adapters!Kept(m) = m.content
    BY <2>3 DEF Adapters!Kept, Adapters!Flat
  <2> QED  BY <2>1, <2>3, <2>4 DEF Gathered
<1>23. m = [role |-> m.role, content |-> m.content, blocks |-> m.blocks]
  BY <1>2, BlocksTyped
<1>24. Gathered(list, group) = [role |-> m.role, content |-> m.content, blocks |-> Gathered(list, group).blocks]
  BY <1>21, <1>22 DEF Gathered
<1>25. Adapters!Left(x, stay) =
         [role |-> m.role, content |-> m.content, blocks |-> [k \in 1..c |-> m.blocks[places[k]]]]
  BY <1>18, <1>20, <1>23
<1> QED  BY <1>19, <1>24, <1>25 DEF group

LEMMA GroupedIs ==
  ASSUME MessageType, AllFormed, provider # "openai",
         NEW list \in Seq(Said), Placing(list), Apart(list), NEW stay, stay = KeptOf(list),
         NEW heads, heads = Adapters!Following(Adapters!Heads(stay))
  PROVE  Adapters!Grouped(list) = [k \in 1..Len(heads) |-> Adapters!Left(heads[k], stay)]
<1> DEFINE G == {list[i].msg : i \in 1..Len(list)}
           H == Adapters!Heads(stay)
           groups == Adapters!InOrder(G)
           At(g) == {list[i].at : i \in {i \in 1..Len(list) : list[i].msg = g}}
           Least(g) == CHOOSE a \in At(g) : \A b \in At(g) : a <= b
           f == [g \in G |-> <<g, Least(g)>>]
<1>1. \A i \in 1..Len(list) : list[i] \in Said /\ list[i].msg \in Nat /\ list[i].at \in Nat
  <2>1. \A i \in 1..Len(list) : list[i] \in Said
    OBVIOUS
  <2> QED  BY <2>1 DEF Said
<1>2. G \subseteq Int /\ stay \subseteq Nat \X Nat
  BY <1>1 DEF KeptOf
<1>3. H = {x \in stay : \A y \in stay : y[1] = x[1] => x[2] <= y[2]}
  BY DEF Adapters!Heads
<1>4. \A g, a : <<g, a>> \in stay <=> g \in G /\ a \in At(g)
  BY DEF KeptOf
<1>5. ASSUME NEW g \in G
      PROVE  Least(g) \in At(g) /\ \A b \in At(g) : Least(g) <= b
  <2>1. At(g) \in SUBSET Nat /\ At(g) # {}
    BY <1>1
  <2> HIDE DEF At
  <2>2. \E a \in At(g) : \A b \in At(g) : a <= b
    BY <2>1, NatMinimum
  <2> QED  BY <2>2
<1>6. \A x \in stay : x = <<x[1], x[2]>> /\ x[1] \in Nat /\ x[2] \in Nat
  BY <1>2
<1>7. IsFiniteSet(G)
  <2>1. Len(list) \in Nat
    OBVIOUS
  <2>2. IsFiniteSet(1..Len(list))
    BY <2>1, FS_Interval
  <2> DEFINE F == [i \in 1..Len(list) |-> list[i].msg]
  <2>3. F \in Surjection(1..Len(list), G)
    BY DEF Surjection
  <2> HIDE DEF F, G
  <2> QED  BY <2>2, <2>3, FS_Surjection
<1> HIDE DEF G, H, At, Least
<1>8. ASSUME NEW g \in G PROVE f[g] \in H
  <2>1. <<g, Least(g)>> \in stay
    BY <1>4, <1>5
  <2>2. \A y \in stay : y[1] = g => Least(g) <= y[2]
    BY <1>4, <1>5, <1>6
  <2> QED  BY <1>3, <2>1, <2>2
<1>9. ASSUME NEW x \in H PROVE x[1] \in G /\ f[x[1]] = x
  <2>1. x \in stay /\ \A y \in stay : y[1] = x[1] => x[2] <= y[2]
    BY <1>3
  <2>2. x[1] \in G /\ x[2] \in At(x[1]) /\ x = <<x[1], x[2]>> /\ x[2] \in Nat
    BY <1>4, <1>6, <2>1
  <2>3. Least(x[1]) <= x[2] /\ <<x[1], Least(x[1])>> \in stay
    BY <1>4, <1>5, <2>2
  <2>4. x[2] <= Least(x[1]) /\ Least(x[1]) \in Nat
    BY <1>6, <2>1, <2>3
  <2> QED  BY <2>2, <2>3, <2>4
<1>10. f \in [G -> H] /\ \A x \in H : \E g \in G : f[g] = x
  BY <1>8, <1>9
<1>11. H \subseteq Nat \X Nat
  BY <1>2, <1>3
<1>12. /\ Linear(G, Less(G)) /\ groups = Ranked(G, Less(G))
       /\ \A g, h \in G : <<g, h>> \in Less(G) <=> g < h
  BY <1>2, NumbersOrdered
<1>13. /\ Linear(H, Later(H)) /\ heads = Ranked(H, Later(H))
       /\ \A x, y \in H : <<x, y>> \in Later(H) <=> x[1] < y[1] \/ (x[1] = y[1] /\ x[2] < y[2])
  BY <1>11, PlacesOrdered DEF H
<1>14. \A g, h \in G : <<g, h>> \in Less(G) => <<f[g], f[h]>> \in Later(H)
  <2> SUFFICES ASSUME NEW g \in G, NEW h \in G, g < h PROVE <<f[g], f[h]>> \in Later(H)
    BY <1>12
  <2>1. f[g] \in H /\ f[h] \in H /\ f[g][1] < f[h][1]
    BY <1>8
  <2> QED  BY <1>13, <2>1
<1>15. \A g \in G : f[g][1] = g
  OBVIOUS
<1> HIDE DEF f
<1>16. PICK c : c = Cardinality(G)
  OBVIOUS
<1>17. c \in Nat /\ heads = [k \in 1..c |-> f[groups[k]]]
  BY <1>7, <1>10, <1>12, <1>13, <1>14, <1>16, Carried
<1>18. groups \in [1..c -> G]
  BY <1>7, <1>12, <1>16, Enumerated
<1> HIDE DEF groups
<1>19. \A k \in 1..c : groups[k] \in G /\ heads[k] = f[groups[k]] /\ heads[k] \in H /\ heads[k][1] = groups[k]
  BY <1>8, <1>15, <1>17, <1>18
<1>20. Len(groups) = c /\ Len(heads) = c
  BY <1>17, <1>18, <1>19
<1>21. Adapters!Grouped(list) = [k \in 1..Len(groups) |-> Gathered(list, Adapters!Group(list, groups[k]))]
  BY DEF Adapters!Grouped, Gathered, groups, G
<1>22. \A k \in 1..c : Gathered(list, Adapters!Group(list, groups[k])) = Adapters!Left(heads[k], stay)
  <2> SUFFICES ASSUME NEW k \in 1..c
               PROVE  Gathered(list, Adapters!Group(list, groups[k])) = Adapters!Left(heads[k], stay)
    OBVIOUS
  <2>1. PICK x \in stay : x = heads[k]
    BY <1>3, <1>19
  <2>2. Gathered(list, Adapters!Group(list, x[1])) = Adapters!Left(x, stay)
    BY GatheredIs
  <2> QED  BY <1>19, <2>1, <2>2
<1> QED  BY <1>20, <1>21, <1>22

--------------------------------------------------------------------------------
(* OpenAI *)

\* What stands at a place of a message, with OpenAI.
LEMMA KindsThere ==
  ASSUME provider = "openai", NEW m \in Message, Formed(m), NEW x \in Said, Stands(m, x)
  PROVE  /\ x.at = 0 => m.role # "tool" /\ x.kind = Adapters!TurnKind(m.role)
         /\ x.at > 0 /\ m.role = "assistant" => x.kind = "tool_call"
         /\ x.at > 0 /\ m.role # "assistant" =>
              /\ m.role = "tool" /\ x.kind = "tool_result"
              /\ x.at = 1 /\ Len(m.blocks) = 1
         /\ x.at = 0 /\ x.kind # "agent_msg" => Len(m.blocks) = 0
         /\ x.at \in 0..Len(m.blocks) /\ Len(m.blocks) \in Nat
<1>1. Len(m.blocks) \in Nat /\ x.at \in 0..Len(m.blocks) /\ x.kind = KindAt(m, x.at)
  BY BlocksTyped DEF Stands
<1>2. x.at = 0 => m.role # "tool" /\ x.kind = Adapters!TurnKind(m.role)
  BY <1>1 DEF Stands, KindAt
<1>3. ASSUME x.at > 0
      PROVE  /\ m.role = "assistant" => x.kind = "tool_call"
             /\ m.role # "assistant" => /\ m.role = "tool" /\ x.kind = "tool_result"
                                        /\ x.at = 1 /\ Len(m.blocks) = 1
  <2>1. x.at \in 1..Len(m.blocks)
    BY <1>1, <1>3
  <2>2. CASE m.role = "assistant"
    <3>1. m.blocks[x.at].type = "call"
      BY <2>1, <2>2 DEF Formed
    <3> QED  BY <1>1, <1>3, <2>2, <3>1 DEF KindAt
  <2>3. CASE m.role = "tool"
    <3>1. m.blocks[x.at].type = "result" /\ Len(m.blocks) <= 1
      BY <2>1, <2>3 DEF Formed
    <3>2. x.at = 1 /\ Len(m.blocks) = 1
      <4>1. \A a, n \in Nat : a \in 1..n /\ n <= 1 => a = 1 /\ n = 1
        OBVIOUS
      <4>2. x.at \in Nat
        BY <1>1
      <4> QED  BY <1>1, <2>1, <3>1, <4>1, <4>2
    <3>3. x.kind = "tool_result"
      BY <1>1, <1>3, <3>1 DEF KindAt
    <3> QED  BY <2>3, <3>2, <3>3
  <2>4. m.role \in {"assistant", "tool"}
    BY <1>1, <2>1 DEF Formed
  <2> QED  BY <2>2, <2>3, <2>4
<1>4. ASSUME x.at = 0, x.kind # "agent_msg" PROVE Len(m.blocks) = 0
  <2>1. m.role \in {"system", "user"}
    BY <1>2, <1>4 DEF Adapters!TurnKind
  <2> QED  BY <2>1 DEF Formed
<1> QED  BY <1>1, <1>2, <1>3, <1>4

\* The calls that go with a turn are those of its message.
LEMMA BehindIs ==
  ASSUME MessageType, AllFormed, provider = "openai",
         NEW list \in Seq(Said), Placing(list), Rising(list),
         NEW h \in 1..Len(list), list[h].kind = "agent_msg"
  PROVE  /\ list[h].at = 0
         /\ \A i \in 1..Len(list) : i \in Adapters!Behind(list, h)
              <=> list[i].msg = list[h].msg /\ list[i].at > 0
         /\ \A i \in Adapters!Behind(list, h) : i \in 1..Len(list) /\ i > h
         /\ \A i \in Adapters!Behind(list, h) : \A j \in (h + 1)..i : j \in Adapters!Behind(list, h)
<1>1. ASSUME NEW i \in 1..Len(list)
      PROVE  /\ list[i].msg \in 1..Len(msgs) /\ list[i].at \in Nat /\ list[i].msg \in Nat
             /\ list[i].at = 0 => list[i].kind # "tool_call"
             /\ list[i].kind = "agent_msg" => list[i].at = 0
             /\ list[i].at > 0 => \/ msgs[list[i].msg].role = "assistant" /\ list[i].kind = "tool_call"
                                  \/ msgs[list[i].msg].role = "tool"
             /\ list[i].at = 0 => msgs[list[i].msg].role # "tool"
  <2>1. PICK m, x : m = msgs[list[i].msg] /\ x = list[i]
    OBVIOUS
  <2>2. x \in Said /\ m \in Message /\ Formed(m) /\ Stands(m, x) /\ list[i].msg \in 1..Len(msgs)
    BY <2>1 DEF Placing, MessageType, AllFormed
  <2>3. x.at = 0 => x.kind \in {"policy", "user_turn", "agent_msg"}
    BY <2>2, KindsThere DEF Adapters!TurnKind
  <2>4. x.at \in Nat /\ (x.at > 0 \/ x.at = 0)
    BY <2>2 DEF Said
  <2>5. x.at > 0 => /\ x.kind \in {"tool_call", "tool_result"}
                    /\ (m.role = "assistant" /\ x.kind = "tool_call") \/ m.role = "tool"
    BY <2>2, KindsThere
  <2>6. x.at = 0 => m.role # "tool"
    BY <2>2, KindsThere
  <2> QED  BY <2>1, <2>2, <2>3, <2>4, <2>5, <2>6
<1>2. Len(list) \in Nat /\ list[h].at = 0
  BY <1>1
<1>3. \A i : i \in Adapters!Behind(list, h) <=>
         i \in (h + 1)..Len(list) /\ \A j \in (h + 1)..i : list[j].kind = "tool_call" /\ list[j].msg = list[h].msg
  BY DEF Adapters!Behind
<1>4. ASSUME NEW i \in Adapters!Behind(list, h)
      PROVE  i \in 1..Len(list) /\ i > h /\ list[i].msg = list[h].msg /\ list[i].at > 0
  <2>1. i \in (h + 1)..Len(list) /\ i \in (h + 1)..i /\ i \in 1..Len(list)
    BY <1>2, <1>3
  <2>2. list[i].kind = "tool_call" /\ list[i].msg = list[h].msg
    BY <1>3, <2>1
  <2> QED  BY <1>1, <2>1, <2>2
<1>5. ASSUME NEW i \in 1..Len(list), list[i].msg = list[h].msg, list[i].at > 0
      PROVE  i \in Adapters!Behind(list, h)
  <2>1. h < i
    <3>1. ~(i < h) /\ i # h
      BY <1>1, <1>2, <1>5 DEF Rising, Before
    <3> QED  BY <3>1
  <2>2. ASSUME NEW j \in (h + 1)..i PROVE list[j].kind = "tool_call" /\ list[j].msg = list[h].msg
    <3>1. j \in 1..Len(list) /\ h < j /\ (j < i \/ j = i)
      BY <2>1
    <3>2. Before(list[h].msg, list[h].at, list[j].msg, list[j].at)
      BY <3>1 DEF Rising
    <3>3. j < i => Before(list[j].msg, list[j].at, list[i].msg, list[i].at)
      BY <3>1 DEF Rising
    <3>4. list[j].msg = list[h].msg /\ list[j].at > 0
      BY <1>1, <1>2, <1>5, <3>1, <3>2, <3>3 DEF Before
    <3>5. msgs[list[h].msg].role # "tool"
      BY <1>1, <1>2
    <3> QED  BY <1>1, <3>1, <3>4, <3>5
  <2> QED  BY <1>3, <2>1, <2>2
<1>6. \A i \in Adapters!Behind(list, h) : \A j \in (h + 1)..i : j \in Adapters!Behind(list, h)
  BY <1>2, <1>3, <1>4
<1> QED  BY <1>2, <1>4, <1>5, <1>6

\* What is sent from item h on.
SentFrom(list, h) ==
    [role |-> IF list[h].kind = "tool_call" THEN "assistant" ELSE list[h].role,
     content |-> IF list[h].kind = "tool_call" THEN "null" ELSE list[h].content,
     blocks |-> IF list[h].kind = "agent_msg"
                THEN [k \in 1..Cardinality(Adapters!Behind(list, h)) |-> list[h + k].block]
                ELSE IF list[h].kind \in {"tool_call", "tool_result"} THEN <<list[h].block>> ELSE <<>>]
Turns(list) == {h \in 1..Len(list) : list[h].kind = "agent_msg"}
Carries(list) == UNION {Adapters!Behind(list, h) : h \in Turns(list)}
HeadsOf(list) == (1..Len(list)) \ Carries(list)

LEMMA OpenAIIs ==
  ASSUME NEW list, NEW heads, heads = Adapters!InOrder(HeadsOf(list)),
         \A k \in 1..Len(heads) : heads[k] \in 1..Len(list)
  PROVE  Adapters!OpenAI(list) = [k \in 1..Len(heads) |-> SentFrom(list, heads[k])]
<1> DEFINE turns == {h \in 1..Len(list) : list[h].kind = "agent_msg"}
           sent(h) == [role |-> IF list[h].kind = "tool_call" THEN "assistant" ELSE list[h].role,
                       content |-> IF list[h].kind = "tool_call" THEN "null" ELSE list[h].content,
                       blocks |-> CASE h \in turns ->
                                         [k \in 1..Adapters!Cardinality(Adapters!Behind(list, h)) |->
                                            list[h + k].block]
                                    [] list[h].kind \in {"tool_call", "tool_result"} -> <<list[h].block>>
                                    [] OTHER -> <<>>]
<1>1. Adapters!OpenAI(list) = [k \in 1..Len(heads) |-> sent(heads[k])]
  BY DEF Adapters!OpenAI, HeadsOf, Carries, Turns
<1>2. ASSUME NEW h \in 1..Len(list) PROVE sent(h) = SentFrom(list, h)
  <2>1. h \in turns <=> list[h].kind = "agent_msg"
    OBVIOUS
  <2> HIDE DEF turns
  <2>2. CASE list[h].kind = "agent_msg"
    BY <2>1, <2>2, SameCounts DEF SentFrom
  <2>3. CASE list[h].kind \in {"tool_call", "tool_result"}
    BY <2>1, <2>3 DEF SentFrom
  <2>4. CASE list[h].kind \notin {"agent_msg", "tool_call", "tool_result"}
    BY <2>1, <2>4 DEF SentFrom
  <2> QED  BY <2>2, <2>3, <2>4
<1> HIDE DEF sent
<1> QED  BY <1>1, <1>2

\* The blocks of a turn.
Held(g, stay) == Adapters!InOrder({b \in 1..Len(msgs[g].blocks) : <<g, b>> \in stay})

LEMMA TurnBlocks ==
  ASSUME MessageType, AllFormed, provider = "openai",
         NEW list \in Seq(Said), Placing(list), Rising(list), NEW stay, stay = KeptOf(list),
         NEW h \in 1..Len(list), list[h].kind = "agent_msg",
         NEW m, m = msgs[list[h].msg],
         NEW places, places = Held(list[h].msg, stay)
  PROVE  SentFrom(list, h).blocks = [k \in 1..Len(places) |-> m.blocks[places[k]]]
<1> DEFINE g == list[h].msg
           D == Adapters!Behind(list, h)
           B == {b \in 1..Len(m.blocks) : <<g, b>> \in stay}
           f == [i \in D |-> list[i].at]
           s == Ranked(D, Less(D))
<1>1. /\ \A i \in 1..Len(list) : i \in D <=> list[i].msg = g /\ list[i].at > 0
      /\ \A i \in D : i \in 1..Len(list) /\ i > h
      /\ \A i \in D : \A j \in (h + 1)..i : j \in D
  BY BehindIs
<1>2. Len(list) \in Nat /\ D \in SUBSET (1..Len(list)) /\ D \subseteq Int
  BY <1>1
<1>3. ASSUME NEW i \in D
      PROVE  list[i].at \in 1..Len(m.blocks) /\ <<g, list[i].at>> \in stay
             /\ list[i].block = m.blocks[list[i].at]
  <2>1. i \in 1..Len(list) /\ list[i].msg = g /\ list[i].at > 0
    BY <1>1
  <2>2. Stands(m, list[i]) /\ m \in Message
    BY <2>1 DEF Placing, MessageType
  <2>3. list[i].at \in 0..Len(m.blocks) /\ Len(m.blocks) \in Nat /\ list[i].block = m.blocks[list[i].at]
    BY <2>1, <2>2, BlocksTyped DEF Stands
  <2> QED  BY <2>1, <2>3 DEF KeptOf
<1>4. \A b \in B : b \in Int /\ \E i \in D : list[i].at = b
  <2> SUFFICES ASSUME NEW b \in B PROVE b \in Int /\ \E i \in D : list[i].at = b
    OBVIOUS
  <2>1. b \in Int /\ b > 0 /\ <<g, b>> \in stay
    OBVIOUS
  <2>2. PICK i \in 1..Len(list) : <<g, b>> = <<list[i].msg, list[i].at>>
    BY <2>1 DEF KeptOf
  <2> QED  BY <1>1, <2>1, <2>2
<1>5. f \in [D -> B] /\ \A b \in B : \E i \in D : f[i] = b
  BY <1>3, <1>4
<1>6. \A i, j \in D : i < j => list[i].at < list[j].at
  <2> SUFFICES ASSUME NEW i \in D, NEW j \in D, i < j PROVE list[i].at < list[j].at
    OBVIOUS
  <2>1. list[i].msg = g /\ list[j].msg = g /\ Before(list[i].msg, list[i].at, list[j].msg, list[j].at)
    BY <1>1 DEF Rising
  <2>2. g \in Nat
    BY DEF Placing
  <2> HIDE DEF g
  <2> QED  BY <2>1, <2>2 DEF Before
<1>7. places = Adapters!InOrder(B)
  BY DEF Held
<1>8. SentFrom(list, h).blocks = [k \in 1..Cardinality(D) |-> list[h + k].block]
  BY DEF SentFrom
<1> HIDE DEF B, D, g
<1>9. IsFiniteSet(D) /\ Linear(D, Less(D)) /\ \A i, j \in D : <<i, j>> \in Less(D) <=> i < j
  <2>1. IsFiniteSet(D)
    <3>1. 1 \in Int /\ Len(list) \in Int
      BY <1>2
    <3>2. IsFiniteSet(1..Len(list))
      BY ONLY <3>1, FS_Interval
    <3> QED  BY ONLY <1>2, <3>2, FS_Subset
  <2> QED  BY <1>2, <2>1, NumbersOrdered
<1>10. /\ Linear(B, Less(B)) /\ places = Ranked(B, Less(B))
       /\ \A b, c \in B : <<b, c>> \in Less(B) <=> b < c
  <2>1. B \subseteq Int
    BY <1>4
  <2> QED  BY <1>7, <2>1, NumbersOrdered
<1>11. \A i, j \in D : <<i, j>> \in Less(D) => <<f[i], f[j]>> \in Less(B)
  <2> SUFFICES ASSUME NEW i \in D, NEW j \in D, i < j PROVE <<f[i], f[j]>> \in Less(B)
    BY <1>9
  <2>1. f[i] \in B /\ f[j] \in B /\ f[i] < f[j]
    BY <1>5, <1>6
  <2> QED  BY <1>10, <2>1
<1> HIDE DEF f
<1>12. PICK c : c = Cardinality(D)
  OBVIOUS
<1>13. c \in Nat /\ places = [k \in 1..c |-> f[s[k]]]
  BY <1>5, <1>9, <1>10, <1>11, <1>12, Carried
<1>14. s \in [1..c -> D] /\ \A k \in 1..c : Cardinality(Ahead(D, Less(D), s[k])) = k - 1
  BY <1>9, <1>12, Enumerated
<1> HIDE DEF s
<1>15. ASSUME NEW i \in D PROVE Cardinality(Ahead(D, Less(D), i)) = i - h - 1
  <2>1. h \in Nat /\ i \in Nat /\ i > h
    BY <1>1, <1>2
  <2>2. \A j : j \in Ahead(D, Less(D), i) <=> j \in (h + 1)..(i - 1)
    <3>1. \A j \in D : <<j, i>> \in Less(D) <=> j < i
      BY <1>9
    <3>2. \A j \in D : j \in Nat /\ j > h
      BY <1>1, <1>2
    <3>3. \A j \in Ahead(D, Less(D), i) : j \in (h + 1)..(i - 1)
      <4> SUFFICES ASSUME NEW j \in Ahead(D, Less(D), i) PROVE j \in (h + 1)..(i - 1)
        OBVIOUS
      <4>1. j \in D /\ j < i
        BY <3>1 DEF Ahead
      <4> QED  BY <2>1, <3>2, <4>1
    <3>4. ASSUME NEW j \in (h + 1)..(i - 1) PROVE j \in Ahead(D, Less(D), i)
      <4>1. j \in (h + 1)..i /\ j < i
        BY <2>1
      <4>2. j \in D
        BY <1>1, <4>1
      <4> QED  BY <3>1, <4>1, <4>2 DEF Ahead
    <3> QED  BY <3>3, <3>4
  <2>3. Ahead(D, Less(D), i) = (h + 1)..(i - 1)
    BY <2>2
  <2>4. Cardinality((h + 1)..(i - 1)) = IF h + 1 > i - 1 THEN 0 ELSE (i - 1) - (h + 1) + 1
    BY <2>1, FS_Interval
  <2> QED  BY <2>1, <2>3, <2>4
<1>16. \A k \in 1..c : s[k] \in D /\ s[k] = h + k
  <2> SUFFICES ASSUME NEW k \in 1..c PROVE s[k] \in D /\ s[k] = h + k
    OBVIOUS
  <2>1. s[k] \in D /\ Cardinality(Ahead(D, Less(D), s[k])) = k - 1
    BY <1>14
  <2>2. s[k] - h - 1 = k - 1
    BY <1>15, <2>1
  <2>3. s[k] \in Nat /\ h \in Nat /\ k \in Nat
    <3>1. D \subseteq Nat /\ h \in Nat
      BY <1>2
    <3>2. k \in Nat
      BY <1>13
    <3> QED  BY <2>1, <3>1, <3>2
  <2>4. \A a, b, d \in Nat : a - b - 1 = d - 1 => a = b + d
    OBVIOUS
  <2> QED  BY ONLY <2>1, <2>2, <2>3, <2>4
<1>17. \A k \in 1..c : places[k] = list[h + k].at /\ list[h + k].block = m.blocks[places[k]]
  BY <1>3, <1>13, <1>16 DEF f
<1>18. Len(places) = c
  <2>1. \A k \in 1..c : places[k] \in B
    BY <1>5, <1>13, <1>14
  <2> QED  BY <1>13, <2>1
<1>19. [k \in 1..c |-> list[h + k].block] = [k \in 1..c |-> m.blocks[places[k]]]
  BY <1>17
<1> QED  BY <1>8, <1>12, <1>18, <1>19

\* An item is sent with another just where it is a call whose turn is there.
LEMMA HeadsAre ==
  ASSUME MessageType, AllFormed, provider = "openai",
         NEW list \in Seq(Said), Placing(list), Rising(list), NEW stay, stay = KeptOf(list),
         NEW i \in 1..Len(list)
  PROVE  i \in Carries(list) <=> list[i].at > 0 /\ <<list[i].msg, 0>> \in stay
<1>1. ASSUME i \in Carries(list) PROVE list[i].at > 0 /\ <<list[i].msg, 0>> \in stay
  <2>1. PICK h \in 1..Len(list) : list[h].kind = "agent_msg" /\ i \in Adapters!Behind(list, h)
    BY <1>1 DEF Carries, Turns
  <2>2. list[h].at = 0 /\ list[i].msg = list[h].msg /\ list[i].at > 0
    BY <2>1, BehindIs
  <2>3. <<list[h].msg, list[h].at>> \in stay
    BY DEF KeptOf
  <2> QED  BY <2>2, <2>3
<1>2. ASSUME list[i].at > 0, <<list[i].msg, 0>> \in stay PROVE i \in Carries(list)
  <2>1. PICK h \in 1..Len(list) : <<list[i].msg, 0>> = <<list[h].msg, list[h].at>>
    BY <1>2 DEF KeptOf
  <2>2. PICK m, x, y : m = msgs[list[i].msg] /\ x = list[i] /\ y = list[h]
    OBVIOUS
  <2>3. /\ m \in Message /\ Formed(m) /\ x \in Said /\ y \in Said /\ Stands(m, x) /\ Stands(m, y)
        /\ x.at > 0 /\ y.at = 0
    BY <1>2, <2>1, <2>2 DEF Placing, MessageType, AllFormed
  <2>4. m.role \in {"assistant", "tool"}
    BY <2>3, KindsThere
  <2>5. m.role # "tool" /\ y.kind = Adapters!TurnKind(m.role)
    BY <2>3, KindsThere
  <2>6. y.kind = "agent_msg"
    BY <2>4, <2>5 DEF Adapters!TurnKind
  <2>7. i \in Adapters!Behind(list, h)
    BY <1>2, <2>1, <2>2, <2>6, BehindIs
  <2> QED  BY <2>2, <2>6, <2>7 DEF Carries, Turns
<1> QED  BY <1>1, <1>2

LEMMA SentFromIs ==
  ASSUME MessageType, AllFormed, provider = "openai",
         NEW list \in Seq(Said), Placing(list), Rising(list), NEW stay, stay = KeptOf(list),
         NEW h \in HeadsOf(list), NEW x, x = <<list[h].msg, list[h].at>>
  PROVE  SentFrom(list, h) = Adapters!Left(x, stay)
<1> DEFINE g == list[h].msg
           m == msgs[g]
           y == list[h]
           B == {b \in 1..Len(m.blocks) : <<g, b>> \in stay}
           places == Adapters!InOrder(B)
           cut == [k \in 1..Len(places) |-> m.blocks[places[k]]]
<1>1. /\ h \in 1..Len(list) /\ m \in Message /\ Formed(m) /\ y \in Said /\ Stands(m, y)
      /\ ~(y.at > 0 /\ <<g, 0>> \in stay) /\ x[1] = g /\ x[2] = y.at /\ <<g, y.at>> \in stay
  <2>1. h \in 1..Len(list) /\ h \notin Carries(list)
    BY DEF HeadsOf
  <2>2. ~(y.at > 0 /\ <<g, 0>> \in stay)
    BY <2>1, HeadsAre
  <2>3. m \in Message /\ Formed(m) /\ y \in Said /\ Stands(m, y)
    BY <2>1 DEF Placing, MessageType, AllFormed
  <2>4. <<g, y.at>> \in stay
    BY <2>1 DEF KeptOf
  <2> QED  BY <2>1, <2>2, <2>3, <2>4
<1>2. /\ m = [role |-> m.role, content |-> m.content, blocks |-> m.blocks]
      /\ Len(m.blocks) \in Nat /\ m.blocks \in Seq(Adapters!Block)
  BY <1>1, BlocksTyped
<1>3. y.at \in 0..Len(m.blocks) /\ y.role = m.role /\ y.content = Adapters!Kept(m)
      /\ (y.at > 0 => y.block = m.blocks[y.at])
  BY <1>1 DEF Stands
<1>4. Adapters!Left(x, stay) =
        IF x[2] > 0 /\ m.role = "assistant"
        THEN [role |-> "assistant", content |-> "null", blocks |-> <<m.blocks[x[2]]>>]
        ELSE [m EXCEPT !.blocks = cut,
                       !.content = IF m.role = "assistant" THEN @ ELSE Adapters!Flat(@)]
  BY <1>1 DEF Adapters!Left
<1>5. [m EXCEPT !.blocks = cut, !.content = IF m.role = "assistant" THEN @ ELSE Adapters!Flat(@)]
        = [role |-> m.role, content |-> Adapters!Kept(m), blocks |-> cut]
  <2>1. Adapters!Kept(m) = IF m.role = "assistant" THEN m.content ELSE Adapters!Flat(m.content)
    BY DEF Adapters!Kept
  <2>2. PICK c : c = Adapters!Kept(m)
    OBVIOUS
  <2>3. PICK n, u : n = m /\ u = cut
    OBVIOUS
  <2> HIDE DEF cut, m
  <2>4. n \in Message
    BY <1>1, <2>3
  <2>5. [n EXCEPT !.blocks = u, !.content = c] = [role |-> n.role, content |-> c, blocks |-> u]
    <3>1. PICK v : v = [n EXCEPT !.blocks = u]
      OBVIOUS
    <3>2. v = [role |-> n.role, content |-> n.content, blocks |-> u]
      BY ONLY <2>4, <3>1 DEF Message
    <3>3. [v EXCEPT !.content = c] = [role |-> n.role, content |-> c, blocks |-> u]
      BY ONLY <3>2
    <3> QED  BY <3>1, <3>3
  <2>6. [n EXCEPT !.blocks = u, !.content = IF n.role = "assistant" THEN @ ELSE Adapters!Flat(@)]
          = [n EXCEPT !.blocks = u, !.content = c]
    BY ONLY <2>1, <2>2, <2>3, <2>4 DEF Message
  <2> QED  BY <2>2, <2>3, <2>5, <2>6
<1>6. CASE y.at > 0 /\ m.role = "assistant"
  <2>1. y.kind = "tool_call"
    BY <1>1, <1>6, KindsThere
  <2> QED  BY <1>1, <1>3, <1>4, <1>6, <2>1 DEF SentFrom
<1>7. CASE y.kind = "agent_msg"
  <2>1. SentFrom(list, h).blocks = cut
    <3>1. PICK n, q : n = m /\ q = places
      OBVIOUS
    <3>2. n = msgs[list[h].msg] /\ q = Held(list[h].msg, stay)
      BY <3>1 DEF Held
    <3>3. SentFrom(list, h).blocks = [k \in 1..Len(q) |-> n.blocks[q[k]]]
      <4>1. n = msgs[list[h].msg]
        BY <3>2
      <4>2. MessageType /\ AllFormed /\ provider = "openai" /\ list \in Seq(Said) /\ Placing(list) /\ Rising(list)
            /\ stay = KeptOf(list) /\ h \in 1..Len(list) /\ list[h].kind = "agent_msg"
        BY <1>1, <1>7
      <4> QED  BY ONLY <3>2, <4>1, <4>2, TurnBlocks
    <3> HIDE DEF m, places
    <3> QED  BY <3>1, <3>3
  <2>2. SentFrom(list, h) = [role |-> m.role, content |-> Adapters!Kept(m), blocks |-> SentFrom(list, h).blocks]
    BY <1>3, <1>7 DEF SentFrom
  <2>3. y.at = 0
    BY <1>1, <1>7, BehindIs
  <2> QED  BY <1>1, <1>4, <1>5, <2>1, <2>2, <2>3, Zenon
<1>8. CASE y.at = 0 /\ y.kind # "agent_msg"
  <2>1. Len(m.blocks) = 0 /\ y.kind \in {"policy", "user_turn"}
    BY <1>1, <1>8, KindsThere DEF Adapters!TurnKind
  <2>2. SentFrom(list, h) = [role |-> m.role, content |-> Adapters!Kept(m), blocks |-> <<>>]
    BY <1>3, <2>1 DEF SentFrom
  <2>3. cut = <<>>
    <3>1. B = {} /\ B \in SUBSET (1..0)
      BY <2>1
    <3>2. places = Ranked(B, Less(B))
      BY <3>1, NumbersOrdered
    <3>3. Len(places) = Cardinality(B) /\ IsFiniteSet(B)
      BY <3>1, <3>2, Picks DEF Listed
    <3> HIDE DEF places, B
    <3>4. Len(places) = 0
      BY <3>1, <3>3, FS_EmptySet
    <3> HIDE DEF places
    <3> QED  BY <3>4
  <2> QED  BY <1>1, <1>4, <1>5, <1>8, <2>2, <2>3, Zenon
<1>9. CASE y.at > 0 /\ m.role # "assistant"
  <2>1. m.role = "tool" /\ y.kind = "tool_result" /\ y.at = 1 /\ Len(m.blocks) = 1
    BY <1>1, <1>9, KindsThere
  <2>2. SentFrom(list, h) = [role |-> m.role, content |-> Adapters!Kept(m), blocks |-> <<m.blocks[1]>>]
    BY <1>3, <2>1 DEF SentFrom
  <2>3. cut = <<m.blocks[1]>>
    <3>1. B = {1}
      BY <1>1, <2>1
    <3>2. B \in SUBSET (1..1) /\ B \subseteq Int
      BY <3>1
    <3>3. places = Ranked(B, Less(B))
      BY <3>2, NumbersOrdered
    <3>4. Len(places) = Cardinality(B) /\ places \in [1..Len(places) -> B]
      <4>1. PICK n \in Nat : n = 1
        OBVIOUS
      <4> HIDE DEF places, B
      <4>2. B \in SUBSET (1..n)
        BY <3>2, <4>1
      <4> QED  BY <3>3, <4>2, Picks DEF Listed
    <3>5. Cardinality(B) = 1
      BY <3>1, FS_Singleton
    <3> HIDE DEF places, B
    <3>6. Len(places) = 1 /\ places[1] = 1
      BY <3>1, <3>4, <3>5
    <3> HIDE DEF m
    <3> QED  BY <3>6
  <2> QED  BY <1>1, <1>4, <1>5, <1>9, <2>2, <2>3, Zenon
<1>10. y.at \in Nat
  BY <1>1 DEF Said
<1> QED  BY <1>6, <1>7, <1>8, <1>9, <1>10

LEMMA OpenAIBack ==
  ASSUME MessageType, AllFormed, provider = "openai",
         NEW list \in Seq(Said), Placing(list), Rising(list), NEW stay, stay = KeptOf(list),
         NEW heads, heads = Adapters!Following(Adapters!Heads(stay))
  PROVE  Adapters!OpenAI(list) = [k \in 1..Len(heads) |-> Adapters!Left(heads[k], stay)]
<1> DEFINE S == HeadsOf(list)
           H == Adapters!Heads(stay)
           picked == Adapters!InOrder(S)
           f == [i \in S |-> <<list[i].msg, list[i].at>>]
<1>1. \A i \in 1..Len(list) : list[i] \in Said /\ list[i].msg \in Nat /\ list[i].at \in Nat
  <2>1. \A i \in 1..Len(list) : list[i] \in Said
    OBVIOUS
  <2> QED  BY <2>1 DEF Said
<1>2. Len(list) \in Nat /\ S \in SUBSET (1..Len(list)) /\ S \subseteq Int
  BY DEF HeadsOf
<1>3. H = {x \in stay : x[2] = 0 \/ <<x[1], 0>> \notin stay}
  BY DEF Adapters!Heads
<1>4. H \subseteq Nat \X Nat
  BY <1>1, <1>3 DEF KeptOf
<1>5. \A i \in 1..Len(list) : i \in S <=> ~(list[i].at > 0 /\ <<list[i].msg, 0>> \in stay)
  BY HeadsAre DEF HeadsOf
<1>6. \A i \in 1..Len(list) : <<list[i].msg, list[i].at>> \in H <=> i \in S
  <2> SUFFICES ASSUME NEW i \in 1..Len(list) PROVE <<list[i].msg, list[i].at>> \in H <=> i \in S
    OBVIOUS
  <2>1. PICK x : x = <<list[i].msg, list[i].at>>
    OBVIOUS
  <2>2. x \in stay /\ x[1] = list[i].msg /\ x[2] = list[i].at
    BY <2>1 DEF KeptOf
  <2> QED  BY <1>1, <1>3, <1>5, <2>1, <2>2
<1> HIDE DEF S, H
<1>7. f \in [S -> H]
  BY <1>2, <1>6
<1>8. \A x \in H : \E i \in S : f[i] = x
  <2> SUFFICES ASSUME NEW x \in H PROVE \E i \in S : <<list[i].msg, list[i].at>> = x
    OBVIOUS
  <2>1. PICK i \in 1..Len(list) : <<list[i].msg, list[i].at>> = x
    BY <1>3 DEF KeptOf
  <2> QED  BY <1>6, <2>1
<1>9. /\ IsFiniteSet(S) /\ Linear(S, Less(S)) /\ picked = Ranked(S, Less(S))
      /\ Len(picked) = Cardinality(S) /\ Len(picked) \in Nat /\ picked \in [1..Len(picked) -> S]
      /\ \A i, j \in S : <<i, j>> \in Less(S) <=> i < j
  <2>1. picked = Ranked(S, Less(S)) /\ \A i, j \in S : <<i, j>> \in Less(S) <=> i < j
    BY <1>2, NumbersOrdered
  <2> HIDE DEF picked
  <2>2. Listed(S, picked)
    BY <1>2, <2>1, Picks
  <2> QED  BY <1>2, <2>1, <2>2, NumbersOrdered DEF Listed
<1>10. /\ Linear(H, Later(H)) /\ heads = Ranked(H, Later(H))
       /\ \A x, y \in H : <<x, y>> \in Later(H) <=> x[1] < y[1] \/ (x[1] = y[1] /\ x[2] < y[2])
  BY <1>4, PlacesOrdered DEF H
<1>11. \A i, j \in S : <<i, j>> \in Less(S) => <<f[i], f[j]>> \in Later(H)
  <2> SUFFICES ASSUME NEW i \in S, NEW j \in S, i < j PROVE <<f[i], f[j]>> \in Later(H)
    BY <1>9
  <2>1. f[i] \in H /\ f[j] \in H
    BY <1>7
  <2>2. i \in 1..Len(list) /\ j \in 1..Len(list)
    BY <1>2
  <2>3. f[i][1] < f[j][1] \/ (f[i][1] = f[j][1] /\ f[i][2] < f[j][2])
    BY <2>2 DEF Rising, Before
  <2> HIDE DEF f
  <2> QED  BY <1>10, <2>1, <2>3
<1>12. \A i \in S : f[i] = <<list[i].msg, list[i].at>>
  OBVIOUS
<1> HIDE DEF f, picked
<1>13. PICK c : c = Cardinality(S)
  OBVIOUS
<1>14. c \in Nat /\ heads = [k \in 1..c |-> f[picked[k]]]
  BY <1>7, <1>8, <1>9, <1>10, <1>11, <1>13, Carried
<1>15. \A k \in 1..c : picked[k] \in S /\ heads[k] = f[picked[k]] /\ heads[k] \in H
  BY <1>7, <1>9, <1>13, <1>14
<1>16. Len(heads) = c /\ Len(picked) = c
  BY <1>9, <1>13, <1>14, <1>15
<1>17. Adapters!OpenAI(list) = [k \in 1..Len(picked) |-> SentFrom(list, picked[k])]
  <2>1. \A k \in 1..Len(picked) : picked[k] \in 1..Len(list)
    BY <1>2, <1>15, <1>16
  <2> QED  BY <2>1, OpenAIIs DEF picked, S
<1>18. \A k \in 1..c : SentFrom(list, picked[k]) = Adapters!Left(heads[k], stay)
  <2> SUFFICES ASSUME NEW k \in 1..c PROVE SentFrom(list, picked[k]) = Adapters!Left(heads[k], stay)
    OBVIOUS
  <2>1. PICK h \in HeadsOf(list) : h = picked[k]
    BY <1>15 DEF S
  <2>2. heads[k] = <<list[h].msg, list[h].at>>
    BY <1>12, <1>15, <2>1
  <2> QED  BY <2>1, <2>2, SentFromIs
<1> QED  BY <1>16, <1>17, <1>18

\* What is read goes back.
LEMMA MessagesGoBack == ASSUME ReadInv, PlaceInv PROVE Adapters!SentBack
<1> DEFINE Places == Adapters!Following(Adapters!Here)
           Picked(S) == Adapters!InOrder(S)
           List(S) == [k \in 1..Len(Picked(S)) |-> items[Picked(S)[k]]]
           Stay(S) == {Places[i] : i \in S}
           Leading(S) == Adapters!Following(Adapters!Heads(Stay(S)))
           Rest(S) == [k \in 1..Len(Leading(S)) |-> Adapters!Left(Leading(S)[k], Stay(S))]
           mute(m) == provider # "openai" /\ \A k \in 1..Len(m.blocks) : m.blocks[k] = Adapters!Blank
           Back(S) == /\ Adapters!Sent(List(S)) =
                           IF \E k \in 1..Len(Rest(S)) : mute(Rest(S)[k]) THEN {} ELSE {Rest(S)}
                      /\ provider # "openai" => Adapters!Sent(Adapters!Reverse(List(S))) = Adapters!Sent(List(S))
<1>1. Adapters!SentBack <=> \A S \in SUBSET (1..Len(items)) : Back(S)
  BY DEF Adapters!SentBack
<1>2. ASSUME NEW S \in SUBSET (1..Len(items)) PROVE Back(S)
  <2>1. PICK places, picked, list, stay, heads, left :
          /\ places = Places /\ picked = Picked(S) /\ list = List(S) /\ stay = Stay(S)
          /\ heads = Leading(S) /\ left = Rest(S)
    OBVIOUS
  <2>2. places = Adapters!Following(Adapters!Here) /\ picked = Adapters!InOrder(S)
    BY <2>1
  <2>3. list = Sheet(picked)
    BY <2>1 DEF Sheet
  <2>4. stay = {places[i] : i \in S}
    BY <2>1
  <2>5. heads = Adapters!Following(Adapters!Heads(stay))
    BY <2>1
  <2>6. left = [k \in 1..Len(heads) |-> Adapters!Left(heads[k], stay)]
    BY <2>1
  <2>7. SUFFICES /\ Adapters!Sent(list) =
                      IF \E k \in 1..Len(left) : provider # "openai"
                           /\ \A l \in 1..Len(left[k].blocks) : left[k].blocks[l] = Adapters!Blank
                      THEN {} ELSE {left}
                 /\ provider # "openai" => Adapters!Sent(Adapters!Reverse(list)) = Adapters!Sent(list)
    <3> HIDE DEF Places, Picked, List, Stay, Leading, Rest
    <3> QED  BY <2>1
  <2> HIDE DEF Places, Picked, List, Stay, Leading, Rest
  <2>11. /\ MessageType /\ AllFormed /\ (step = "rejected" => items = <<>>)
         /\ (step # "rejected" => OfPlaces /\ Told /\ InTurn)
    BY DEF ReadInv, PlaceInv
  <2>12. stay = {<<items[i].msg, items[i].at>> : i \in S}
    <3>1. \A i \in S : places[i] = <<items[i].msg, items[i].at>>
      <4>1. CASE step = "rejected"
        <5>1. Len(items) = 0
          BY <2>11, <4>1
        <5> QED  BY <5>1
      <4>2. CASE step # "rejected"
        <5>1. places = [i \in 1..Len(items) |-> <<items[i].msg, items[i].at>>]
          BY <2>2, <2>11, <4>2, PlacesRead
        <5> QED  BY <5>1
      <4> QED  BY <4>1, <4>2
    <3> QED  BY <2>4, <3>1
  <2>13. list \in Seq(Said) /\ Placing(list) /\ Rising(list) /\ stay = KeptOf(list)
    <3>1. step # "rejected" => OfPlaces /\ InTurn
      BY <2>11
    <3>2. /\ list \in Seq(Said) /\ Placing(list) /\ Rising(list)
          /\ KeptOf(list) = {<<items[i].msg, items[i].at>> : i \in S}
      <4>1. S \in SUBSET (1..Len(items)) /\ picked = Adapters!InOrder(S)
        BY <2>2
      <4> QED  BY ONLY <2>3, <2>11, <3>1, <4>1, SheetOf
    <3> QED  BY <2>12, <3>2
  <2>14. Apart(list)
    BY <2>13, RisingApart
  <2>15. ASSUME NEW l, (IF provider = "openai" THEN Adapters!OpenAI(l) ELSE Adapters!Grouped(l)) = left
        PROVE  Adapters!Sent(l) =
                    IF \E k \in 1..Len(left) : provider # "openai"
                         /\ \A b \in 1..Len(left[k].blocks) : left[k].blocks[b] = Adapters!Blank
                    THEN {} ELSE {left}
    BY <2>15 DEF Adapters!Sent
  <2>16. CASE provider = "openai"
    <3>1. Adapters!OpenAI(list) = left
      <4>1. Adapters!OpenAI(list) = [k \in 1..Len(heads) |-> Adapters!Left(heads[k], stay)]
        BY ONLY <2>5, <2>11, <2>13, <2>16, OpenAIBack
      <4> QED  BY <2>6, <4>1
    <3> QED  BY <2>15, <2>16, <3>1
  <2>17. CASE provider # "openai"
    <3>1. Adapters!Grouped(list) = left
      <4>1. Adapters!Grouped(list) = [k \in 1..Len(heads) |-> Adapters!Left(heads[k], stay)]
        BY ONLY <2>5, <2>11, <2>13, <2>14, <2>17, GroupedIs
      <4> QED  BY <2>6, <4>1
    <3>2. PICK back : back = Adapters!Reverse(list)
      OBVIOUS
    <3>3. back \in Seq(Said) /\ Placing(back) /\ Apart(back) /\ stay = KeptOf(back)
      BY <2>13, <2>14, <3>2, ReversedSheet
    <3>4. Adapters!Grouped(back) = left
      <4>1. Adapters!Grouped(back) = [k \in 1..Len(heads) |-> Adapters!Left(heads[k], stay)]
        BY ONLY <2>5, <2>11, <2>17, <3>3, GroupedIs
      <4> QED  BY <2>6, <4>1
    <3> QED  BY <2>15, <2>17, <3>1, <3>2, <3>4
  <2> QED  BY <2>16, <2>17
<1> HIDE DEF Back
<1> QED  BY <1>1, <1>2

--------------------------------------------------------------------------------
(* Pydantic AI *)

Request == {"user_turn", "policy", "tool_result"}
Side(kind) == IF kind \in Request THEN "request" ELSE "response"

\* An item says what its part said, and on which side.
Worded == provider = "pydantic_ai" => \A i \in 1..Len(items) :
    /\ Decoders!Sent(items[i]) = Decoders!Mended(PartOf(i))
    /\ Side(items[i].kind) = msgs[items[i].msg].role

LEMMA WordedInit == Decoders!Init => Worded
<1> SUFFICES ASSUME Decoders!Init PROVE Worded
  OBVIOUS
<1>1. Len(items) = 0
  BY DEF Decoders!Init
<1> QED  BY <1>1 DEF Worded

\* What is a part, what is sent of an item and what is mended, whatever no name is.
PartsBy(none) == [type : {"text", "reasoning"}, name : {none}, content : {"words", "blank"}]
    \cup [type : {"user"}, name : {none}, content : {"words", "data"}]
    \cup [type : {"system", "handoff", "observation", "control", "unknown"},
          name : {none}, content : {"words"}]
    \cup [type : {"call", "return"}, name : CallId \cup {none}, content : {"data"}]
    \cup [type : {"retry"}, name : CallId, content : {"words"}]
SentBy(item, none) ==
    [type |-> CASE item.kind = "user_turn" -> item.key[1]
                [] item.kind = "policy" -> "system"
                [] item.kind = "tool_result" -> "return"
                [] item.kind = "agent_msg" -> "text"
                [] item.kind = "tool_call" -> "call",
     name |-> IF item.kind \in {"tool_call", "tool_result"} THEN item.name ELSE none,
     content |-> item.text]
MendedBy(p, none) == [p EXCEPT !.content = IF p.type # "call" /\ @ = "data" THEN "words" ELSE @,
                               !.name = IF p.type = "retry" THEN none ELSE @]

LEMMA NoName ==
  ASSUME NEW p \in Decoders!Part, NEW x
  PROVE  /\ p \in PartsBy(Nameless)
         /\ Decoders!Sent(x) = SentBy(x, Nameless) /\ Decoders!Mended(p) = MendedBy(p, Nameless)
<1>1. p \in PartsBy(Nameless)
  BY DEF Decoders!Part, PartsBy, Nameless
<1>2. Decoders!Sent(x) = SentBy(x, Nameless)
  BY DEF Decoders!Sent, SentBy, Nameless
<1>3. Decoders!Mended(p) = MendedBy(p, Nameless)
  BY DEF Decoders!Mended, MendedBy, Nameless
<1> QED  BY <1>1, <1>2, <1>3

\* A part of Pydantic AI becomes an item of its own words.
LEMMA PartWorded ==
  ASSUME provider = "pydantic_ai", NEW p \in Decoders!Part, NEW role, role = msgs[Decoders!N].role,
         role \in Decoders!Role, p.type \in Decoders!Types(role), p.type # "unknown",
         NEW x, x.kind = Decoders!Kind(p), x.key = Decoders!Key(p), x.name = p.name,
         x.text = Decoders!Text(p)
  PROVE  Decoders!Sent(x) = Decoders!Mended(p) /\ Side(x.kind) = role
<1>1. /\ p \in PartsBy(Nameless)
      /\ Decoders!Sent(x) = SentBy(x, Nameless) /\ Decoders!Mended(p) = MendedBy(p, Nameless)
  BY NoName
<1>2. /\ p = [type |-> p.type, name |-> p.name, content |-> p.content]
      /\ p.type \in {"call", "return"} => p.content = "data"
      /\ p.type \notin {"call", "return", "retry"} => p.name = Nameless
  BY <1>1 DEF PartsBy
<1>3. /\ role \in {"request", "response"}
      /\ role = "request" => p.type \in {"user", "system", "return", "retry"}
      /\ role = "response" => p.type \in {"text", "call"}
  <2>1. role \in {"request", "response", "unknown"}
    BY DEF Decoders!Role
  <2>2. role # "unknown"
    BY DEF Decoders!Types
  <2>3. role = "request" => Decoders!Types(role) = {"user", "system", "return", "retry", "unknown"}
    BY DEF Decoders!Types
  <2>4. role = "response" => Decoders!Types(role) = {"text", "call", "unknown"}
    BY DEF Decoders!Types
  <2> QED  BY <2>1, <2>2, <2>3, <2>4
<1>4. PICK t, s, c : /\ t = p.type /\ s = p.name /\ c = p.content
                     /\ p = [type |-> t, name |-> s, content |-> c]
  BY <1>2
<1>5. PICK v : v = IF t # "call" /\ c = "data" THEN "words" ELSE c
  OBVIOUS
<1>6. PICK w : w = IF t = "retry" THEN Nameless ELSE s
  OBVIOUS
<1>7. Decoders!Mended(p) = [type |-> t, name |-> w, content |-> v]
  <2>1. Decoders!Mended(p) = [p EXCEPT !.content = v, !.name = w]
    BY <1>1, <1>4, <1>5, <1>6 DEF MendedBy
  <2> QED  BY ONLY <1>4, <2>1
<1>8. x.text = v
  BY <1>4, <1>5 DEF Decoders!Text
<1>9. /\ t = "call" => x.kind = "tool_call"
      /\ t = "return" => x.kind = "tool_result"
      /\ t \in {"user", "retry"} => x.kind = "user_turn"
      /\ t = "system" => x.kind = "policy"
      /\ t = "text" => x.kind = "agent_msg"
  <2>1. t = "text" => role = "response"
    BY <1>3, <1>4
  <2> QED  BY <1>4, <2>1 DEF Decoders!Kind
<1>10. t \in {"user", "retry"} => x.key[1] = t
  <2> SUFFICES ASSUME t \in {"user", "retry"} PROVE x.key[1] = t
    OBVIOUS
  <2>1. PICK n : n = Decoders!N
    OBVIOUS
  <2>2. Decoders!Key(p) = <<t, Nameless, n, 0>>
    <3>1. t = p.type /\ t # "call" /\ t # "return" /\ t # "text"
      BY <1>4
    <3> QED  BY <2>1, <3>1 DEF Decoders!Key, Nameless
  <2> QED  BY <2>2
<1>11. t \in {"user", "system", "return", "retry", "text", "call"}
  BY <1>3, <1>4
<1>12. PICK kind, key, name, text : kind = x.kind /\ key = x.key /\ name = x.name /\ text = x.text
  OBVIOUS
<1>13. Decoders!Sent(x) =
         [type |-> CASE kind = "user_turn" -> key[1] [] kind = "policy" -> "system"
                     [] kind = "tool_result" -> "return" [] kind = "agent_msg" -> "text"
                     [] kind = "tool_call" -> "call",
          name |-> IF kind \in {"tool_call", "tool_result"} THEN name ELSE Nameless,
          content |-> text]
  BY <1>1, <1>12 DEF SentBy
<1>14. t \in {"call", "return"} \/ w = Nameless
  BY <1>2, <1>4, <1>6
<1>15. t \in {"call", "return"} => w = s
  BY <1>6
<1>16. Decoders!Sent(x) = [type |-> t, name |-> w, content |-> v]
  <2>1. text = v /\ name = s
    BY <1>4, <1>8, <1>12
  <2>2. CASE t = "call"
    BY <1>9, <1>12, <1>13, <1>15, <2>1, <2>2
  <2>3. CASE t = "return"
    BY <1>9, <1>12, <1>13, <1>15, <2>1, <2>3
  <2>4. CASE t \in {"user", "retry"}
    BY <1>9, <1>10, <1>12, <1>13, <1>14, <2>1, <2>4
  <2>5. CASE t = "system"
    BY <1>9, <1>12, <1>13, <1>14, <2>1, <2>5
  <2>6. CASE t = "text"
    BY <1>9, <1>12, <1>13, <1>14, <2>1, <2>6
  <2> QED  BY <1>11, <2>2, <2>3, <2>4, <2>5, <2>6
<1>17. Side(x.kind) = role
  BY <1>3, <1>4, <1>9 DEF Side, Request
<1> QED  BY <1>7, <1>16, <1>17

LEMMA EntryWorded ==
  ASSUME SessionInv, Worded, NEW role \in Decoders!Role, Decoders!NewEntry(role)
  PROVE  Worded'
<1>1. /\ step = "reading" /\ msgs' = Append(msgs, [role |-> role, parts |-> <<>>])
      /\ UNCHANGED <<provider, items>> /\ SessionType /\ OfParts
  BY DEF Decoders!NewEntry, SessionInv
<1>2. Len(msgs) \in Nat /\ \A g \in 1..Len(msgs) : msgs'[g] = msgs[g]
  BY <1>1 DEF SessionType
<1> SUFFICES ASSUME provider = "pydantic_ai", NEW i \in 1..Len(items)
             PROVE  /\ Decoders!Sent(items[i]) = Decoders!Mended(PartOf(i)')
                    /\ Side(items[i].kind) = msgs'[items[i].msg].role
  BY <1>1 DEF Worded
<1>3. items[i].msg \in 1..Len(msgs)
  BY <1>1 DEF OfParts, OfPart
<1>4. msgs'[items[i].msg] = msgs[items[i].msg]
  BY <1>2, <1>3
<1>5. PartOf(i)' = PartOf(i)
  BY <1>1, <1>4 DEF PartOf
<1> QED  BY <1>4, <1>5 DEF Worded

LEMMA ReadPartWorded ==
  ASSUME SessionInv, SessionInv', Worded, NEW p \in Decoders!Part, Decoders!ReadPart(p)
  PROVE  Worded'
<1> DEFINE g == Len(msgs)
           k == Len(msgs[g].parts) + 1
           n == Len(items)
<1>1. /\ SessionType /\ OfParts /\ AllShaped
      /\ g \in Nat \ {0} /\ Decoders!N = g /\ Decoders!Here = k
      /\ Len(msgs') = g /\ \A h \in 1..(g - 1) : msgs'[h] = msgs[h]
      /\ msgs'[g].role = msgs[g].role
      /\ msgs'[g].parts[k] = p /\ Stays /\ UNCHANGED provider
  BY PartLands
<1> DEFINE x == [kind |-> Decoders!Kind(p), key |-> Decoders!Key(p), parent |-> Decoders!Parent(p),
                 name |-> p.name, text |-> Decoders!Text(p), msg |-> Decoders!N, at |-> Decoders!Here]
<1>2. items' = IF Decoders!Silent(p) THEN items ELSE Append(items, x)
  BY DEF Decoders!ReadPart
<1>3. n \in Nat /\ items \in Seq(Spoken) /\ SessionType'
  BY <1>1 DEF SessionType, SessionInv
<1>4. n = Len(items)
  OBVIOUS
<1>5. /\ x.kind = Decoders!Kind(p) /\ x.key = Decoders!Key(p) /\ x.name = p.name
      /\ x.text = Decoders!Text(p) /\ x.msg = g /\ x.at = k
  BY <1>1
<1> HIDE DEF x
<1>6. \/ items' = items
      \/ /\ Len(items') = n + 1 /\ items'[n + 1] = x
         /\ \A i \in 1..n : items'[i] = items[i]
  BY <1>2, <1>3
<1> SUFFICES ASSUME provider = "pydantic_ai", NEW i \in 1..Len(items')
             PROVE  /\ Decoders!Sent(items'[i]) = Decoders!Mended(PartOf(i)')
                    /\ Side(items'[i].kind) = msgs'[items'[i].msg].role
  BY <1>1 DEF Worded
<1>7. CASE i \in 1..n
  <2>1. items'[i] = items[i]
    BY <1>3, <1>6, <1>7
  <2>2. PartOf(i)' = PartOf(i) /\ items[i].msg \in 1..g
    BY <1>1, <1>3, <1>7, <2>1, OldParts DEF OfParts, OfPart
  <2>3. msgs'[items[i].msg].role = msgs[items[i].msg].role
    <3>1. items[i].msg = g \/ items[i].msg \in 1..(g - 1)
      BY <1>1, <2>2
    <3> QED  BY <1>1, <3>1
  <2> QED  BY <1>7, <2>1, <2>2, <2>3 DEF Worded
<1>8. CASE i \notin 1..n
  <2>1. items'[i] = x
    BY <1>3, <1>6, <1>8
  <2>2. PartOf(i)' = p
    <3>1. msgs'[x.msg].parts[x.at] = p
      BY <1>1, <1>5
    <3> QED  BY <2>1, <3>1 DEF PartOf
  <2>3. PICK role : role = msgs[Decoders!N].role
    OBVIOUS
  <2>4. role = msgs[g].role /\ role = msgs'[x.msg].role
    BY <1>1, <1>5, <2>3
  <2>5. p.type \in Decoders!Types(role) /\ p.type # "unknown" /\ role \in Decoders!Role
    <3>1. Decoders!Placed(p) /\ ~Decoders!Raises(p)
      BY DEF Decoders!ReadPart
    <3>2. p.type \in Decoders!Types(role) /\ p.type # "unknown"
      <4>1. p.type \in Decoders!Types(msgs[Decoders!N].role)
        BY <3>1 DEF Decoders!Placed
      <4>2. p.type # "unknown"
        BY <3>1 DEF Decoders!Raises
      <4> QED  BY <2>3, <4>1, <4>2
    <3>3. g \in 1..Len(msgs)
      BY <1>1
    <3> QED  BY <1>1, <2>4, <3>2, <3>3 DEF AllShaped, Shaped
  <2>6. Decoders!Sent(x) = Decoders!Mended(p) /\ Side(x.kind) = role
    BY <1>5, <2>3, <2>5, PartWorded
  <2> QED  BY <2>1, <2>2, <2>4, <2>6
<1> QED  BY <1>7, <1>8

LEMMA WordedStep == SessionInv /\ SessionInv' /\ Worded /\ [Decoders!Next]_Decoders!vars => Worded'
<1> SUFFICES ASSUME SessionInv, SessionInv', Worded, [Decoders!Next]_Decoders!vars PROVE Worded'
  OBVIOUS
<1>1. CASE \E role \in Decoders!Role : Decoders!NewEntry(role)
  BY <1>1, EntryWorded
<1>2. CASE \E p \in Decoders!Part : Decoders!ReadPart(p)
  BY <1>2, ReadPartWorded
<1>3. CASE Decoders!Reject
  <2>1. Len(items') = 0
    BY <1>3 DEF Decoders!Reject
  <2> QED  BY <2>1 DEF Worded
<1>4. CASE UNCHANGED <<provider, msgs, items>>
  BY <1>4 DEF Worded, PartOf
<1>5. CASE Decoders!Finish
  BY <1>4, <1>5 DEF Decoders!Finish
<1>6. CASE UNCHANGED Decoders!vars
  BY <1>4, <1>6 DEF Decoders!vars
<1> QED  BY <1>1, <1>2, <1>3, <1>5, <1>6 DEF Decoders!Next

\* What is sent of the items of one entry; and what a list of items is like.
Encoding(list, group) ==
    [role |-> Side(list[group[1]].kind),
     parts |-> [k \in 1..Len(group) |-> Decoders!Sent(list[group[k]])]]
OfEntry(list, g) == {i \in 1..Len(list) : list[i].msg = g}
Filed(list) == \A k \in 1..Len(list) :
    /\ list[k].msg \in 1..Len(msgs) /\ list[k].at \in 1..Len(msgs[list[k].msg].parts)
    /\ Decoders!Sent(list[k]) = Decoders!Mended(msgs[list[k].msg].parts[list[k].at])
    /\ Side(list[k].kind) = msgs[list[k].msg].role
MsgsOf(list) == {list[i].msg : i \in 1..Len(list)}

LEMMA EncodedIs ==
  ASSUME NEW list, NEW entries, entries = Decoders!InOrder(MsgsOf(list))
  PROVE  Decoders!Encoded(list) =
           [n \in 1..Len(entries) |-> Encoding(list, Decoders!InOrder(OfEntry(list, entries[n])))]
BY DEF Decoders!Encoded, Encoding, OfEntry, MsgsOf, Side, Request

Grouping(list, g, group) ==
    /\ OfEntry(list, g) \in SUBSET (1..Len(list)) /\ Len(group) > 0
    /\ group = Ranked(OfEntry(list, g), Less(OfEntry(list, g)))
    /\ Listed(OfEntry(list, g), group)

LEMMA EntryGroup ==
  ASSUME NEW list, Len(list) \in Nat, NEW g \in MsgsOf(list),
         NEW group, group = Decoders!InOrder(OfEntry(list, g))
  PROVE  Grouping(list, g, group)
<1>1. PICK own : own = OfEntry(list, g)
  OBVIOUS
<1>2. PICK n \in Nat : n = Len(list)
  OBVIOUS
<1>3. own \in SUBSET (1..n) /\ own # {}
  BY <1>1, <1>2 DEF OfEntry, MsgsOf
<1>4. own \subseteq Int
  BY <1>3
<1>5. group = Ranked(own, Less(own))
  BY <1>1, <1>4, NumbersOrdered
<1>6. Listed(own, group)
  BY ONLY <1>2, <1>3, <1>5, Picks
<1>7. Len(group) > 0
  <2>1. PICK c \in Nat : c = Len(group)
    BY <1>6 DEF Listed
  <2>2. PICK i : i \in own
    BY <1>3
  <2>3. PICK k \in 1..c : group[k] = i
    BY <1>6, <2>1, <2>2 DEF Listed
  <2> QED  BY ONLY <2>1, <2>3
<1> QED  BY <1>1, <1>2, <1>3, <1>5, <1>6, <1>7 DEF Grouping

LEMMA EntryIs ==
  ASSUME SessionType, NEW list \in Seq(Spoken), Filed(list), Rising(list),
         NEW stay, stay = KeptOf(list), NEW g \in MsgsOf(list),
         NEW group, group = Decoders!InOrder(OfEntry(list, g))
  PROVE  Encoding(list, group) = Decoders!Left(g, stay)
<1> DEFINE own == OfEntry(list, g)
           parts == msgs[g].parts
           B == {k \in 1..Len(parts) : <<g, k>> \in stay}
           f == [i \in own |-> list[i].at]
           places == Decoders!InOrder(B)
<1>1. Len(list) \in Nat
  OBVIOUS
<1>2. /\ group = Ranked(own, Less(own)) /\ own \in SUBSET (1..Len(list)) /\ IsFiniteSet(own)
      /\ Len(group) = Cardinality(own) /\ Linear(own, Less(own))
      /\ Len(group) \in Nat /\ Len(group) > 0 /\ group \in [1..Len(group) -> own]
  <2>1. Grouping(list, g, group)
    BY <1>1, EntryGroup
  <2> QED  BY <2>1 DEF Grouping, Listed
<1>3. ASSUME NEW i \in own
      PROVE  /\ g \in 1..Len(msgs) /\ list[i].msg = g
             /\ list[i].at \in 1..Len(parts) /\ <<g, list[i].at>> \in stay
             /\ Decoders!Sent(list[i]) = Decoders!Mended(parts[list[i].at])
             /\ Side(list[i].kind) = msgs[g].role
  <2>1. i \in 1..Len(list) /\ list[i].msg = g
    BY DEF OfEntry
  <2> QED  BY <2>1 DEF Filed, KeptOf
<1>4. g \in 1..Len(msgs) /\ g \in Nat
  <2>1. 1 \in 1..Len(group) /\ group[1] \in own
    BY <1>2
  <2>2. PICK i \in own : i = group[1]
    BY <2>1
  <2>3. g \in 1..Len(msgs)
    BY <1>3, <2>2
  <2> QED  BY ONLY <2>3
<1>5. Len(parts) \in Nat /\ B \subseteq Int
  <2>1. msgs[g] \in Recorded
    BY <1>4 DEF SessionType
  <2>2. parts \in Seq(Decoders!Part)
    BY <2>1 DEF Recorded
  <2>3. Len(parts) \in Nat
    BY <2>2
  <2> HIDE DEF parts
  <2> QED  BY <2>3
<1>6. \A b \in B : \E i \in own : list[i].at = b
  BY DEF KeptOf, OfEntry
<1>7. f \in [own -> B] /\ \A b \in B : \E i \in own : f[i] = b
  BY <1>3, <1>6
<1>8. \A i, j \in own : i < j => list[i].at < list[j].at
  <2> SUFFICES ASSUME NEW i \in own, NEW j \in own, i < j PROVE list[i].at < list[j].at
    OBVIOUS
  <2>1. i \in 1..Len(list) /\ j \in 1..Len(list) /\ list[i].msg = g /\ list[j].msg = g
    BY DEF OfEntry
  <2>2. Before(list[i].msg, list[i].at, list[j].msg, list[j].at)
    BY <2>1 DEF Rising
  <2> QED  BY <1>4, <2>1, <2>2 DEF Before
<1>9. \A i, j \in own : <<i, j>> \in Less(own) <=> i < j
  BY DEF Less
<1>10. Decoders!Left(g, stay) =
         [role |-> msgs[g].role, parts |-> [k \in 1..Len(places) |-> Decoders!Mended(parts[places[k]])]]
  BY DEF Decoders!Left
<1> HIDE DEF own, B, parts
<1>11. /\ Linear(B, Less(B)) /\ places = Ranked(B, Less(B))
       /\ \A b, c \in B : <<b, c>> \in Less(B) <=> b < c
  BY <1>5, NumbersOrdered
<1>12. \A i, j \in own : <<i, j>> \in Less(own) => <<f[i], f[j]>> \in Less(B)
  <2> SUFFICES ASSUME NEW i \in own, NEW j \in own, i < j PROVE <<f[i], f[j]>> \in Less(B)
    BY <1>9
  <2>1. f[i] \in B /\ f[j] \in B /\ f[i] < f[j]
    BY <1>7, <1>8
  <2> QED  BY <1>11, <2>1
<1> HIDE DEF f, places
<1>13. PICK c \in Nat : c = Len(group) /\ c = Cardinality(own) /\ c > 0
  BY <1>2
<1>14. places = [k \in 1..c |-> f[group[k]]]
  <2>1. IsFiniteSet(own) /\ Linear(own, Less(own)) /\ Linear(B, Less(B)) /\ f \in [own -> B]
    BY <1>2, <1>7, <1>11
  <2>2. \A b \in B : \E i \in own : f[i] = b
    BY <1>7
  <2>3. Ranked(B, Less(B)) = [k \in 1..Cardinality(own) |-> f[Ranked(own, Less(own))[k]]]
    BY ONLY <1>12, <2>1, <2>2, Carried
  <2>4. group = Ranked(own, Less(own)) /\ places = Ranked(B, Less(B))
    BY <1>2, <1>11
  <2> QED  BY ONLY <1>13, <2>3, <2>4
<1>15. \A k \in 1..c : group[k] \in own /\ places[k] = list[group[k]].at /\ places[k] \in B
  <2> SUFFICES ASSUME NEW k \in 1..c
               PROVE  group[k] \in own /\ places[k] = list[group[k]].at /\ places[k] \in B
    OBVIOUS
  <2>1. group[k] \in own
    BY <1>2, <1>13
  <2>2. places[k] = f[group[k]]
    BY <1>14
  <2>3. f[group[k]] = list[group[k]].at
    BY <2>1 DEF f
  <2> QED  BY <1>7, <2>1, <2>2, <2>3
<1>16. Len(places) = c
  BY <1>14, <1>15
<1>17. \A k \in 1..c : Decoders!Sent(list[group[k]]) = Decoders!Mended(parts[places[k]])
  BY <1>3, <1>15
<1>18. Side(list[group[1]].kind) = msgs[g].role
  <2>1. 1 \in 1..c
    BY <1>13
  <2>2. PICK i \in own : i = group[1]
    BY <1>15, <2>1
  <2> QED  BY <1>3, <2>2
<1>19. [k \in 1..Len(group) |-> Decoders!Sent(list[group[k]])]
         = [k \in 1..Len(places) |-> Decoders!Mended(parts[places[k]])]
  <2>1. Len(group) = c
    BY <1>13
  <2> QED  BY ONLY <1>16, <1>17, <2>1
<1>20. parts = msgs[g].parts
  BY DEF parts
<1> QED  BY <1>10, <1>18, <1>19, <1>20 DEF Encoding

\* Handed over backwards, the items of an entry are sent backwards.
LEMMA EntryBack ==
  ASSUME SessionType, NEW list \in Seq(Spoken), Filed(list), NEW g \in MsgsOf(list),
         NEW group, group = Decoders!InOrder(OfEntry(list, g)),
         NEW back, back = Decoders!Reverse(list),
         NEW turned, turned = Decoders!InOrder(OfEntry(back, g))
  PROVE  Encoding(back, turned) = [Encoding(list, group) EXCEPT !.parts = Decoders!Reverse(@)]
<1> DEFINE n == Len(list)
           own == OfEntry(list, g)
           nwo == OfEntry(back, g)
           d == Len(group)
           f == [k \in 1..d |-> (n - group[(d - k) + 1]) + 1]
<1>1. n \in Nat /\ back = [i \in 1..n |-> list[(n - i) + 1]] /\ n = Len(list)
  BY DEF Decoders!Reverse
<1>2. Len(back) = n /\ \A i \in 1..n : (n - i) + 1 \in 1..n /\ (n - ((n - i) + 1)) + 1 = i
  <2>1. \A i \in 1..n : (n - i) + 1 \in 1..n /\ list[(n - i) + 1] \in Spoken
    BY <1>1
  <2> HIDE DEF n
  <2> QED  BY <1>1, <2>1
<1>3. \A i \in 1..n : back[i] = list[(n - i) + 1] /\ list[i] = back[(n - i) + 1]
  BY <1>1, <1>2
<1>4. /\ own \in SUBSET (1..n) /\ d \in Nat /\ d > 0 /\ group \in [1..d -> own]
      /\ \A i \in own : \E k \in 1..d : group[k] = i
      /\ \A j, k \in 1..d : j < k <=> group[j] < group[k]
  <2>1. Grouping(list, g, group)
    BY <1>1, EntryGroup
  <2> QED  BY <1>1, <2>1 DEF Grouping, Listed
<1>5. \A i \in 1..n : i \in own <=> list[i].msg = g
  BY DEF OfEntry
<1>6. nwo \in SUBSET (1..n) /\ \A i \in 1..n : i \in nwo <=> back[i].msg = g
  BY <1>2 DEF OfEntry
<1>7. d = Len(group)
  OBVIOUS
<1> HIDE DEF n, own, nwo, d
<1>8. \A i \in own : (n - i) + 1 \in nwo
  <2> SUFFICES ASSUME NEW i \in own PROVE (n - i) + 1 \in nwo
    OBVIOUS
  <2>1. i \in 1..n /\ list[i].msg = g
    BY <1>4, <1>5
  <2>2. (n - i) + 1 \in 1..n /\ back[(n - i) + 1] = list[i]
    BY <1>2, <1>3, <2>1
  <2> QED  BY <1>6, <2>1, <2>2
<1>9. \A i \in nwo : (n - i) + 1 \in own /\ (n - ((n - i) + 1)) + 1 = i
  <2> SUFFICES ASSUME NEW i \in nwo PROVE (n - i) + 1 \in own /\ (n - ((n - i) + 1)) + 1 = i
    OBVIOUS
  <2>1. i \in 1..n /\ back[i].msg = g
    BY <1>6
  <2>2. (n - i) + 1 \in 1..n /\ back[i] = list[(n - i) + 1] /\ (n - ((n - i) + 1)) + 1 = i
    BY <1>2, <1>3, <2>1
  <2> QED  BY <1>5, <2>1, <2>2
<1>10. \A k \in 1..d : (d - k) + 1 \in 1..d /\ (d - ((d - k) + 1)) + 1 = k
  BY <1>4
<1>11. f \in [1..d -> nwo]
  BY <1>4, <1>8, <1>10
<1>12. \A x \in nwo : \E k \in 1..d : f[k] = x
  <2> SUFFICES ASSUME NEW x \in nwo PROVE \E k \in 1..d : f[k] = x
    OBVIOUS
  <2>1. PICK k \in 1..d : group[k] = (n - x) + 1
    BY <1>4, <1>9
  <2>2. PICK j \in 1..d : j = (d - k) + 1 /\ (d - j) + 1 = k
    BY <1>10
  <2>3. f[j] = (n - group[k]) + 1
    BY <2>2
  <2>4. f[j] = x
    BY <1>9, <2>1, <2>3
  <2> QED  BY <2>4
<1>13. \A j, k \in 1..d : j < k => f[j] < f[k]
  <2> SUFFICES ASSUME NEW j \in 1..d, NEW k \in 1..d, j < k PROVE f[j] < f[k]
    OBVIOUS
  <2>1. PICK a \in 1..d : a = (d - k) + 1
    BY <1>10
  <2>2. PICK b \in 1..d : b = (d - j) + 1
    BY <1>10
  <2>3. a < b
    BY <1>4, <2>1, <2>2
  <2>4. group[a] < group[b] /\ group[a] \in 1..n /\ group[b] \in 1..n
    BY <1>4, <2>3
  <2>5. f[j] = (n - group[b]) + 1 /\ f[k] = (n - group[a]) + 1
    BY <2>1, <2>2
  <2>6. n \in Nat
    BY <1>1
  <2> HIDE DEF f
  <2> QED  BY <2>4, <2>5, <2>6
<1>14. nwo \subseteq Int
  BY <1>6
<1>15. Linear(nwo, Less(nwo)) /\ turned = Ranked(nwo, Less(nwo))
       /\ \A x, y \in nwo : <<x, y>> \in Less(nwo) <=> x < y
  BY <1>14, NumbersOrdered DEF nwo
<1>16. \A k \in 1..d : f[k] = (n - group[(d - k) + 1]) + 1
  OBVIOUS
<1> HIDE DEF f
<1>17. \A j, k \in 1..d : j < k => <<f[j], f[k]>> \in Less(nwo)
  BY <1>11, <1>13, <1>15
<1>18. turned = f
  BY <1>4, <1>11, <1>12, <1>15, <1>17, Matches
<1>19. Len(turned) = d
  BY <1>4, <1>11, <1>18
<1>20. \A k \in 1..d : back[turned[k]] = list[group[(d - k) + 1]]
  <2> SUFFICES ASSUME NEW k \in 1..d PROVE back[turned[k]] = list[group[(d - k) + 1]]
    OBVIOUS
  <2>1. group[(d - k) + 1] \in own /\ group[(d - k) + 1] \in 1..n
    BY <1>4, <1>10
  <2> QED  BY <1>3, <1>16, <1>18, <2>1
<1>21. \A i \in own : Side(list[i].kind) = msgs[g].role
  BY <1>1, <1>4, <1>5 DEF Filed
<1>22. Side(back[turned[1]].kind) = Side(list[group[1]].kind)
  <2>1. 1 \in 1..d /\ d \in 1..d /\ (d - 1) + 1 = d
    BY <1>4
  <2>2. group[1] \in own /\ group[d] \in own /\ back[turned[1]] = list[group[d]]
    BY <1>4, <1>20, <2>1
  <2> QED  BY <1>21, <2>2
<1> DEFINE P == [k \in 1..d |-> Decoders!Sent(list[group[k]])]
<1>23. Encoding(list, group) = [role |-> Side(list[group[1]].kind), parts |-> P]
  BY <1>7 DEF Encoding
<1>24. Encoding(back, turned) = [role |-> Side(list[group[1]].kind),
                                 parts |-> [k \in 1..d |-> Decoders!Sent(list[group[(d - k) + 1]])]]
  BY <1>19, <1>20, <1>22 DEF Encoding
<1>25. Decoders!Reverse(P) = [k \in 1..d |-> Decoders!Sent(list[group[(d - k) + 1]])]
  <2>1. Len(P) = d
    BY <1>4
  <2>2. \A k \in 1..d : P[(d - k) + 1] = Decoders!Sent(list[group[(d - k) + 1]])
    BY <1>10
  <2> HIDE DEF P
  <2> QED  BY <2>1, <2>2 DEF Decoders!Reverse
<1> HIDE DEF P
<1>26. PICK role, Q : /\ Encoding(list, group) = [role |-> role, parts |-> P]
                      /\ Encoding(back, turned) = [role |-> role, parts |-> Q]
                      /\ Q = Decoders!Reverse(P)
  BY <1>23, <1>24, <1>25
<1> QED  BY ONLY <1>26

LEMMA FiledSheet ==
  ASSUME SessionInv, Worded, provider = "pydantic_ai",
         NEW S \in SUBSET (1..Len(items)), NEW picked, picked = Decoders!InOrder(S),
         NEW list, list = Sheet(picked)
  PROVE  /\ list \in Seq(Spoken) /\ Filed(list) /\ Rising(list)
         /\ KeptOf(list) = {<<items[i].msg, items[i].at>> : i \in S}
         /\ MsgsOf(list) = {items[i].msg : i \in S}
<1>1. /\ Len(items) \in Nat /\ items \in Seq(Spoken) /\ (step = "rejected" => items = <<>>)
      /\ (step # "rejected" => OfParts /\ InTurn)
  BY DEF SessionInv, SessionType
<1>2. S \subseteq Int /\ picked = Ranked(S, Less(S))
  <2>1. S \subseteq Int
    BY <1>1
  <2> QED  BY <2>1, NumbersOrdered
<1>3. /\ Len(picked) \in Nat /\ picked \in [1..Len(picked) -> S]
      /\ \A i \in S : \E k \in 1..Len(picked) : picked[k] = i
      /\ \A j, k \in 1..Len(picked) : j < k <=> picked[j] < picked[k]
  <2>1. Len(items) \in Nat /\ S \in SUBSET (1..Len(items)) /\ picked = Ranked(S, Less(S))
    BY <1>1, <1>2
  <2>2. Listed(S, picked)
    BY ONLY <2>1, Picks
  <2> QED  BY <2>2 DEF Listed
<1>4. S # {} => step # "rejected"
  <2> SUFFICES ASSUME step = "rejected" PROVE S = {}
    OBVIOUS
  <2>1. Len(items) = 0
    BY <1>1
  <2>2. 1..Len(items) = {}
    BY <2>1
  <2> QED  BY <2>2
<1>5. \A k \in 1..Len(picked) : picked[k] \in S /\ picked[k] \in 1..Len(items) /\ list[k] = items[picked[k]]
  BY <1>3 DEF Sheet
<1>6. list \in Seq(Spoken) /\ Len(list) = Len(picked)
  <2>1. \A k \in 1..Len(picked) : items[picked[k]] \in Spoken
    BY <1>1, <1>5
  <2> QED  BY <1>3, <2>1 DEF Sheet
<1>7. \A i \in S : /\ items[i].msg \in 1..Len(msgs) /\ items[i].at \in 1..Len(msgs[items[i].msg].parts)
                   /\ Decoders!Sent(items[i]) = Decoders!Mended(msgs[items[i].msg].parts[items[i].at])
                   /\ Side(items[i].kind) = msgs[items[i].msg].role
  BY <1>1, <1>4 DEF OfParts, OfPart, Worded, PartOf
<1>8. Filed(list)
  BY <1>5, <1>6, <1>7 DEF Filed
<1>9. Rising(list)
  <2> SUFFICES ASSUME NEW j \in 1..Len(list), NEW k \in 1..Len(list), j < k
               PROVE  Before(list[j].msg, list[j].at, list[k].msg, list[k].at)
    BY DEF Rising
  <2>1. j \in 1..Len(picked) /\ k \in 1..Len(picked)
    BY <1>6
  <2>2. PICK a \in 1..Len(items), b \in 1..Len(items) : a = picked[j] /\ b = picked[k] /\ a \in S
    BY <1>5, <2>1
  <2>3. a < b
    BY <1>3, <2>1, <2>2
  <2>4. InTurn
    BY <1>1, <1>4, <2>2
  <2>5. list[j] = items[a] /\ list[k] = items[b]
    BY <1>5, <2>1, <2>2
  <2> QED  BY <2>3, <2>4, <2>5 DEF InTurn
<1>10. KeptOf(list) = {<<items[i].msg, items[i].at>> : i \in S}
  <2>1. \A k \in 1..Len(list) : \E i \in S : list[k] = items[i]
    BY <1>5, <1>6
  <2>2. \A i \in S : \E k \in 1..Len(list) : list[k] = items[i]
    BY <1>3, <1>5, <1>6
  <2>3. ASSUME NEW p, p \in KeptOf(list) PROVE \E i \in S : p = <<items[i].msg, items[i].at>>
    <3>1. PICK k \in 1..Len(list) : p = <<list[k].msg, list[k].at>>
      BY <2>3 DEF KeptOf
    <3>2. PICK i \in S : list[k] = items[i]
      BY <2>1
    <3> QED  BY <3>1, <3>2
  <2>4. ASSUME NEW i \in S PROVE <<items[i].msg, items[i].at>> \in KeptOf(list)
    <3>1. PICK k \in 1..Len(list) : list[k] = items[i]
      BY <2>2
    <3> QED  BY <3>1 DEF KeptOf
  <2> QED  BY <2>3, <2>4
<1>11. MsgsOf(list) = {items[i].msg : i \in S}
  <2>1. \A k \in 1..Len(list) : \E i \in S : list[k].msg = items[i].msg
    BY <1>5, <1>6
  <2>2. \A i \in S : \E k \in 1..Len(list) : list[k].msg = items[i].msg
    BY <1>3, <1>5, <1>6
  <2>3. ASSUME NEW m, m \in MsgsOf(list) PROVE \E i \in S : m = items[i].msg
    <3>1. PICK k \in 1..Len(list) : m = list[k].msg
      BY <2>3 DEF MsgsOf
    <3> QED  BY <2>1, <3>1
  <2>4. ASSUME NEW i \in S PROVE items[i].msg \in MsgsOf(list)
    <3>1. PICK k \in 1..Len(list) : list[k].msg = items[i].msg
      BY <2>2
    <3> QED  BY <3>1 DEF MsgsOf
  <2> QED  BY <2>3, <2>4
<1> QED  BY <1>6, <1>8, <1>9, <1>10, <1>11

LEMMA EntriesOf ==
  ASSUME NEW list, Len(list) \in Nat, \A i \in 1..Len(list) : list[i].msg \in Nat,
         NEW entries, entries = Decoders!InOrder(MsgsOf(list))
  PROVE  Len(entries) \in Nat /\ entries \in [1..Len(entries) -> MsgsOf(list)]
<1> DEFINE G == MsgsOf(list)
           F == [i \in 1..Len(list) |-> list[i].msg]
<1>1. G \subseteq Int
  BY DEF MsgsOf
<1>2. IsFiniteSet(G)
  <2>1. IsFiniteSet(1..Len(list))
    BY FS_Interval
  <2>2. F \in Surjection(1..Len(list), G)
    BY DEF Surjection, MsgsOf
  <2> HIDE DEF F, G
  <2> QED  BY <2>1, <2>2, FS_Surjection
<1> HIDE DEF G
<1>3. Linear(G, Less(G)) /\ entries = Ranked(G, Less(G))
  BY <1>1, NumbersOrdered DEF G
<1>4. PICK c : c = Cardinality(G)
  OBVIOUS
<1>5. c \in Nat /\ entries \in [1..c -> G]
  BY <1>2, <1>3, <1>4, Enumerated
<1> QED  BY <1>5 DEF G

LEMMA SessionsGoBack == ASSUME SessionInv, Worded PROVE Decoders!SentBack
<1> DEFINE Picked(S) == Decoders!InOrder(S)
           List(S) == [k \in 1..Len(Picked(S)) |-> items[Picked(S)[k]]]
           Stay(S) == {<<items[i].msg, items[i].at>> : i \in S}
           Leading(S) == Decoders!InOrder({items[i].msg : i \in S})
           Going(S) == Decoders!Encoded(List(S))
           Back(S) == /\ Going(S) = [n \in 1..Len(Leading(S)) |-> Decoders!Left(Leading(S)[n], Stay(S))]
                      /\ Decoders!Encoded(Decoders!Reverse(List(S))) =
                           [n \in 1..Len(Going(S)) |-> [Going(S)[n] EXCEPT !.parts = Decoders!Reverse(@)]]
<1>1. Decoders!SentBack <=> (provider = "pydantic_ai" => \A S \in SUBSET (1..Len(items)) : Back(S))
  BY DEF Decoders!SentBack
<1>2. ASSUME provider = "pydantic_ai", NEW S \in SUBSET (1..Len(items)) PROVE Back(S)
  <2>1. PICK picked, list, stay, heads, sent :
          /\ picked = Picked(S) /\ list = List(S) /\ stay = Stay(S)
          /\ heads = Leading(S) /\ sent = Going(S)
    OBVIOUS
  <2>2. picked = Decoders!InOrder(S) /\ list = Sheet(picked)
    BY <2>1 DEF Sheet
  <2>3. stay = {<<items[i].msg, items[i].at>> : i \in S}
    BY <2>1
  <2>4. heads = Decoders!InOrder({items[i].msg : i \in S})
    BY <2>1
  <2>5. sent = Decoders!Encoded(list)
    BY <2>1
  <2>6. SUFFICES /\ sent = [n \in 1..Len(heads) |-> Decoders!Left(heads[n], stay)]
                 /\ Decoders!Encoded(Decoders!Reverse(list)) =
                      [n \in 1..Len(sent) |-> [sent[n] EXCEPT !.parts = Decoders!Reverse(@)]]
    <3> HIDE DEF Picked, List, Stay, Leading, Going
    <3> QED  BY <2>1
  <2> HIDE DEF Picked, List, Stay, Leading, Going
  <2>7. SessionType
    BY DEF SessionInv
  <2>8. /\ list \in Seq(Spoken) /\ Filed(list) /\ Rising(list)
        /\ KeptOf(list) = {<<items[i].msg, items[i].at>> : i \in S}
        /\ MsgsOf(list) = {items[i].msg : i \in S}
    BY <1>2, <2>2, FiledSheet
  <2>9. KeptOf(list) = stay /\ heads = Decoders!InOrder(MsgsOf(list))
    BY <2>3, <2>4, <2>8
  <2>10. Len(list) \in Nat /\ \A i \in 1..Len(list) : list[i].msg \in Nat /\ list[i] \in Spoken
    <3>1. Len(list) \in Nat /\ \A i \in 1..Len(list) : list[i] \in Spoken
      BY <2>8
    <3> QED  BY <3>1 DEF Spoken
  <2>11. Len(heads) \in Nat /\ heads \in [1..Len(heads) -> MsgsOf(list)]
    BY ONLY <2>9, <2>10, EntriesOf
  <2>12. sent = [n \in 1..Len(heads) |-> Encoding(list, Decoders!InOrder(OfEntry(list, heads[n])))]
    BY ONLY <2>5, <2>9, EncodedIs
  <2>13. ASSUME NEW g \in MsgsOf(list)
         PROVE  Encoding(list, Decoders!InOrder(OfEntry(list, g))) = Decoders!Left(g, stay)
    <3>1. PICK group : group = Decoders!InOrder(OfEntry(list, g))
      OBVIOUS
    <3>2. Encoding(list, group) = Decoders!Left(g, stay)
      BY ONLY <2>7, <2>8, <2>9, <3>1, EntryIs
    <3> QED  BY <3>1, <3>2
  <2>14. sent = [n \in 1..Len(heads) |-> Decoders!Left(heads[n], stay)]
    <3>1. \A n \in 1..Len(heads) : heads[n] \in MsgsOf(list)
      BY <2>11
    <3>2. \A n \in 1..Len(heads) :
            Encoding(list, Decoders!InOrder(OfEntry(list, heads[n]))) = Decoders!Left(heads[n], stay)
      BY <2>13, <3>1
    <3> QED  BY ONLY <2>12, <3>2
  <2>15. PICK back : back = Decoders!Reverse(list)
    OBVIOUS
  <2>16. MsgsOf(back) = MsgsOf(list)
    <3>1. PICK n \in Nat : n = Len(list)
      BY <2>10
    <3>2. back = [i \in 1..n |-> list[(n - i) + 1]]
      BY <2>15, <3>1 DEF Decoders!Reverse
    <3>3. \A i \in 1..n : (n - i) + 1 \in 1..n /\ (n - ((n - i) + 1)) + 1 = i
      BY ONLY <3>1
    <3>4. Len(back) = n
      <4>1. \A i \in 1..n : list[(n - i) + 1] \in Spoken
        BY <2>10, <3>1, <3>3
      <4> QED  BY ONLY <3>1, <3>2, <4>1
    <3>5. \A i \in 1..n : back[i] = list[(n - i) + 1] /\ list[i] = back[(n - i) + 1]
      BY ONLY <3>2, <3>3
    <3>6. \A i \in 1..n : \E j \in 1..n : back[i].msg = list[j].msg
      BY ONLY <3>3, <3>5
    <3>7. \A i \in 1..n : \E j \in 1..n : list[i].msg = back[j].msg
      BY ONLY <3>3, <3>5
    <3>8. ASSUME NEW m, m \in MsgsOf(back) PROVE m \in MsgsOf(list)
      <4>1. PICK i \in 1..n : m = back[i].msg
        BY <3>4, <3>8 DEF MsgsOf
      <4>2. PICK j \in 1..n : m = list[j].msg
        BY <3>6, <4>1
      <4> QED  BY <3>1, <4>2 DEF MsgsOf
    <3>9. ASSUME NEW m, m \in MsgsOf(list) PROVE m \in MsgsOf(back)
      <4>1. PICK i \in 1..n : m = list[i].msg
        BY <3>1, <3>9 DEF MsgsOf
      <4>2. PICK j \in 1..n : m = back[j].msg
        BY <3>7, <4>1
      <4> QED  BY <3>4, <4>2 DEF MsgsOf
    <3> QED  BY ONLY <3>8, <3>9
  <2>17. Decoders!Encoded(back) =
           [n \in 1..Len(heads) |-> Encoding(back, Decoders!InOrder(OfEntry(back, heads[n])))]
    <3>1. heads = Decoders!InOrder(MsgsOf(back))
      BY ONLY <2>9, <2>16
    <3> QED  BY ONLY <3>1, EncodedIs
  <2>18. Len(sent) = Len(heads)
    <3>1. PICK c \in Nat : c = Len(heads)
      BY <2>11, Zenon
    <3> QED  BY ONLY <2>14, <3>1
  <2>19. ASSUME NEW n \in 1..Len(heads)
         PROVE  Encoding(back, Decoders!InOrder(OfEntry(back, heads[n])))
                  = [sent[n] EXCEPT !.parts = Decoders!Reverse(@)]
    <3>1. PICK g \in MsgsOf(list) : g = heads[n]
      BY <2>11
    <3>2. PICK group : group = Decoders!InOrder(OfEntry(list, g))
      OBVIOUS
    <3>3. PICK turned : turned = Decoders!InOrder(OfEntry(back, g))
      OBVIOUS
    <3>4. Encoding(back, turned) = [Encoding(list, group) EXCEPT !.parts = Decoders!Reverse(@)]
      BY ONLY <2>7, <2>8, <2>15, <3>2, <3>3, EntryBack
    <3>5. sent[n] = Encoding(list, group)
      BY <2>12, <3>1, <3>2
    <3> QED  BY <3>1, <3>3, <3>4, <3>5
  <2> QED  BY <2>14, <2>15, <2>17, <2>18, <2>19
<1> HIDE DEF Back
<1> QED  BY <1>1, <1>2

\* The parts of a conversation, together.
Conversed == /\ part \in {"engine", "messages", "sessions"}
             /\ part = "messages" => ReadInv /\ PlaceInv /\ Logging
             /\ part = "sessions" => SessionInv /\ Worded /\ Logging

LEMMA ConversedAlways == SpecParts => []Conversed
<1>1. InitParts => Conversed
  <2> SUFFICES ASSUME InitParts PROVE Conversed
    OBVIOUS
  <2>1. CASE part = "messages"
    <3>1. Adapters!Init
      BY <2>1 DEF InitParts
    <3>2. Logging
      BY <3>1 DEF Adapters!Init, Logging
    <3> QED  BY <2>1, <3>1, <3>2, ReadInit, PlaceInit DEF Conversed
  <2>2. CASE part = "sessions"
    <3>1. Decoders!Init
      BY <2>2 DEF InitParts
    <3>2. Logging
      BY <3>1 DEF Decoders!Init, Logging
    <3> QED  BY <2>2, <3>1, <3>2, SessionInit, WordedInit DEF Conversed
  <2> QED  BY <2>1, <2>2 DEF InitParts, Conversed
<1>2. Conversed /\ [NextPart]_allVars => Conversed'
  <2> SUFFICES ASSUME Conversed, [NextPart]_allVars PROVE Conversed'
    OBVIOUS
  <2>1. part' = part /\ part \in {"engine", "messages", "sessions"}
    BY DEF NextPart, allVars, Conversed
  <2>2. CASE part = "messages"
    <3>1. [Adapters!Next]_Adapters!vars
      BY <2>2 DEF NextPart, allVars, messageVars, Adapters!vars
    <3>2. ReadInv' /\ Logging'
      BY <2>2, <3>1, ReadStep, LoggingStep DEF Conversed
    <3>3. PlaceInv'
      BY <2>2, <3>1, <3>2, PlaceStep DEF Conversed
    <3> QED  BY <2>1, <2>2, <3>2, <3>3 DEF Conversed
  <2>3. CASE part = "sessions"
    <3>1. [Decoders!Next]_Decoders!vars
      BY <2>3 DEF NextPart, allVars, messageVars, Decoders!vars
    <3>2. SessionInv' /\ Logging'
      BY <2>3, <3>1, SessionStep, LoggingSteps DEF Conversed
    <3>3. Worded'
      BY <2>3, <3>1, <3>2, WordedStep DEF Conversed
    <3> QED  BY <2>1, <2>3, <3>2, <3>3 DEF Conversed
  <2> QED  BY <2>1, <2>2, <2>3 DEF Conversed
<1> QED  BY <1>1, <1>2, PTL DEF SpecParts

\* A result that was read answers the call that the adapter of its provider says it
\* answers, and the log takes a conversation up to the first id it has had.
THEOREM MessagesAnswerCalls ==
  SpecParts => [](part = "messages" => Adapters!ThreadsHold /\ Adapters!LogHolds)
<1>1. Conversed => (part = "messages" => Adapters!ThreadsHold /\ Adapters!LogHolds)
  BY LogsHold DEF Conversed, ReadInv
<1> QED  BY <1>1, ConversedAlways, PTL

\* So with the sessions of every framework, by its own rule; and a session is ingested
\* whole just when it repeats no id.
THEOREM SessionsAnswerCalls ==
  SpecParts => [](part = "sessions" => Decoders!ThreadsHold /\ Decoders!LogHolds)
<1>1. Conversed => (part = "sessions" => Decoders!ThreadsHold /\ Decoders!LogHolds)
  BY SessionThreads, SessionLogs DEF Conversed
<1> QED  BY <1>1, ConversedAlways, PTL

\* Whatever items somebody keeps of a conversation that was read go back into the
\* messages they came from, whole and in their places; every answer has its call, and
\* the log the items up to an id it has had (from_openai_messages, to_openai_messages
\* and their counterparts, ingest_into_manager).
THEOREM TurnsReturnAlways == SpecParts => []TurnsReturn
<1>1. Conversed => TurnsReturn
  <2> SUFFICES ASSUME Conversed PROVE TurnsReturn
    OBVIOUS
  <2>1. CASE part = "messages"
    <3>1. ReadInv /\ PlaceInv /\ Logging
      BY <2>1 DEF Conversed
    <3>2. Adapters!SentBack
      BY <3>1, MessagesGoBack
    <3>3. Adapters!ThreadsHold /\ Adapters!LogHolds
      BY <3>1, LogsHold DEF ReadInv
    <3> QED  BY <2>1, <3>2, <3>3 DEF TurnsReturn, Adapters!TurnsReturn
  <2>2. CASE part = "sessions"
    <3>1. SessionInv /\ Worded /\ Logging
      BY <2>2 DEF Conversed
    <3>2. Decoders!SentBack
      BY <3>1, SessionsGoBack
    <3>3. Decoders!ThreadsHold /\ Decoders!LogHolds
      BY <3>1, SessionThreads, SessionLogs
    <3> QED  BY <2>2, <3>2, <3>3 DEF TurnsReturn, Decoders!SessionsRead
  <2> QED  BY <2>1, <2>2 DEF TurnsReturn
<1> QED  BY <1>1, ConversedAlways, PTL
================================================================================
