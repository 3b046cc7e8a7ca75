----------------------------- MODULE ContextEngine -----------------------------
(***************************************************************************)
(* The context engine (context/): callers append items to an event log, raw   *)
(* tool results go to the artifact store, and a build turns the log into a     *)
(* pack: candidates, their parents, sensitivity, firewall, order, duplicates,  *)
(* budget.  Over asynchronous stores a build runs in a worker thread            *)
(* (_build with _async_backed), so that ingests and drilldowns run between its  *)
(* calls to the stores; builds exclude each other by _build_lock.              *)
(*                                                                         *)
(* A text is a form of a datum: what a caller handed in has a number of its own, *)
(* so that it can be followed through summaries, slices and masks.  The handle *)
(* "artifact:{id}" is the id.                                                  *)
(***************************************************************************)
EXTENDS Integers, Sequences, FiniteSets, SequencesExt

CONSTANTS Item, Slice, None,
          KindOf, ParentOf,   \* of an item: its kind, the parent_id it names or None
          Phases,             \* the sets of kinds the phases allow
          Level, Floor,       \* sensitivity labels, and the floor of the policy
          Detected,           \* data whose raw text the classifier raises
          Cost,               \* form of text -> tokens
          Budget, Headers,    \* tokens of the phase, and of possible headers
          KindLimit,          \* items of one kind in a pack
          Mode,               \* the manager's settings: see Settings
          MaxData             \* bound: texts handed in

Id == Item \cup Slice
Kind == {"user_turn", "tool_call", "tool_result"}
Form == {"raw", "summary", "mask"}
Settings == [redact : BOOLEAN,    \* sensitivity_action is "redact", not "drop"
             open : BOOLEAN,      \* allow_redacted_drilldown
             closed : BOOLEAN,    \* deterministic, with an LLM-backed summarizer
             strict : BOOLEAN]    \* overflow_action is "raise", not "drop"

ASSUME IdAssumption == None \notin Id /\ Item \cap Slice = {}
ASSUME ItemAssumption == /\ KindOf \in [Item -> Kind]
                         /\ ParentOf \in [Item -> Item \cup {None}]
ASSUME PolicyAssumption == /\ Phases \subseteq SUBSET Kind
                           /\ Level \subseteq Nat /\ 0 \in Level /\ Floor \in Nat \ {0}
                           /\ Mode \subseteq Settings
ASSUME SizeAssumption == /\ Cost \in [Form -> Nat] /\ Budget \in Nat /\ Headers \subseteq Nat
                         /\ KindLimit \in Nat /\ MaxData \in Nat /\ Detected \subseteq Nat

VARIABLES mode,     \* the settings, which never change
          log,      \* the event log
          store,    \* handle -> the text stored, or None
          caller,   \* an ingest between its put and its append, or Idle
          build,    \* the build under way, or NoBuild
          pack,     \* what the step just taken returned, or None
          data      \* texts handed in so far

vars == <<mode, log, store, caller, build, pack, data>>

IdsOf(S) == {e.id : e \in S}
Idle == [id |-> None]
NoBuild == [at |-> "idle"]

Logged == IdsOf(ToSet(log))
Entry(i) == CHOOSE e \in ToSet(log) : e.id = i

Init == /\ mode \in Mode
        /\ log = <<>>
        /\ store = [i \in Id |-> None]
        /\ caller = Idle
        /\ build = NoBuild
        /\ pack = None
        /\ data = 0

--------------------------------------------------------------------------------
(* ingest.py *)

Raw(d) == [form |-> "raw", of |-> d]
Summary(t) == [form |-> "summary", of |-> t.of]
Mask == [form |-> "mask", of |-> 0]

Entered(i, text, label, ref, seam) ==
    [id |-> i, kind |-> KindOf[i], parent |-> ParentOf[i], text |-> text,
     label |-> label, ref |-> ref, seam |-> seam]

HandIn == caller = Idle /\ data < MaxData /\ data' = data + 1

\* ingest: the caller's item, raw and labelled as it says.  ingest_mcp_result does
\* the same with a text below the threshold.
Ingest(i, label) ==
    /\ HandIn /\ i \notin Logged
    /\ log' = Append(log, Entered(i, Raw(data'), label, None, FALSE))
    /\ pack' = None
    /\ UNCHANGED <<mode, store, caller, build>>

\* ingest, by a caller that stored the raw text itself.
IngestOwned(i, label) ==
    /\ HandIn /\ i \notin Logged /\ KindOf[i] = "tool_result"
    /\ store' = [store EXCEPT ![i] = Raw(data')]
    /\ log' = Append(log, Entered(i, Summary(Raw(data')), label, i, FALSE))
    /\ pack' = None
    /\ UNCHANGED <<mode, caller, build>>

\* ingest_envelope: a summary whose raw text, and its handle, are elsewhere.
IngestEnvelope(i) ==
    /\ HandIn /\ i \notin Logged /\ KindOf[i] = "tool_result"
    /\ log' = Append(log, Entered(i, Summary(Raw(data')), 0, None, TRUE))
    /\ pack' = None
    /\ UNCHANGED <<mode, store, caller, build>>

\* ingest_tool_result stores the raw text first, whether or not the id is taken.
\* large: it is over the threshold, and the firewall summarises it.
PutResult(i, large) ==
    /\ HandIn /\ KindOf[i] = "tool_result"
    /\ store' = [store EXCEPT ![i] = Raw(data')]
    /\ caller' = [id |-> i, text |-> Raw(data'), large |-> large]
    /\ pack' = None
    /\ UNCHANGED <<mode, log, build>>

\* Then it appends the item, unless the firewall fails closed or the id is taken.
Refused == caller.id \in Logged \/ (caller.large /\ mode.closed)
AppendResult ==
    /\ caller # Idle
    /\ log' = IF Refused THEN log
              ELSE Append(log, Entered(caller.id, IF caller.large THEN Summary(caller.text) ELSE caller.text,
                                       0, caller.id, FALSE))
    /\ caller' = Idle
    /\ pack' = None
    /\ UNCHANGED <<mode, store, build, data>>

\* drilldown: the first item that owns the handle decides; a handle without an
\* owner is public.  The slice that is injected inherits the owner's label.
Owners(h) == {k \in DOMAIN log : log[k].ref = h}
SourceLabel(h) == IF Owners(h) = {} THEN 0
                  ELSE log[CHOOSE k \in Owners(h) : \A m \in Owners(h) : k <= m].label
Denied(h) == Owners(h) # {} /\ SourceLabel(h) >= Floor /\ ~mode.open
Inherited_Public(h) == 0
Inherited(h) == SourceLabel(h)
Drilldown(h, s, parent) ==
    /\ caller = Idle /\ s \notin Logged
    /\ store[h] # None /\ ~Denied(h)
    /\ log' = Append(log, [id |-> s, kind |-> "tool_result", parent |-> parent, text |-> store[h],
                           label |-> Inherited(h), ref |-> None, seam |-> FALSE])
    /\ pack' = None
    /\ UNCHANGED <<mode, store, caller, build, data>>

--------------------------------------------------------------------------------
(* candidates.py *)

\* A build takes up items in the order of the log.
Entries == ToSet(log)
Position(i) == CHOOSE k \in DOMAIN log : log[k].id = i
First(e, S) == e \in S /\ \A f \in S : Position(e.id) <= Position(f.id)

\* generate_candidates; the build holds _build_lock from here to its end.
Generate(kinds) ==
    /\ build = NoBuild
    /\ LET allowed == {e \in Entries : e.kind \in kinds}
       IN  build' = [at |-> "closing", began |-> Len(log), todo |-> allowed, cands |-> IdsOf(allowed)]
    /\ pack' = None
    /\ UNCHANGED <<mode, log, store, caller, data>>

\* The ancestors of an item, up to one that is a candidate or is not logged yet.
Missing == Logged \ build.cands
Ancestors_Direct(e) == {e.parent} \cap Missing
Ancestors(e) ==
    LET up[n \in 0..Len(log)] == IF n = 0 THEN e.parent
                                 ELSE IF up[n - 1] \in Missing THEN Entry(up[n - 1]).parent
                                 ELSE None
    IN  {up[n] : n \in DOMAIN up} \cap Missing

\* resolve_dependency_closure, one candidate at a time.
Close ==
    /\ build.at = "closing"
    /\ \E e \in build.todo :
          /\ First(e, build.todo)
          /\ build' = [build EXCEPT !.cands = @ \cup Ancestors(e), !.todo = @ \ {e}]
    /\ pack' = None
    /\ UNCHANGED <<mode, log, store, caller, data>>

--------------------------------------------------------------------------------
(* sensitivity.py, firewall.py *)

\* The label after the classifier, which only raises it.
Sensitive(e) == e.label >= Floor \/ (e.text.form = "raw" /\ e.text.of \in Detected)
Masked(e) == [e EXCEPT !.text = Mask, !.ref = None]

\* The firewall stores the text of every tool result that no earlier pass stored.
Fires_Always(e) == e.kind = "tool_result" /\ ~e.seam
Fires(e) == e.kind = "tool_result" /\ ~e.seam /\ e.ref = None

\* classify, then apply_sensitivity_filter over the closed candidates.
Candidates == {e \in Entries : e.id \in build.cands}
Filtered == {e \in Candidates : ~Sensitive(e)}
            \cup {Masked(e) : e \in {c \in Candidates : mode.redact /\ Sensitive(c)}}
Screen ==
    /\ build.at = "closing" /\ build.todo = {}
    /\ build' = [at |-> "firewall", began |-> build.began, cands |-> build.cands,
                 todo |-> {e \in Filtered : Fires(e)}, items |-> {e \in Filtered : ~Fires(e)}]
    /\ pack' = None
    /\ UNCHANGED <<mode, log, store, caller, data>>

\* What takes the item's place: it keeps neither the text nor the label.
Processed(e) == [e EXCEPT !.text = IF @ = Mask THEN Mask ELSE Summary(@), !.ref = e.id, !.label = 0]

\* apply_firewall: the text goes to the store, its summary to the pack.
Firewall ==
    /\ build.at = "firewall"
    /\ \E e \in build.todo :
          /\ First(e, build.todo)
          /\ store' = [store EXCEPT ![e.id] = e.text]
          /\ build' = IF mode.closed THEN NoBuild
                      ELSE [build EXCEPT !.todo = @ \ {e}, !.items = @ \cup {Processed(e)}]
    /\ pack' = None
    /\ UNCHANGED <<mode, log, caller, data>>

--------------------------------------------------------------------------------
(* dedup.py, selection.py, build.py *)

\* Scores depend on the query and the recency: any order may be the descending one.
Orders == SetToSeqs(build.items)

\* Of items with similar texts the first is kept.
Keep(kept, e) == IF \E k \in ToSet(kept) : k.text = e.text THEN kept ELSE Append(kept, e)
Dedup(order) ==
    LET kept[n \in 0..Len(order)] == IF n = 0 THEN <<>> ELSE Keep(kept[n - 1], order[n])
    IN  kept[Len(order)]

\* select_and_pack, greedy in the given order.
Chosen(sel, e) == Cardinality({c \in sel.chosen : c.kind = e.kind})
Full(sel, e, room) == sel.tokens + Cost[e.text.form] > room
Take_Unrecorded(sel, e, room) ==
    IF Chosen(sel, e) >= KindLimit THEN sel
    ELSE IF Full(sel, e, room) THEN [sel EXCEPT !.dropped = @ \cup {<<e.id, "budget">>}]
    ELSE [chosen |-> sel.chosen \cup {e}, dropped |-> sel.dropped,
          tokens |-> sel.tokens + Cost[e.text.form]]
Take(sel, e, room) ==
    IF Chosen(sel, e) >= KindLimit THEN [sel EXCEPT !.dropped = @ \cup {<<e.id, "kind_limit">>}]
    ELSE IF Full(sel, e, room) THEN [sel EXCEPT !.dropped = @ \cup {<<e.id, "budget">>}]
    ELSE [chosen |-> sel.chosen \cup {e}, dropped |-> sel.dropped,
          tokens |-> sel.tokens + Cost[e.text.form]]
Select(order, room) ==
    LET sel[n \in 0..Len(order)] == IF n = 0 THEN [chosen |-> {}, dropped |-> {}, tokens |-> 0]
                                    ELSE Take(sel[n - 1], order[n], room)
    IN  sel[Len(order)]

\* What the header leaves of the budget.
Room(header) == IF header < Budget THEN Budget - header ELSE 0

Drops(ids, reason) == {<<i, reason>> : i \in ids}

\* The pure stages, the accounting check and the overflow policy.
Assemble ==
    /\ build.at = "firewall" /\ build.todo = {}
    /\ \E order \in Orders, header \in Headers :
       LET kept == Dedup(order)
           sel == Select(kept, Room(header))
           dropped == sel.dropped \cup Drops(IdsOf(build.items) \ IdsOf(ToSet(kept)), "dedup")
                                  \cup Drops(build.cands \ IdsOf(build.items), "sensitivity")
           result == IF Cardinality(sel.chosen) + Cardinality(dropped) # Cardinality(build.cands)
                     THEN "unaccounted"
                     ELSE IF mode.strict /\ \E i \in Id : <<i, "budget">> \in dropped THEN "overflow"
                     ELSE "rendered"
       IN  pack' = [result |-> result, chosen |-> sel.chosen, dropped |-> dropped,
                    cands |-> build.cands, began |-> build.began, header |-> header]
    /\ build' = NoBuild
    /\ UNCHANGED <<mode, log, store, caller, data>>

--------------------------------------------------------------------------------
Calls == \/ \E i \in Item : \/ IngestEnvelope(i)
                            \/ \E label \in Level : Ingest(i, label) \/ IngestOwned(i, label)
                            \/ \E large \in BOOLEAN : PutResult(i, large)
         \/ AppendResult
         \/ \E h \in Id, s \in Slice, parent \in Item \cup {None} : Drilldown(h, s, parent)

Builds == \/ \E kinds \in Phases : Generate(kinds)
          \/ Close \/ Screen \/ Firewall \/ Assemble

Next == Calls \/ Builds

Spec == Init /\ [][Next]_vars

--------------------------------------------------------------------------------
Text == [form : Form, of : Nat]
LogItem == [id : Id, kind : Kind, parent : Item \cup {None}, text : Text, label : Level,
            ref : Id \cup {None}, seam : BOOLEAN]

Stage == {NoBuild}
         \cup [at : {"closing"}, began : Nat, cands : SUBSET Id, todo : SUBSET LogItem]
         \cup [at : {"firewall"}, began : Nat, cands : SUBSET Id, todo : SUBSET LogItem,
              items : SUBSET LogItem]

\* Types; a log has every id once (store/event_log.py), and the stages of a build
\* hold items of that log.
TypeOK == /\ mode \in Mode
          /\ log \in Seq(LogItem)
          /\ \A j, k \in DOMAIN log : log[j].id = log[k].id => j = k
          /\ store \in [Id -> Text \cup {None}]
          /\ caller = Idle \/ caller \in [id : Item, text : Text, large : BOOLEAN]
          /\ build \in Stage
          /\ build # NoBuild => build.cands \subseteq Logged /\ build.began \in 0..Len(log)
          /\ data \in 0..MaxData

\* Every candidate of a build is selected or dropped for one reason, and the check
\* "context build accounting invariant failed" (build.py) never fires.
Accounted == pack # None =>
    /\ pack.result # "unaccounted"
    /\ \A i \in pack.cands : Cardinality({e \in pack.chosen : e.id = i}
                                         \cup {d \in pack.dropped : d[1] = i}) = 1

\* The candidates hold the parent of every candidate that was in the log when the
\* build began, and so on up, whatever is appended meanwhile (candidates.py).
ClosureComplete == pack # None =>
    \A j, k \in 1..pack.began :
        log[j].id \in pack.cands /\ log[k].id = log[j].parent => log[k].id \in pack.cands

\* A pack shows no text of a datum that some item labels at or above the floor: not
\* through a parent the closure added, nor a slice a drilldown injected; and none
\* that the classifier detects (sensitivity.py, ingest.py).
NothingSensitiveShown == pack # None =>
    \A e \in pack.chosen : e.text.form # "mask" =>
        /\ \A k \in DOMAIN log : log[k].text.of = e.text.of => log[k].label < Floor
        /\ ~(e.text.form = "raw" /\ e.text.of \in Detected)

\* What is selected fits in what the header leaves, and in the limit of its kind.
Tokens(S) == LET Of(f) == Cost[f] * Cardinality({e \in S : e.text.form = f})
             IN  Of("raw") + Of("summary") + Of("mask")
PackFits == pack # None =>
    /\ Tokens(pack.chosen) <= Room(pack.header)
    /\ \A kind \in Kind : Cardinality({e \in pack.chosen : e.kind = kind}) <= KindLimit

\* The books of a pack: each candidate is counted once, and the rest fits.
PackBalanced == TypeOK /\ Accounted /\ PackFits

\* A build changes no bytes behind a handle that a logged item refers to, while the
\* policy drops what is sensitive (firewall.py, issue 190).
Refers(h) == \E k \in DOMAIN log : log[k].ref = h
Overwrites == \E h \in Id : Refers(h) /\ store'[h] # store[h]
RawSurvives == [][build' # build /\ ~mode.redact => ~Overwrites]_vars

\* "Re-firing on a subsequent build() call would overwrite the original raw bytes
\* with the summary and silently break drilldown" (firewall.py, issue 190): no build does,
\* whatever the policy.
RawSurvivesBuild == [][build' # build => ~Overwrites]_vars
================================================================================
