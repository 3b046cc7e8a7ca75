------------------------------ MODULE LiveCatalog ------------------------------
(***************************************************************************)
(* A gateway over live upstream servers (_mcp_cli._serve_live): the upstreams  *)
(* are connected one by one, their tools are listed through MultiplexUpstream, *)
(* the catalog is filtered, and from then on LiveRefresher turns every         *)
(* tools/list_changed notification into a task that lists and registers again. *)
(* A listing awaits one source after the other, so notifications, further     *)
(* tasks and the clock run between its parts.  The registration itself is     *)
(* Rebuild of GatewayRuntime, here only the set of names it serves.           *)
(***************************************************************************)
EXTENDS Integers, Sequences, FiniteSets, SequencesExt

CONSTANTS Source, Tool, Task, Startup, None,
          Specs,          \* the configured upstreams in declaration order
          Strict, Required, MinHealthy, FailOnEmpty,   \* the StartupPolicy
          Visible,        \* the tools the visibility profile, if there is one, allows
          Pinned,         \* the catalog a strict pin expects, or None
          Debounce, PerWindow, Window,                 \* the LiveRefreshPolicy
          MaxClock,       \* bound: the clock stops here
          MaxChanges      \* bound: changes of what the upstreams serve

Actor == Task \cup {Startup}

ASSUME ActorAssumption == Startup \notin Task /\ None \notin Actor \cup Source
ASSUME SpecsAssumption == Specs \in Seq(Source) /\ Range(Specs) = Source /\ IsInjective(Specs)
\* A gateway that may start without any upstream has nothing to list and is left out.
ASSUME PolicyAssumption == /\ Strict \in BOOLEAN /\ FailOnEmpty \in BOOLEAN
                           /\ Required \subseteq Source /\ MinHealthy \in Nat \ {0}
                           /\ Visible \subseteq Tool
                           /\ Pinned = None \/ Pinned \subseteq Tool
ASSUME LimitAssumption == /\ Debounce \in Nat /\ {PerWindow, Window} \subseteq Nat \ {0}
                          /\ {MaxClock, MaxChanges} \subseteq Nat

VARIABLES live,      \* live_refresh is enabled, which excludes a visibility profile
          serves,    \* source -> the tools its upstream has now
          status,    \* source -> how connecting it ended
          phase,     \* where _serve_live is
          owner,     \* tool -> the source it is routed to, or None: _owner_index
          catalog,   \* the tools the runtime serves
          job,       \* actor -> the list_tools call it makes, or waits to make
          queue,     \* tasks waiting for the lock, in order
          lock,      \* the task that holds the refresher's lock, or None
          starts,    \* start times of the refreshes that succeeded (history)
          window,    \* the deque of the rate limit
          asOf,      \* changes made when the registered listing began (history)
          dropped,   \* changes whose notification came to nothing (history)
          changes, clock

refresher == <<queue, lock, starts, window>>
world == <<live, serves, changes, clock>>
vars == <<live, serves, status, phase, owner, catalog, job, queue, lock, starts, window,
          asOf, dropped, changes, clock>>

NoJob == [at |-> "idle", heard |-> {}, out |-> {}, seen |-> {}, began |-> 0, rev |-> 0, told |-> 0]

Init == /\ live \in BOOLEAN
        /\ serves \in [Source -> SUBSET Tool]
        /\ status = [s \in Source |-> "pending"]
        /\ phase = "connecting"
        /\ owner = [t \in Tool |-> None]
        /\ catalog = {}
        /\ job = [a \in Actor |-> NoJob]
        /\ queue = <<>>
        /\ lock = None
        /\ starts = <<>>
        /\ window = <<>>
        /\ asOf = 0
        /\ dropped = {}
        /\ changes = 0
        /\ clock = 0

--------------------------------------------------------------------------------
(* launch_upstreams *)

Healthy == {s \in Source : status[s] \in {"loaded", "bare"}}
Before(r, s) == \E i, j \in 1..Len(Specs) : i < j /\ Specs[i] = r /\ Specs[j] = s

\* The next configured upstream connects and lists its tools, perhaps none, or fails.
Connect(s) ==
    /\ phase = "connecting" /\ status[s] = "pending"
    /\ \A r \in Source : Before(r, s) => status[r] # "pending"
    /\ \/ status' = [status EXCEPT ![s] = IF serves[s] = {} THEN "bare" ELSE "loaded"]
       \/ status' = [status EXCEPT ![s] = "failed"]
    /\ UNCHANGED <<phase, owner, catalog, job, refresher, asOf, dropped, world>>

Connected == phase = "connecting" /\ \A s \in Source : status[s] # "pending"
Rejected == \/ Strict /\ \E s \in Required : status[s] = "failed"
            \/ Cardinality(Healthy) < MinHealthy
            \/ FailOnEmpty /\ \A s \in Source : status[s] # "loaded"

\* The list_tools call an actor begins now.
Listing == [NoJob EXCEPT !.at = "listing", !.began = clock, !.rev = changes]

Abort == /\ Connected /\ Rejected
         /\ phase' = "stopped"
         /\ UNCHANGED <<status, owner, catalog, job, refresher, asOf, dropped, world>>

\* The startup policy is met: refresh_catalog begins its listing.
Launch == /\ Connected /\ ~Rejected
          /\ phase' = "refreshing"
          /\ job' = [job EXCEPT ![Startup] = Listing]
          /\ UNCHANGED <<status, owner, catalog, refresher, asOf, dropped, world>>

--------------------------------------------------------------------------------
(* MultiplexUpstream.list_tools *)

\* The sources that have still to answer, and whether s is the next of them.
Unheard(a) == Healthy \ job[a].heard
Turn(a, s) == /\ job[a].at = "listing" /\ s \in Unheard(a)
              /\ \A r \in Unheard(a) : ~Before(r, s)

\* A source answers: the names nobody owns yet become its own and are returned.
\* The index is never emptied.
New(s) == {t \in serves[s] : owner[t] = None}
Own_Restarts(a, s) == [t \in Tool |-> IF job[a].heard = {}
                                      THEN IF t \in serves[s] THEN s ELSE None
                                      ELSE IF t \in New(s) THEN s ELSE owner[t]]
Own(a, s) == [t \in Tool |-> IF t \in New(s) THEN s ELSE owner[t]]
Out(a, s) == job[a].out \cup New(s)

\* There are more sources to ask.
Gather(a) == \E s \in Source :
    /\ Turn(a, s) /\ Unheard(a) # {s}
    /\ owner' = Own(a, s)
    /\ job' = [job EXCEPT ![a].heard = @ \cup {s}, ![a].out = Out(a, s),
                          ![a].seen = @ \cup serves[s]]
    /\ UNCHANGED <<status, phase, catalog, refresher, asOf, dropped, world>>

\* s is the last source, and it answers.
Gathered(a, s) == Turn(a, s) /\ Unheard(a) = {s}

--------------------------------------------------------------------------------
(* _serve_live *)

\* refresh_catalog registers the listing; a second listing is made for the governance.
Register == \E s \in Source :
    /\ phase = "refreshing" /\ Gathered(Startup, s)
    /\ owner' = Own(Startup, s)
    /\ catalog' = Out(Startup, s)
    /\ asOf' = job[Startup].rev
    /\ phase' = "governing"
    /\ job' = [job EXCEPT ![Startup] = Listing]
    /\ UNCHANGED <<status, refresher, dropped, world>>

\* filter_catalog: of the second listing, what is served and the profile shows.
Shown(s) == Out(Startup, s) \cap catalog \cap Visible

\* _apply_catalog_governance: the listing is filtered and registered only when
\* a profile hides a tool; a strict pin must match what is then served.
Hides == ~live /\ ~(catalog \subseteq Visible)
Governed(s) == IF Hides THEN Shown(s) ELSE catalog
PinHolds(s) == Pinned \in {None, Governed(s)}
Govern == \E s \in Source :
    /\ phase = "governing" /\ Gathered(Startup, s)
    /\ owner' = Own(Startup, s)
    /\ catalog' = Governed(s)
    /\ asOf' = IF Hides THEN job[Startup].rev ELSE asOf
    /\ phase' = IF PinHolds(s) THEN "serving" ELSE "stopped"
    /\ job' = [job EXCEPT ![Startup] = NoJob]
    /\ UNCHANGED <<status, refresher, dropped, world>>

\* A source fails or times out: list_tools raises, and startup with it.
StartupFails == /\ job[Startup].at = "listing"
                /\ job' = [job EXCEPT ![Startup] = NoJob]
                /\ phase' = "stopped"
                /\ UNCHANGED <<status, owner, catalog, refresher, asOf, dropped, world>>

--------------------------------------------------------------------------------
(* LiveRefresher *)

Debounced == starts # <<>> /\ clock - Last(starts) < Debounce

\* The deque without the n entries on its left that have left the window.
Stale_Debounced(t) == clock - t >= Debounce
Stale(t) == clock - t >= Window
Popped(n) == /\ \A i \in 1..n : Stale(window[i])
             /\ n < Len(window) => ~Stale(window[n + 1])
Pruned(n) == SubSeq(window, n + 1, Len(window))
Limited(n) == Debounced \/ Len(Pruned(n)) >= PerWindow

\* on_list_changed, once it has the lock: the limits, and the first await.
Enter_Unlocked(t) == \E n \in 0..Len(window) :
    /\ queue # <<>> /\ Head(queue) = t /\ Popped(n)
    /\ queue' = Tail(queue)
    /\ window' = IF Debounced THEN window ELSE Pruned(n)
    /\ IF Limited(n)
       THEN /\ job' = [job EXCEPT ![t] = NoJob] /\ lock' = lock
            /\ dropped' = dropped \cup {job[t].told}
       ELSE /\ job' = [job EXCEPT ![t] = [Listing EXCEPT !.told = job[t].told]] /\ lock' = t
            /\ UNCHANGED dropped
    /\ UNCHANGED <<status, phase, owner, catalog, starts, asOf, world>>
Enter(t) == \E n \in 0..Len(window) :
    /\ lock = None /\ queue # <<>> /\ Head(queue) = t /\ Popped(n)
    /\ queue' = Tail(queue)
    /\ window' = IF Debounced THEN window ELSE Pruned(n)
    /\ IF Limited(n)
       THEN /\ job' = [job EXCEPT ![t] = NoJob] /\ lock' = lock
            /\ dropped' = dropped \cup {job[t].told}
       ELSE /\ job' = [job EXCEPT ![t] = [Listing EXCEPT !.told = job[t].told]] /\ lock' = t
            /\ UNCHANGED dropped
    /\ UNCHANGED <<status, phase, owner, catalog, starts, asOf, world>>

\* register_tool_defs_sync with what the listing returned; the time recorded is
\* the one at which the refresh began.
Refreshed(t) == \E s \in Source :
    /\ t \in Task /\ Gathered(t, s)
    /\ owner' = Own(t, s)
    /\ catalog' = Out(t, s)
    /\ asOf' = job[t].rev
    /\ starts' = Append(starts, job[t].began)
    /\ window' = Append(window, job[t].began)
    /\ job' = [job EXCEPT ![t] = NoJob]
    /\ lock' = None
    /\ UNCHANGED <<status, phase, queue, dropped, world>>

\* A source fails: the names gathered so far stay owned and nothing is recorded.
RefreshFails_HoldsLock(t) ==
    /\ job[t].at = "listing"
    /\ job' = [job EXCEPT ![t] = NoJob]
    /\ dropped' = dropped \cup {job[t].told}
    /\ UNCHANGED <<status, phase, owner, catalog, refresher, asOf, world>>
RefreshFails(t) ==
    /\ job[t].at = "listing"
    /\ job' = [job EXCEPT ![t] = NoJob]
    /\ lock' = None
    /\ dropped' = dropped \cup {job[t].told}
    /\ UNCHANGED <<status, phase, owner, catalog, queue, starts, window, asOf, world>>

--------------------------------------------------------------------------------
\* Whether a notification of s is listened to: a refresher is there, s is connected.
Heard(s) == live /\ phase = "serving" /\ s \in Healthy

\* make_message_handler: a task is scheduled for change r, whatever else runs.
Schedule_WhenIdle(r) ==
    IF lock # None THEN UNCHANGED <<job, queue>>
    ELSE \E t \in Task :
            /\ job[t].at = "idle"
            /\ job' = [job EXCEPT ![t] = [NoJob EXCEPT !.at = "waiting", !.told = r]]
            /\ queue' = Append(queue, t)
Schedule(r) ==
    \E t \in Task :
        /\ job[t].at = "idle"
        /\ job' = [job EXCEPT ![t] = [NoJob EXCEPT !.at = "waiting", !.told = r]]
        /\ queue' = Append(queue, t)

\* An upstream's tools change and it notifies its session.
Changes(s, tools) ==
    /\ changes < MaxChanges /\ tools # serves[s] /\ phase # "stopped"
    /\ serves' = [serves EXCEPT ![s] = tools]
    /\ changes' = changes + 1
    /\ IF Heard(s)
       THEN Schedule(changes') /\ UNCHANGED dropped
       ELSE dropped' = dropped \cup {changes'} /\ UNCHANGED <<job, queue>>
    /\ UNCHANGED <<live, status, phase, owner, catalog, lock, starts, window, asOf, clock>>

Tick == /\ clock < MaxClock /\ phase # "stopped"
        /\ clock' = clock + 1
        /\ UNCHANGED <<live, serves, status, phase, owner, catalog, job, refresher, asOf,
                       dropped, changes>>

Refresh(t) == Enter(t) \/ Gather(t) \/ Refreshed(t) \/ RefreshFails(t)
Starting == \/ \E s \in Source : Connect(s)
            \/ Abort \/ Launch \/ Gather(Startup) \/ Register \/ Govern \/ StartupFails

Next == \/ Starting
        \/ \E t \in Task : Refresh(t)
        \/ \E s \in Source, tools \in SUBSET Tool : Changes(s, tools)
        \/ Tick

Spec == Init /\ [][Next]_vars

\* A source answers or its request times out, and the event loop resumes its tasks.
FairSpec == Spec /\ WF_vars(Starting) /\ \A t \in Task : WF_vars(Refresh(t))

--------------------------------------------------------------------------------
Job == [at : {"idle", "waiting", "listing"}, heard : SUBSET Source, out : SUBSET Tool,
        seen : SUBSET Tool, began : Nat, rev : Nat, told : Nat]

\* Types, and that a listing has a source to wait for (live_refresh.py, _mcp_cli.py).
TypeOK == /\ live \in BOOLEAN
          /\ serves \in [Source -> SUBSET Tool]
          /\ status \in [Source -> {"pending", "failed", "bare", "loaded"}]
          /\ phase \in {"connecting", "refreshing", "governing", "serving", "stopped"}
          /\ owner \in [Tool -> Source \cup {None}]
          /\ catalog \subseteq Tool
          /\ job \in [Actor -> Job]
          /\ \A a \in Actor : job[a].at = "listing" => Unheard(a) # {}
          /\ queue \in Seq(Task)
          /\ lock \in Task \cup {None}
          /\ starts \in Seq(0..clock) /\ window \in Seq(0..clock)
          /\ Len(window) <= PerWindow
          /\ asOf \in 0..changes /\ dropped \subseteq 0..changes /\ changes \in Nat /\ clock \in Nat

\* A tool the gateway serves is routed to an upstream that started, at every
\* instant: also while a listing is under way, and after one that failed half way.
Routable == \A t \in catalog : owner[t] \in Healthy

\* The listings of one session never lose the way to a tool.
ServedIsRoutable == TypeOK /\ Routable

\* A refresh never puts an older listing over a newer one, however many
\* notifications arrive while it awaits its sources.
NewestListingWins == [][asOf' >= asOf]_vars

\* A change of an upstream's tools is in the registered listing or on its way to
\* the next one, unless its notification came before the refresher was there, was
\* debounced or over the rate, or its refresh failed: none is lost because a
\* refresh is in flight while it arrives (make_message_handler, on_list_changed).
NoChangeForgotten == \A r \in 1..changes :
    \/ r <= asOf \/ r \in dropped
    \/ \E t \in Task : \/ job[t].at = "waiting" /\ job[t].told = r
                       \/ job[t].at = "listing" /\ r <= job[t].rev

\* Refreshes that succeed begin at least debounce_seconds apart, and no window
\* of 60 seconds sees more than max_refreshes_per_minute of them begin.
RefreshesSpaced ==
    \A i \in 1..Len(starts) :
        /\ i < Len(starts) => starts[i + 1] - starts[i] >= Debounce
        /\ i + PerWindow <= Len(starts) => starts[i + PerWindow] - starts[i] >= Window

\* Every notification that was scheduled is handled: wait_idle returns.
TasksEnd == \A t \in Task : job[t].at # "idle" ~> job[t].at = "idle"

\* "Return the union of tool defs across all sources" (mcp_upstream.py:146): a
\* listing returns what its sources answered.
ListingIsUnion == \A a \in Actor : job[a].out = job[a].seen
================================================================================
