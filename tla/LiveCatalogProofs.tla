--------------------------- MODULE LiveCatalogProofs ---------------------------
(***************************************************************************)
(* What a live gateway guarantees for any upstreams, tools, tasks and policy. *)
(* A name keeps the owner it was given, and owners are upstreams that started  *)
(* (Routed); the refresher's lock and the phase leave one listing at a time    *)
(* (Alone), so none that is under way is older than the registered one         *)
(* (Current), and the deque stays the tail of the successful refreshes         *)
(* (Spaced).                                                                 *)
(***************************************************************************)
EXTENDS LiveCatalog, SequenceTheorems, FiniteSetTheorems, TLAPS

\* The numbers a job carries are of the past.
Past == \A a \in Actor : /\ job[a].told \in 0..changes
                         /\ job[a].rev \in 0..changes
                         /\ job[a].began \in 0..clock

Routed == /\ \A t \in Tool : owner[t] # None => owner[t] \in Healthy
          /\ \A t \in catalog : owner[t] # None
          /\ \A a \in Actor : \A t \in job[a].out : owner[t] # None

\* Who may be listing, and when.
Alone == /\ job[Startup].at = "listing" => phase \in {"refreshing", "governing"}
         /\ \A t \in Task : job[t].at # "idle" => phase = "serving"
         /\ \A t \in Task : job[t].at = "listing" => lock = t
         /\ queue # <<>> => phase = "serving"
         /\ phase \in {"refreshing", "governing", "serving"} => Healthy # {}

Current == \A a \in Actor : job[a].at = "listing" => asOf <= job[a].rev

TypeInv == TypeOK /\ Past /\ Alone

--------------------------------------------------------------------------------
(* The jobs *)

LEMMA Jobs ==
    ASSUME NEW c \in Nat, NEW n \in Nat
    PROVE  /\ NoJob \in Job /\ NoJob.at = "idle" /\ NoJob.out = {} /\ NoJob.heard = {}
           /\ NoJob.told = 0 /\ NoJob.rev = 0 /\ NoJob.began = 0
           /\ clock = c /\ changes = n =>
                /\ Listing \in Job /\ Listing.at = "listing" /\ Listing.out = {}
                /\ Listing.heard = {} /\ Listing.told = 0 /\ Listing.rev = n /\ Listing.began = c
  BY DEF NoJob, Listing, Job

\* One actor's job changes, and the others' stay.
LEMMA OneJob ==
    ASSUME job \in [Actor -> Job], NEW a \in Actor, NEW r \in Job, job' = [job EXCEPT ![a] = r]
    PROVE  /\ job' \in [Actor -> Job] /\ job'[a] = r
           /\ \A b \in Actor \ {a} : job'[b] = job[b]
  OBVIOUS

\* An answer that is not the last one.
LEMMA GatherJob ==
    ASSUME TypeOK, NEW a \in Actor, NEW s \in Source, s \in Unheard(a),
           job' = [job EXCEPT ![a].heard = @ \cup {s}, ![a].out = Out(a, s),
                              ![a].seen = @ \cup serves[s]]
    PROVE  /\ job' \in [Actor -> Job]
           /\ job'[a].at = job[a].at /\ job'[a].heard = job[a].heard \cup {s}
           /\ job'[a].out = Out(a, s) /\ job'[a].began = job[a].began
           /\ job'[a].rev = job[a].rev /\ job'[a].told = job[a].told
           /\ \A b \in Actor \ {a} : job'[b] = job[b]
<1>1. job \in [Actor -> Job] /\ job[a] \in Job /\ serves[s] \in SUBSET Tool
  BY DEF TypeOK
<1> DEFINE r == [job[a] EXCEPT !.heard = @ \cup {s}, !.out = Out(a, s), !.seen = @ \cup serves[s]]
<1>2. Out(a, s) \in SUBSET Tool
  BY <1>1 DEF Out, New, Job
<1>3. r \in Job
  BY <1>1, <1>2 DEF Job
<1>4. /\ r.at = job[a].at /\ r.heard = job[a].heard \cup {s} /\ r.out = Out(a, s)
      /\ r.began = job[a].began /\ r.rev = job[a].rev /\ r.told = job[a].told
  BY <1>1 DEF Job
<1>5. job' = [job EXCEPT ![a] = r]
  BY <1>1
<1> HIDE DEF r
<1> QED  BY <1>1, <1>3, <1>4, <1>5, OneJob

\* Names find an owner and keep it.
LEMMA OwnFacts ==
    ASSUME TypeOK, NEW a \in Actor, NEW s \in Source, owner' = Own(a, s)
    PROVE  /\ owner' \in [Tool -> Source \cup {None}]
           /\ \A t \in Tool : owner[t] # None => owner'[t] = owner[t]
           /\ \A t \in Tool : owner[t] = None => owner'[t] \in {None, s}
           /\ \A t \in New(s) : owner'[t] = s
           /\ New(s) \subseteq Tool /\ s # None
<1>1. New(s) \subseteq Tool /\ \A t \in New(s) : owner[t] = None
  BY DEF New, TypeOK
<1>2. s # None
  BY ActorAssumption
<1> QED  BY <1>1, <1>2 DEF Own, TypeOK

--------------------------------------------------------------------------------
(* Types, and one listing at a time *)

LEMMA InitTypes == Init => TypeInv
<1> SUFFICES ASSUME Init PROVE TypeInv
  OBVIOUS
<1>1. NoJob \in Job /\ NoJob.at = "idle" /\ NoJob.told = 0 /\ NoJob.rev = 0 /\ NoJob.began = 0
  BY Jobs
<1>2. \A a \in Actor : job[a] = NoJob
  BY DEF Init
<1>3. TypeOK
  BY <1>1, LimitAssumption DEF Init, TypeOK
<1> QED  BY <1>1, <1>2, <1>3 DEF Init, TypeInv, Past, Alone, Actor

\* The world outside the gateway, and the upstreams that have started.
Onward == /\ live' \in BOOLEAN /\ serves' \in [Source -> SUBSET Tool]
          /\ status' \in [Source -> {"pending", "failed", "bare", "loaded"}]
          /\ changes' \in Nat /\ clock' \in Nat /\ changes <= changes' /\ clock <= clock'
          /\ changes \in Nat /\ clock \in Nat
          /\ Healthy \subseteq Healthy'
          /\ phase # "connecting" => UNCHANGED status

LEMMA Outside == TypeInv /\ Next => Onward
<1> SUFFICES ASSUME TypeInv, Next PROVE Onward
  OBVIOUS
<1>0. /\ live \in BOOLEAN /\ serves \in [Source -> SUBSET Tool]
      /\ status \in [Source -> {"pending", "failed", "bare", "loaded"}]
      /\ changes \in Nat /\ clock \in Nat
  BY DEF TypeInv, TypeOK
<1>1. ASSUME UNCHANGED <<world, status>> PROVE Onward
  BY <1>0, <1>1 DEF world, Healthy, Onward
<1>2. ASSUME NEW s \in Source, Connect(s) PROVE Onward
  <2>1. /\ UNCHANGED world /\ phase = "connecting" /\ status[s] = "pending"
        /\ \A r \in Source \ {s} : status'[r] = status[r]
        /\ status' \in [Source -> {"pending", "failed", "bare", "loaded"}]
    BY <1>0, <1>2 DEF Connect
  <2>2. Healthy \subseteq Healthy'
    BY <2>1 DEF Healthy
  <2> QED  BY <1>0, <2>1, <2>2 DEF world, Onward
<1>3. CASE Abort \/ Launch \/ Register \/ Govern \/ StartupFails
  <2>1. UNCHANGED <<world, status>>
    BY <1>3 DEF Abort, Launch, Register, Govern, StartupFails
  <2> QED  BY <1>1, <2>1
<1>4. ASSUME NEW a \in Actor, Gather(a) \/ Enter(a) \/ Refreshed(a) \/ RefreshFails(a) PROVE Onward
  <2>1. UNCHANGED <<world, status>>
    BY <1>4 DEF Gather, Enter, Refreshed, RefreshFails
  <2> QED  BY <1>1, <2>1
<1>5. ASSUME NEW s \in Source, NEW tools \in SUBSET Tool, Changes(s, tools) PROVE Onward
  <2>1. /\ UNCHANGED <<live, status, clock>> /\ changes' = changes + 1
        /\ serves' = [serves EXCEPT ![s] = tools]
    BY <1>5 DEF Changes
  <2> QED  BY <1>0, <2>1 DEF Healthy, Onward
<1>6. CASE Tick
  <2>1. UNCHANGED <<live, serves, status, changes>> /\ clock' = clock + 1
    BY <1>6 DEF Tick
  <2> QED  BY <1>0, <2>1 DEF Healthy, Onward
<1> QED  BY <1>2, <1>3, <1>4, <1>5, <1>6 DEF Next, Starting, Refresh, Actor

JobsFine == /\ job \in [Actor -> Job]
            /\ Past
            /\ \A a \in Actor : job[a].at = "listing" => Healthy \ job[a].heard # {}

LEMMA JobsAreFine == TypeInv => JobsFine
  BY DEF TypeInv, TypeOK, JobsFine, Unheard

\* Jobs that stay as they are stay fine.
LEMMA SameJobs == ASSUME TypeInv, Onward, UNCHANGED job PROVE JobsFine'
<1>1. JobsFine
  BY JobsAreFine
<1> QED  BY <1>1 DEF JobsFine, Past, Onward

\* So do the others when one changes.
LEMMA JobStep ==
    ASSUME TypeInv, Onward, NEW a \in Actor, job' \in [Actor -> Job],
           \A b \in Actor \ {a} : job'[b] = job[b],
           job'[a].told \in 0..changes', job'[a].rev \in 0..changes',
           job'[a].began \in 0..clock',
           job'[a].at = "listing" => Healthy' \ job'[a].heard # {}
    PROVE  JobsFine'
<1>1. JobsFine
  BY JobsAreFine
<1>2. \A b \in Actor : b = a \/ job'[b] = job[b]
  OBVIOUS
<1>3. Past'
  BY <1>1, <1>2 DEF JobsFine, Past, Onward
<1>4. \A b \in Actor : job'[b].at = "listing" => Healthy' \ job'[b].heard # {}
  BY <1>1, <1>2 DEF JobsFine, Onward
<1> QED  BY <1>3, <1>4 DEF JobsFine

\* A job that begins to list, one that ends, and one that hears a source.
LEMMA BeginsFine ==
    ASSUME TypeInv, Onward, NEW a \in Actor, NEW r \in Job, job' = [job EXCEPT ![a] = r],
           Healthy # {}, r.heard = {}, r.told \in 0..changes, r.rev \in 0..changes,
           r.began \in 0..clock
    PROVE  JobsFine' /\ job'[a] = r /\ \A b \in Actor \ {a} : job'[b] = job[b]
<1>1. job \in [Actor -> Job]
  BY DEF TypeInv, TypeOK
<1>2. job' \in [Actor -> Job] /\ job'[a] = r /\ \A b \in Actor \ {a} : job'[b] = job[b]
  BY <1>1
<1>3. /\ r.told \in 0..changes' /\ r.rev \in 0..changes' /\ r.began \in 0..clock'
      /\ Healthy' # {}
  BY DEF Onward
<1> QED  BY <1>2, <1>3, JobStep

LEMMA EndsFine ==
    ASSUME TypeInv, Onward, NEW a \in Actor, job' = [job EXCEPT ![a] = NoJob]
    PROVE  JobsFine' /\ job'[a] = NoJob /\ \A b \in Actor \ {a} : job'[b] = job[b]
<1>1. job \in [Actor -> Job]
  BY DEF TypeInv, TypeOK
<1>2. NoJob \in Job /\ NoJob.at = "idle" /\ NoJob.told = 0 /\ NoJob.rev = 0 /\ NoJob.began = 0
  BY Jobs
<1>3. job' \in [Actor -> Job] /\ job'[a] = NoJob /\ \A b \in Actor \ {a} : job'[b] = job[b]
  BY <1>1, <1>2
<1>4. 0 \in 0..changes' /\ 0 \in 0..clock'
  BY DEF Onward
<1> QED  BY <1>2, <1>3, <1>4, JobStep

LEMMA HearsFine ==
    ASSUME TypeInv, Onward, NEW a \in Actor, Gather(a)
    PROVE  /\ JobsFine' /\ UNCHANGED <<phase, catalog, refresher, asOf, dropped, world, status>>
           /\ \E s \in Healthy : owner' = Own(a, s) /\ job'[a].out = Out(a, s)
           /\ job[a].at = "listing" /\ job'[a].at = job[a].at /\ job'[a].rev = job[a].rev
           /\ job'[a].told = job[a].told /\ job'[a].began = job[a].began
           /\ \A b \in Actor \ {a} : job'[b] = job[b]
<1>1. PICK s \in Source :
        /\ Turn(a, s) /\ Unheard(a) # {s}
        /\ owner' = Own(a, s)
        /\ job' = [job EXCEPT ![a].heard = @ \cup {s}, ![a].out = Out(a, s),
                              ![a].seen = @ \cup serves[s]]
        /\ UNCHANGED <<status, phase, catalog, refresher, asOf, dropped, world>>
  BY DEF Gather
<1>2. job[a].at = "listing" /\ s \in Unheard(a) /\ s \in Healthy
  BY <1>1 DEF Turn, Unheard
<1>3. /\ job' \in [Actor -> Job]
      /\ job'[a].at = job[a].at /\ job'[a].heard = job[a].heard \cup {s}
      /\ job'[a].out = Out(a, s) /\ job'[a].began = job[a].began
      /\ job'[a].rev = job[a].rev /\ job'[a].told = job[a].told
      /\ \A b \in Actor \ {a} : job'[b] = job[b]
  BY <1>1, <1>2, GatherJob DEF TypeInv
<1>4. Healthy \ job'[a].heard # {}
  BY <1>1, <1>2, <1>3 DEF Unheard
<1>5. JobsFine'
  <2>1. /\ job[a].told \in 0..changes /\ job[a].rev \in 0..changes
        /\ job[a].began \in 0..clock
    BY DEF TypeInv, Past
  <2>2. /\ job'[a].told \in 0..changes' /\ job'[a].rev \in 0..changes'
        /\ job'[a].began \in 0..clock' /\ Healthy' \ job'[a].heard # {}
    BY <1>3, <1>4, <2>1 DEF Onward
  <2> QED  BY <1>3, <2>2, JobStep
<1> QED  BY <1>1, <1>2, <1>3, <1>5

\* The rest of the types, and what they need of the past.
Kept == /\ phase \in {"connecting", "refreshing", "governing", "serving", "stopped"}
        /\ owner \in [Tool -> Source \cup {None}]
        /\ catalog \subseteq Tool
        /\ queue \in Seq(Task)
        /\ lock \in Task \cup {None}
        /\ starts \in Seq(0..clock) /\ window \in Seq(0..clock)
        /\ Len(window) <= PerWindow
        /\ asOf \in 0..changes /\ dropped \subseteq 0..changes

LEMMA TypesSplit == TypeInv => Kept
  BY DEF TypeInv, TypeOK, Kept

LEMMA TypesJoin == ASSUME TypeInv, Onward, JobsFine', Kept', Alone' PROVE TypeInv'
  BY DEF Onward, JobsFine, Kept, TypeInv, TypeOK, Unheard

\* Time and changes only widen the ranges.
LEMMA Widen ==
    ASSUME TypeInv, Onward
    PROVE  /\ starts \in Seq(0..clock') /\ window \in Seq(0..clock')
           /\ asOf \in 0..changes' /\ dropped \subseteq 0..changes'
<1>1. 0..clock \subseteq 0..clock' /\ 0..changes \subseteq 0..changes'
  BY DEF Onward
<1>2. \A S, T : S \subseteq T => Seq(S) \subseteq Seq(T)
  OBVIOUS
<1> QED  BY <1>1, <1>2 DEF TypeInv, TypeOK

LEMMA StartsUp ==
    ASSUME TypeInv, Onward, Abort \/ Launch \/ StartupFails \/ \E s \in Source : Connect(s)
    PROVE  TypeInv'
<1> USE DEF refresher, world
<1>1. Kept /\ Kept'
  <2>1. UNCHANGED <<owner, catalog, queue, lock, starts, window, asOf, dropped, changes>>
    BY DEF Abort, Launch, StartupFails, Connect
  <2>2. phase' \in {"connecting", "refreshing", "governing", "serving", "stopped"}
    BY TypesSplit DEF Kept, Abort, Launch, StartupFails, Connect
  <2> QED  BY <2>1, <2>2, Widen, TypesSplit DEF Kept
<1>2. CASE \E s \in Source : Connect(s)
  <2>1. UNCHANGED <<phase, job, queue, lock>> /\ phase = "connecting"
    BY <1>2 DEF Connect
  <2>2. Alone'
    BY <2>1 DEF Alone, TypeInv
  <2> QED  BY <1>1, <2>1, <2>2, SameJobs, TypesJoin
<1>3. CASE Abort
  <2>1. UNCHANGED <<job, queue, lock>> /\ phase = "connecting" /\ phase' = "stopped"
    BY <1>3 DEF Abort, Connected
  <2>2. Alone'
    BY <2>1 DEF Alone, TypeInv
  <2> QED  BY <1>1, <2>1, <2>2, SameJobs, TypesJoin
<1>4. CASE Launch
  <2>1. /\ job' = [job EXCEPT ![Startup] = Listing] /\ phase = "connecting"
        /\ phase' = "refreshing" /\ UNCHANGED <<queue, lock, status>>
    BY <1>4 DEF Launch, Connected
  <2>2. Healthy # {}
    <3>1. ~(Cardinality(Healthy) < MinHealthy)
      BY <1>4 DEF Launch, Rejected
    <3> QED  BY <3>1, FS_EmptySet, PolicyAssumption
  <2>3. clock \in Nat /\ changes \in Nat
    BY DEF Onward
  <2>4. /\ Listing \in Job /\ Listing.heard = {} /\ Listing.told \in 0..changes
        /\ Listing.rev \in 0..changes /\ Listing.began \in 0..clock
    BY <2>3, Jobs
  <2>5. JobsFine' /\ \A b \in Actor \ {Startup} : job'[b] = job[b]
    BY <2>1, <2>2, <2>4, BeginsFine DEF Actor
  <2>6. Healthy' = Healthy
    BY <2>1 DEF Healthy
  <2>7. Alone'
    BY <2>1, <2>2, <2>5, <2>6, ActorAssumption DEF Alone, TypeInv, Actor
  <2> QED  BY <1>1, <2>5, <2>7, TypesJoin
<1>5. CASE StartupFails
  <2>1. /\ job[Startup].at = "listing" /\ job' = [job EXCEPT ![Startup] = NoJob]
        /\ phase' = "stopped" /\ UNCHANGED <<queue, lock>>
    BY <1>5 DEF StartupFails
  <2>2. /\ JobsFine' /\ job'[Startup] = NoJob
        /\ \A b \in Actor \ {Startup} : job'[b] = job[b]
    BY <2>1, EndsFine DEF Actor
  <2>3. phase \in {"refreshing", "governing"}
    BY <2>1 DEF Alone, TypeInv
  <2>4. Alone'
    BY <2>1, <2>2, <2>3, ActorAssumption, Jobs DEF Alone, TypeInv, Actor
  <2> QED  BY <1>1, <2>2, <2>4, TypesJoin
<1> QED  BY <1>2, <1>3, <1>4, <1>5

LEMMA GatherTypes == ASSUME TypeInv, Onward, NEW a \in Actor, Gather(a) PROVE TypeInv'
<1>1. PICK s \in Healthy : owner' = Own(a, s)
  BY HearsFine
<1>2. /\ JobsFine' /\ job[a].at = "listing" /\ job'[a].at = job[a].at
      /\ \A b \in Actor \ {a} : job'[b] = job[b]
      /\ UNCHANGED <<phase, catalog, queue, lock, starts, window, asOf, dropped, changes, status>>
  BY HearsFine DEF refresher, world
<1>3. s \in Source
  BY <1>1 DEF Healthy
<1>4. Kept'
  BY <1>1, <1>2, <1>3, OwnFacts, Widen, TypesSplit DEF Kept, TypeInv
<1>5. Healthy' = Healthy
  BY <1>2 DEF Healthy
<1>6. \A b \in Actor : job'[b].at = job[b].at
  BY <1>2
<1>7. Alone'
  BY <1>2, <1>5, <1>6 DEF Alone, TypeInv, Actor
<1> QED  BY <1>2, <1>4, <1>7, TypesJoin

\* What a listing has gathered when its last source answers.
LEMMA LastAnswer ==
    ASSUME TypeInv, NEW a \in Actor, NEW s \in Source, Gathered(a, s)
    PROVE  /\ job[a].at = "listing" /\ s \in Healthy /\ Out(a, s) \subseteq Tool
           /\ job[a].rev \in 0..changes /\ job[a].began \in 0..clock
           /\ job[a].told \in 0..changes /\ changes \in Nat /\ clock \in Nat
<1>1. job[a] \in Job /\ serves[s] \in SUBSET Tool /\ changes \in Nat /\ clock \in Nat
  BY DEF TypeInv, TypeOK
<1> QED  BY <1>1 DEF TypeInv, Past, Gathered, Turn, Unheard, Out, New, Job

LEMMA RegisterTypes == ASSUME TypeInv, Onward, Register PROVE TypeInv'
<1>1. PICK s \in Source :
        /\ phase = "refreshing" /\ Gathered(Startup, s)
        /\ owner' = Own(Startup, s) /\ catalog' = Out(Startup, s)
        /\ asOf' = job[Startup].rev /\ phase' = "governing"
        /\ job' = [job EXCEPT ![Startup] = Listing]
        /\ UNCHANGED <<queue, lock, starts, window, dropped, changes, clock, status>>
  BY DEF Register, refresher, world
<1>2. Startup \in Actor
  BY DEF Actor
<1>3. /\ s \in Healthy /\ Out(Startup, s) \subseteq Tool /\ job[Startup].rev \in 0..changes
      /\ changes \in Nat /\ clock \in Nat /\ job[Startup].at = "listing"
  BY <1>1, <1>2, LastAnswer
<1>4. Kept'
  BY <1>1, <1>2, <1>3, OwnFacts, Widen, TypesSplit DEF Kept, TypeInv
<1>5. /\ Listing \in Job /\ Listing.heard = {} /\ Listing.told \in 0..changes
      /\ Listing.rev \in 0..changes /\ Listing.began \in 0..clock
  BY <1>3, Jobs
<1>6. JobsFine' /\ \A b \in Actor \ {Startup} : job'[b] = job[b]
  BY <1>1, <1>2, <1>3, <1>5, BeginsFine
<1>7. Healthy' = Healthy
  BY <1>1 DEF Healthy
<1>8. Alone'
  BY <1>1, <1>3, <1>6, <1>7, ActorAssumption DEF Alone, TypeInv, Actor
<1> QED  BY <1>4, <1>6, <1>8, TypesJoin

LEMMA GovernTypes == ASSUME TypeInv, Onward, Govern PROVE TypeInv'
<1>1. PICK s \in Source :
        /\ phase = "governing" /\ Gathered(Startup, s)
        /\ owner' = Own(Startup, s) /\ catalog' = Governed(s)
        /\ asOf' \in {asOf, job[Startup].rev} /\ phase' \in {"serving", "stopped"}
        /\ job' = [job EXCEPT ![Startup] = NoJob]
        /\ UNCHANGED <<queue, lock, starts, window, dropped, changes, clock, status>>
  BY DEF Govern, refresher, world
<1>2. Startup \in Actor
  BY DEF Actor
<1>3. /\ s \in Healthy /\ Out(Startup, s) \subseteq Tool /\ job[Startup].rev \in 0..changes
      /\ job[Startup].at = "listing"
  BY <1>1, <1>2, LastAnswer
<1>4. Governed(s) \subseteq Tool
  BY <1>3, TypesSplit DEF Governed, Shown, Kept
<1>5. Kept'
  BY <1>1, <1>2, <1>3, <1>4, OwnFacts, Widen, TypesSplit DEF Kept, TypeInv
<1>6. /\ JobsFine' /\ job'[Startup] = NoJob /\ NoJob.at = "idle"
      /\ \A b \in Actor \ {Startup} : job'[b] = job[b]
  BY <1>1, <1>2, EndsFine, Jobs
<1>7. Healthy' = Healthy
  BY <1>1 DEF Healthy
<1>8. Alone'
  BY <1>1, <1>3, <1>6, <1>7, ActorAssumption DEF Alone, TypeInv, Actor
<1> QED  BY <1>5, <1>6, <1>8, TypesJoin

LEMMA RefreshFailsTypes == ASSUME TypeInv, Onward, NEW t \in Task, RefreshFails(t) PROVE TypeInv'
<1>1. /\ job[t].at = "listing" /\ job' = [job EXCEPT ![t] = NoJob] /\ lock' = None
      /\ dropped' = dropped \cup {job[t].told}
      /\ UNCHANGED <<phase, owner, catalog, queue, starts, window, asOf, changes, clock, status>>
  BY DEF RefreshFails, world
<1>2. t \in Actor /\ t # Startup
  BY ActorAssumption DEF Actor
<1>3. job[t].told \in 0..changes
  BY <1>2 DEF TypeInv, Past
<1>4. Kept'
  BY <1>1, <1>3, Widen, TypesSplit DEF Kept
<1>5. /\ JobsFine' /\ job'[t] = NoJob /\ NoJob.at = "idle"
      /\ \A b \in Actor \ {t} : job'[b] = job[b]
  BY <1>1, <1>2, EndsFine, Jobs
<1>6. Healthy' = Healthy
  BY <1>1 DEF Healthy
<1>7. lock = t
  BY <1>1 DEF TypeInv, Alone
<1>8. Alone'
  BY <1>1, <1>2, <1>5, <1>6, <1>7, ActorAssumption DEF Alone, TypeInv, Actor
<1> QED  BY <1>4, <1>5, <1>8, TypesJoin

\* A task that gets the lock: nothing is listing, and it is turned away or begins.
TurnedAway(t) == /\ job'[t] = NoJob /\ lock' = None
                 /\ dropped' = dropped \cup {job[t].told}
Begins(t) == /\ job'[t] \in Job /\ job'[t].at = "listing" /\ job'[t].out = {}
             /\ job'[t].told = job[t].told /\ job'[t].rev = changes /\ job'[t].began = clock
             /\ lock' = t /\ dropped' = dropped

LEMMA EnterFacts ==
    ASSUME TypeInv, Onward, NEW t \in Task, Enter(t)
    PROVE  /\ lock = None /\ queue # <<>> /\ queue' = Tail(queue) /\ JobsFine'
           /\ \A b \in Actor \ {t} : job'[b] = job[b]
           /\ UNCHANGED <<phase, owner, catalog, starts, asOf, changes, clock, status>>
           /\ \E n \in 0..Len(window) :
                 /\ Popped(n) /\ window' = IF Debounced THEN window ELSE Pruned(n)
                 /\ IF Limited(n) THEN TurnedAway(t) ELSE Begins(t)
<1>1. PICK n \in 0..Len(window) :
        /\ lock = None /\ queue # <<>> /\ Head(queue) = t /\ Popped(n)
        /\ queue' = Tail(queue)
        /\ window' = IF Debounced THEN window ELSE Pruned(n)
        /\ IF Limited(n)
           THEN /\ job' = [job EXCEPT ![t] = NoJob] /\ lock' = lock
                /\ dropped' = dropped \cup {job[t].told}
           ELSE /\ job' = [job EXCEPT ![t] = [Listing EXCEPT !.told = job[t].told]]
                /\ lock' = t /\ UNCHANGED dropped
        /\ UNCHANGED <<status, phase, owner, catalog, starts, asOf, world>>
  BY DEF Enter
<1>2. t \in Actor /\ UNCHANGED <<phase, owner, catalog, starts, asOf, changes, clock, status>>
  BY <1>1 DEF world, Actor
<1>3. CASE Limited(n)
  <2>1. job' = [job EXCEPT ![t] = NoJob] /\ lock' = lock /\ dropped' = dropped \cup {job[t].told}
    BY <1>1, <1>3
  <2>2. JobsFine' /\ job'[t] = NoJob /\ \A b \in Actor \ {t} : job'[b] = job[b]
    BY <1>2, <2>1, EndsFine
  <2>3. TurnedAway(t)
    BY <1>1, <2>1, <2>2 DEF TurnedAway
  <2> QED  BY <1>1, <1>2, <1>3, <2>2, <2>3
<1>4. CASE ~Limited(n)
  <2> DEFINE r == [Listing EXCEPT !.told = job[t].told]
  <2>1. job' = [job EXCEPT ![t] = r] /\ lock' = t /\ dropped' = dropped
    BY <1>1, <1>4
  <2>2. clock \in Nat /\ changes \in Nat /\ job[t].told \in 0..changes
    BY <1>2 DEF TypeInv, TypeOK, Past
  <2>3. /\ Listing \in Job /\ Listing.at = "listing" /\ Listing.out = {}
        /\ Listing.heard = {} /\ Listing.rev = changes /\ Listing.began = clock
    BY <2>2, Jobs
  <2>4. /\ r \in Job /\ r.at = "listing" /\ r.out = {} /\ r.heard = {} /\ r.rev = changes
        /\ r.began = clock /\ r.told = job[t].told
    BY <2>2, <2>3 DEF Job
  <2>5. Healthy # {}
    BY <1>1 DEF TypeInv, Alone
  <2> HIDE DEF r
  <2>6. r.told \in 0..changes /\ r.rev \in 0..changes /\ r.began \in 0..clock
    BY <2>2, <2>4
  <2>7. JobsFine' /\ job'[t] = r /\ \A b \in Actor \ {t} : job'[b] = job[b]
    BY <1>2, <2>1, <2>4, <2>5, <2>6, BeginsFine
  <2>8. Begins(t)
    BY <2>1, <2>4, <2>7 DEF Begins
  <2> QED  BY <1>1, <1>2, <1>4, <2>7, <2>8
<1> QED  BY <1>3, <1>4

\* What pruning leaves of the deque.
LEMMA PrunedFacts ==
    ASSUME TypeInv, NEW n \in 0..Len(window)
    PROVE  /\ Pruned(n) \in Seq(0..clock)
           /\ Len(Pruned(n)) = Len(window) - n
           /\ \A i \in 1..(Len(window) - n) : Pruned(n)[i] = window[n + i]
<1> DEFINE v == Pruned(n)
<1>1. window \in Seq(0..clock) /\ Len(window) \in Nat
  BY DEF TypeInv, TypeOK
<1>2. v \in Seq(0..clock)
  <2>1. n \in Nat /\ n + 1 \in Int /\ Len(window) \in Int
    BY <1>1
  <2>2. \A i \in (n + 1)..Len(window) : i \in 1..Len(window)
    BY <1>1, <2>1
  <2>3. \A i \in (n + 1)..Len(window) : window[i] \in 0..clock
    BY <1>1, <2>2, ElementOfSeq
  <2>4. SubSeq(window, n + 1, Len(window)) \in Seq(0..clock)
    BY <2>1, <2>3, SubSeqProperties
  <2> QED  BY <2>4 DEF Pruned
<1>3. Len(v) = Len(window) - n /\ \A i \in 1..Len(v) : v[i] = window[n + i]
  BY <1>1 DEF Pruned
<1> QED  BY <1>2, <1>3

LEMMA EnterTypes == ASSUME TypeInv, Onward, NEW t \in Task, Enter(t) PROVE TypeInv'
<1>1. PICK n \in 0..Len(window) :
        /\ window' = IF Debounced THEN window ELSE Pruned(n)
        /\ IF Limited(n) THEN TurnedAway(t) ELSE Begins(t)
  BY EnterFacts
<1>2. /\ lock = None /\ queue # <<>> /\ queue' = Tail(queue) /\ JobsFine'
      /\ \A b \in Actor \ {t} : job'[b] = job[b]
      /\ UNCHANGED <<phase, owner, catalog, starts, asOf, changes, clock, status>>
  BY EnterFacts
<1>3. t \in Actor /\ t # Startup /\ job[t].told \in 0..changes
  BY ActorAssumption DEF Actor, TypeInv, Past
<1>4. Tail(queue) \in Seq(Task) /\ phase = "serving"
  BY <1>2 DEF TypeInv, TypeOK, Alone
<1>5. window' \in Seq(0..clock') /\ Len(window') <= PerWindow
  BY <1>1, <1>2, PrunedFacts, Widen, LimitAssumption DEF TypeInv, TypeOK
<1>6. lock' \in Task \cup {None} /\ dropped' \subseteq 0..changes
  BY <1>1, <1>3, TypesSplit DEF TurnedAway, Begins, Kept
<1>7. Kept'
  BY <1>2, <1>4, <1>5, <1>6, Widen, TypesSplit DEF Kept
<1>8. Healthy' = Healthy
  BY <1>2 DEF Healthy
<1>9. job'[t].at = "listing" => lock' = t
  BY <1>1, Jobs DEF TurnedAway, Begins
<1>10. \A u \in Task \ {t} : job[u].at # "listing"
  BY <1>2, ActorAssumption DEF TypeInv, Alone, Actor
<1>11. Alone'
  BY <1>2, <1>3, <1>4, <1>8, <1>9, <1>10 DEF Alone, TypeInv, Actor
<1> QED  BY <1>2, <1>7, <1>11, TypesJoin

LEMMA RefreshedTypes == ASSUME TypeInv, Onward, NEW t \in Task, Refreshed(t),
                               Len(window) < PerWindow PROVE TypeInv'
<1>1. PICK s \in Source :
        /\ Gathered(t, s) /\ owner' = Own(t, s) /\ catalog' = Out(t, s)
        /\ asOf' = job[t].rev
        /\ starts' = Append(starts, job[t].began) /\ window' = Append(window, job[t].began)
        /\ job' = [job EXCEPT ![t] = NoJob] /\ lock' = None
        /\ UNCHANGED <<phase, queue, dropped, changes, clock, status>>
  BY DEF Refreshed, world
<1>2. t \in Actor /\ t # Startup
  BY ActorAssumption DEF Actor
<1>3. /\ s \in Healthy /\ Out(t, s) \subseteq Tool /\ job[t].rev \in 0..changes
      /\ job[t].began \in 0..clock /\ job[t].at = "listing"
  BY <1>1, <1>2, LastAnswer
<1>4. starts' \in Seq(0..clock) /\ window' \in Seq(0..clock) /\ Len(window') <= PerWindow
  <2>1. starts \in Seq(0..clock) /\ window \in Seq(0..clock)
    BY DEF TypeInv, TypeOK
  <2> QED  BY <1>1, <1>3, <2>1, LimitAssumption
<1>5. Kept'
  BY <1>1, <1>2, <1>3, <1>4, OwnFacts, Widen, TypesSplit DEF Kept, TypeInv
<1>6. /\ JobsFine' /\ job'[t] = NoJob /\ NoJob.at = "idle"
      /\ \A b \in Actor \ {t} : job'[b] = job[b]
  BY <1>1, <1>2, EndsFine, Jobs
<1>7. Healthy' = Healthy
  BY <1>1 DEF Healthy
<1>8. lock = t
  BY <1>3 DEF TypeInv, Alone
<1>9. Alone'
  BY <1>1, <1>2, <1>6, <1>7, <1>8 DEF Alone, TypeInv, Actor
<1> QED  BY <1>5, <1>6, <1>9, TypesJoin

\* A change is either scheduled for a task that was idle, or it comes to nothing.
Scheduled(t) == /\ phase = "serving" /\ job[t].at = "idle"
                /\ job'[t].at = "waiting" /\ job'[t].out = {} /\ job'[t].told = changes'
                /\ queue' = Append(queue, t) /\ UNCHANGED dropped
                /\ \A b \in Actor \ {t} : job'[b] = job[b]

LEMMA ChangesFacts ==
    ASSUME TypeInv, Onward, NEW s \in Source, NEW tools \in SUBSET Tool, Changes(s, tools)
    PROVE  /\ JobsFine' /\ changes' = changes + 1
           /\ UNCHANGED <<status, phase, owner, catalog, lock, starts, window, asOf, clock>>
           /\ \/ \E t \in Task : Scheduled(t)
              \/ dropped' = dropped \cup {changes'} /\ UNCHANGED <<job, queue>>
<1>1. /\ changes' = changes + 1
      /\ UNCHANGED <<status, phase, owner, catalog, lock, starts, window, asOf, clock>>
      /\ IF Heard(s)
         THEN Schedule(changes') /\ UNCHANGED dropped
         ELSE dropped' = dropped \cup {changes'} /\ UNCHANGED <<job, queue>>
  BY DEF Changes
<1>2. CASE Heard(s)
  <2>1. PICK t \in Task :
          /\ job[t].at = "idle"
          /\ job' = [job EXCEPT ![t] = [NoJob EXCEPT !.at = "waiting", !.told = changes']]
          /\ queue' = Append(queue, t)
    BY <1>1, <1>2 DEF Schedule
  <2> DEFINE r == [NoJob EXCEPT !.at = "waiting", !.told = changes']
  <2>2. changes' \in Nat /\ clock' \in Nat /\ job \in [Actor -> Job]
    BY DEF Onward, TypeInv, TypeOK
  <2>3. /\ r \in Job /\ r.at = "waiting" /\ r.told = changes' /\ r.rev = 0 /\ r.began = 0
        /\ r.out = {}
    BY <2>2 DEF NoJob, Job
  <2> HIDE DEF r
  <2>4. t \in Actor /\ job' = [job EXCEPT ![t] = r]
    BY <2>1 DEF r, Actor
  <2>5. job' \in [Actor -> Job] /\ job'[t] = r /\ \A b \in Actor \ {t} : job'[b] = job[b]
    BY <2>2, <2>3, <2>4
  <2>6. JobsFine'
    BY <2>2, <2>3, <2>4, <2>5, JobStep
  <2>7. Scheduled(t)
    BY <1>1, <1>2, <2>1, <2>3, <2>5 DEF Scheduled, Heard
  <2> QED  BY <1>1, <2>6, <2>7
<1>3. CASE ~Heard(s)
  BY <1>1, <1>3, SameJobs
<1> QED  BY <1>2, <1>3

LEMMA ChangesTypes ==
    ASSUME TypeInv, Onward, NEW s \in Source, NEW tools \in SUBSET Tool, Changes(s, tools)
    PROVE  TypeInv'
<1>1. /\ JobsFine' /\ changes' = changes + 1
      /\ UNCHANGED <<status, phase, owner, catalog, lock, starts, window, asOf, clock>>
  BY ChangesFacts
<1>2. Healthy' = Healthy /\ changes \in Nat /\ queue \in Seq(Task)
  BY <1>1 DEF Healthy, TypeInv, TypeOK
<1>3. CASE \E t \in Task : Scheduled(t)
  <2>1. PICK t \in Task : Scheduled(t)
    BY <1>3
  <2>2. queue' \in Seq(Task)
    BY <1>2, <2>1 DEF Scheduled
  <2>3. Kept'
    BY <1>1, <2>1, <2>2, Widen, TypesSplit DEF Kept, Scheduled
  <2>4. t \in Actor /\ t # Startup
    BY ActorAssumption DEF Actor
  <2>5. Alone'
    BY <1>1, <1>2, <2>1, <2>4 DEF Alone, TypeInv, Scheduled, Actor
  <2> QED  BY <1>1, <2>3, <2>5, TypesJoin
<1>4. CASE dropped' = dropped \cup {changes'} /\ UNCHANGED <<job, queue>>
  <2>1. Kept'
    BY <1>1, <1>2, <1>4, Widen, TypesSplit DEF Kept
  <2>2. Alone'
    BY <1>1, <1>2, <1>4 DEF Alone, TypeInv
  <2> QED  BY <1>1, <2>1, <2>2, TypesJoin
<1> QED  BY <1>3, <1>4, ChangesFacts

LEMMA QuietTypes ==
    ASSUME TypeInv, Onward, UNCHANGED <<status, phase, owner, catalog, job, queue, lock, starts,
                                        window, asOf, dropped>>
    PROVE  TypeInv'
<1>1. Kept'
  BY Widen, TypesSplit DEF Kept
<1>2. Alone'
  BY DEF Alone, TypeInv, Healthy
<1> QED  BY <1>1, <1>2, SameJobs, TypesJoin

--------------------------------------------------------------------------------
(* The deque of the rate limit *)

\* The successful refreshes that have been popped from the deque.
Gone == Len(starts) - Len(window)

\* The deque is the tail of the refreshes that succeeded, and what was popped in
\* front of it is a window old.
Tail60 == /\ Len(window) <= Len(starts)
          /\ \A i \in 1..Len(window) : window[i] = starts[Gone + i]
          /\ \A i \in 1..Gone : clock - starts[i] >= Window

\* A task that lists has passed the limits, and nobody has refreshed since.
Passed == \A t \in Task : job[t].at = "listing" =>
              /\ Len(window) < PerWindow
              /\ starts # <<>> => job[t].began - starts[Len(starts)] >= Debounce
              /\ \A i \in 1..Gone : job[t].began - starts[i] >= Window

Spaced == Tail60 /\ Passed /\ RefreshesSpaced

Lists == /\ starts \in Seq(0..clock) /\ window \in Seq(0..clock)
         /\ Len(starts) \in Nat /\ Len(window) \in Nat /\ clock \in Nat
         /\ \A i \in 1..Len(starts) : starts[i] \in Nat

LEMMA ListsHold == TypeInv => Lists
  BY DEF TypeInv, TypeOK, Lists

LEMMA InitSpaced == Init => Spaced
<1> SUFFICES ASSUME Init PROVE Spaced
  OBVIOUS
<1>1. starts = <<>> /\ window = <<>> /\ \A t \in Task : job[t].at = "idle"
  BY DEF Init, NoJob, Actor
<1> QED  BY <1>1 DEF Spaced, Tail60, Passed, RefreshesSpaced, Gone

\* Time passes; a listing that was not under way does not begin.
LEMMA SameSpaced ==
    ASSUME TypeInv, Onward, Spaced, UNCHANGED <<starts, window>>,
           \A t \in Task : job'[t].at = "listing" =>
               job[t].at = "listing" /\ job'[t].began = job[t].began
    PROVE  Spaced'
<1>1. Lists
  BY ListsHold
<1>2. Gone' = Gone /\ RefreshesSpaced'
  BY DEF Gone, Spaced, RefreshesSpaced
<1>3. Tail60'
  <2>1. \A i \in 1..Gone : clock' - starts[i] >= Window
    <3> SUFFICES ASSUME NEW i \in 1..Gone PROVE clock' - starts[i] >= Window
      OBVIOUS
    <3>1. clock - starts[i] >= Window
      BY DEF Spaced, Tail60
    <3>2. i \in 1..Len(starts)
      BY <1>1 DEF Spaced, Tail60, Gone, Lists
    <3>3. starts[i] \in Nat /\ clock \in Nat /\ clock' \in Nat /\ clock <= clock' /\ Window \in Nat
      BY <1>1, <3>2, LimitAssumption DEF Lists, Onward
    <3> QED  BY <3>1, <3>3
  <2> QED  BY <1>2, <2>1 DEF Spaced, Tail60
<1>4. Passed'
  BY <1>2 DEF Spaced, Passed
<1> QED  BY <1>2, <1>3, <1>4 DEF Spaced

\* A task that gets the lock pops what is old, and begins only within the limits.
LEMMA EnterSpaced == ASSUME TypeInv, Onward, Spaced, NEW t \in Task, Enter(t) PROVE Spaced'
<1>1. PICK n \in 0..Len(window) :
        /\ Popped(n) /\ window' = IF Debounced THEN window ELSE Pruned(n)
        /\ IF Limited(n) THEN TurnedAway(t) ELSE Begins(t)
  BY EnterFacts
<1>2. /\ lock = None /\ UNCHANGED <<starts, clock>>
      /\ \A b \in Actor \ {t} : job'[b] = job[b]
  BY EnterFacts
<1>3. \A u \in Task : job[u].at # "listing" /\ u \in Actor
  BY <1>2, ActorAssumption DEF TypeInv, Alone, Actor
<1>4. Lists
  BY ListsHold
<1>5. CASE Debounced
  <2>1. job'[t] = NoJob /\ NoJob.at = "idle" /\ UNCHANGED window
    BY <1>1, <1>5, Jobs DEF Limited, TurnedAway
  <2>2. \A u \in Task : job'[u].at # "listing"
    BY <1>2, <1>3, <2>1
  <2> QED  BY <1>2, <2>1, <2>2, SameSpaced
<1>6. CASE ~Debounced
  <2> DEFINE v == Pruned(n)
  <2>1. /\ window' = v /\ Len(v) = Len(window) - n
        /\ \A i \in 1..(Len(window) - n) : v[i] = window[n + i]
    BY <1>1, <1>6, PrunedFacts
  <2> HIDE DEF v
  <2>2. n \in Nat /\ n <= Len(window) /\ Gone \in Nat /\ Gone = Len(starts) - Len(window)
    BY <1>4 DEF Lists, Spaced, Tail60, Gone
  <2>3. Gone' = Gone + n /\ Len(v) \in Nat
    BY <1>2, <1>4, <2>1, <2>2 DEF Gone, Lists
  <2>4. ASSUME NEW i \in 1..Len(v) PROVE v[i] = starts[(Gone + n) + i]
    <3>1. n + i \in 1..Len(window) /\ Gone + (n + i) = (Gone + n) + i
      BY <1>4, <2>1, <2>2 DEF Lists
    <3>2. window[n + i] = starts[Gone + (n + i)]
      BY <3>1 DEF Spaced, Tail60
    <3>3. v[i] = window[n + i]
      BY <2>1
    <3> QED  BY <3>1, <3>2, <3>3
  <2>5. ASSUME NEW i \in 1..(Gone + n) PROVE clock - starts[i] >= Window
    <3>1. CASE i <= Gone
      <4>1. i \in 1..Gone
        BY <2>2, <3>1
      <4> QED  BY <4>1 DEF Spaced, Tail60
    <3>2. CASE i > Gone
      <4> DEFINE k == i - Gone
      <4>1. k \in 1..n /\ k \in 1..Len(window) /\ Gone + k = i
        BY <2>2, <3>2, <1>4 DEF Lists
      <4> HIDE DEF k
      <4>2. window[k] = starts[i]
        BY <4>1 DEF Spaced, Tail60
      <4>3. clock - window[k] >= Window
        BY <1>1, <4>1 DEF Popped, Stale
      <4> QED  BY <4>2, <4>3
    <3> QED  BY <2>2, <3>1, <3>2
  <2>6. Tail60'
    <3>1. Len(window') <= Len(starts') /\ clock' = clock /\ starts' = starts
      BY <1>2, <1>4, <2>1, <2>2 DEF Lists
    <3> QED  BY <2>1, <2>3, <2>4, <2>5, <3>1 DEF Tail60
  <2>7. ASSUME NEW u \in Task, job'[u].at = "listing" PROVE
          /\ Len(v) < PerWindow
          /\ starts # <<>> => job'[u].began - starts[Len(starts)] >= Debounce
          /\ \A i \in 1..(Gone + n) : job'[u].began - starts[i] >= Window
    <3>1. u = t
      BY <1>2, <1>3, <2>7
    <3>2. ~Limited(n) /\ job'[u].began = clock
      BY <1>1, <2>7, <3>1, Jobs DEF TurnedAway, Begins
    <3>3. Len(v) < PerWindow /\ (starts # <<>> => ~(clock - starts[Len(starts)] < Debounce))
      BY <1>4, <2>1, <2>3, <3>2, LimitAssumption DEF Limited, Debounced, Last, v, Lists
    <3>4. starts # <<>> => clock - starts[Len(starts)] >= Debounce
      <4>1. starts # <<>> => Len(starts) \in 1..Len(starts)
        BY <1>4 DEF Lists
      <4>2. starts # <<>> => starts[Len(starts)] \in Nat /\ clock \in Nat
        BY <1>4, <4>1 DEF Lists
      <4> QED  BY <3>3, <4>2, LimitAssumption
    <3> QED  BY <2>5, <3>2, <3>3, <3>4
  <2>8. Passed'
    BY <1>2, <2>1, <2>3, <2>7 DEF Passed
  <2>9. RefreshesSpaced'
    BY <1>2 DEF Spaced, RefreshesSpaced
  <2> QED  BY <2>6, <2>8, <2>9 DEF Spaced
<1> QED  BY <1>5, <1>6

\* A refresh that succeeds is far enough from those before it.
LEMMA RefreshedSpaced ==
    ASSUME TypeInv, Onward, Spaced, NEW t \in Task, Refreshed(t)
    PROVE  Spaced' /\ Len(window) < PerWindow
<1> DEFINE b == job[t].began  L == Len(starts)
<1>1. PICK s \in Source :
        /\ Gathered(t, s) /\ starts' = Append(starts, b) /\ window' = Append(window, b)
        /\ job' = [job EXCEPT ![t] = NoJob] /\ UNCHANGED clock
  BY DEF Refreshed, world
<1>2. t \in Actor
  BY DEF Actor
<1>3. job[t].at = "listing" /\ b \in 0..clock /\ clock \in Nat
  BY <1>1, <1>2, LastAnswer
<1>4. /\ Len(window) < PerWindow
      /\ starts # <<>> => b - starts[L] >= Debounce
      /\ \A i \in 1..Gone : b - starts[i] >= Window
  BY <1>3 DEF Spaced, Passed
<1>5. Lists
  BY ListsHold
<1> HIDE DEF b
<1>6. /\ Len(starts') = L + 1 /\ starts'[L + 1] = b /\ \A i \in 1..L : starts'[i] = starts[i]
      /\ Len(window') = Len(window) + 1 /\ window'[Len(window) + 1] = b
      /\ \A i \in 1..Len(window) : window'[i] = window[i]
      /\ L \in Nat /\ Len(window) \in Nat /\ b \in Nat
  BY <1>1, <1>3, <1>5 DEF Lists
<1> HIDE DEF L
<1>7. Gone' = Gone /\ Gone = L - Len(window) /\ Gone \in Nat /\ Len(window) <= L
  BY <1>6 DEF Gone, L, Spaced, Tail60
<1>8. Tail60'
  <2>1. ASSUME NEW i \in 1..(Len(window) + 1) PROVE window'[i] = starts'[Gone + i]
    <3>1. CASE i \in 1..Len(window)
      <4>1. Gone + i \in 1..L
        BY <1>6, <1>7, <3>1
      <4>2. window[i] = starts[Gone + i]
        BY <3>1 DEF Spaced, Tail60
      <4> QED  BY <1>6, <3>1, <4>1, <4>2
    <3>2. CASE i = Len(window) + 1
      <4>1. Gone + i = L + 1
        BY <1>6, <1>7, <3>2
      <4> QED  BY <1>6, <3>2, <4>1
    <3> QED  BY <1>6, <3>1, <3>2
  <2>2. ASSUME NEW i \in 1..Gone PROVE clock - starts'[i] >= Window
    <3>1. i \in 1..L
      BY <1>6, <1>7
    <3>2. clock - starts[i] >= Window
      BY DEF Spaced, Tail60
    <3> QED  BY <1>6, <3>1, <3>2
  <2>3. Len(window') <= Len(starts') /\ clock' = clock
    BY <1>1, <1>6, <1>7
  <2> QED  BY <1>6, <1>7, <2>1, <2>2, <2>3 DEF Tail60
<1>9. Passed'
  <2>1. \A u \in Task : job'[u].at # "listing"
    <3>1. job'[t] = NoJob /\ \A u \in Task \ {t} : job'[u] = job[u]
      BY <1>1, <1>2 DEF TypeInv, TypeOK, Actor
    <3>2. \A u \in Task \ {t} : job[u].at # "listing"
      BY <1>3 DEF TypeInv, Alone
    <3> QED  BY <3>1, <3>2, Jobs
  <2> QED  BY <2>1 DEF Passed
<1>10. RefreshesSpaced'
  <2>0. \A i \in 1..L : starts[i] \in Nat
    BY <1>5 DEF Lists, L
  <2>1. ASSUME NEW i \in 1..(L + 1), i < L + 1 PROVE starts'[i + 1] - starts'[i] >= Debounce
    <3>1. CASE i < L
      <4>1. i \in 1..L /\ i + 1 \in 1..L
        BY <1>6, <3>1
      <4>2. starts[i + 1] - starts[i] >= Debounce
        BY <3>1, <4>1 DEF Spaced, RefreshesSpaced, L
      <4> QED  BY <1>6, <4>1, <4>2
    <3>2. CASE i = L
      <4>1. starts # <<>> /\ i \in 1..L
        BY <1>6, <3>2 DEF L
      <4> QED  BY <1>4, <1>6, <3>2, <4>1 DEF L
    <3> QED  BY <1>6, <2>1, <3>1, <3>2
  <2>2. ASSUME NEW i \in 1..(L + 1), i + PerWindow <= L + 1
        PROVE  starts'[i + PerWindow] - starts'[i] >= Window
    <3>0. PerWindow \in Nat \ {0}
      BY LimitAssumption
    <3>1. CASE i + PerWindow <= L
      <4>1. i \in 1..L /\ i + PerWindow \in 1..L
        BY <1>6, <3>0, <3>1
      <4>2. starts[i + PerWindow] - starts[i] >= Window
        BY <3>1, <4>1 DEF Spaced, RefreshesSpaced, L
      <4> QED  BY <1>6, <4>1, <4>2
    <3>2. CASE i + PerWindow = L + 1
      <4>1. i \in 1..Gone /\ i \in 1..L
        BY <1>4, <1>6, <1>7, <3>0, <3>2
      <4>2. b - starts[i] >= Window
        BY <1>4, <4>1
      <4> QED  BY <1>6, <3>2, <4>1, <4>2
    <3> QED  BY <1>6, <2>2, <3>0, <3>1, <3>2
  <2> QED  BY <1>6, <2>1, <2>2 DEF RefreshesSpaced
<1> QED  BY <1>4, <1>8, <1>9, <1>10 DEF Spaced

--------------------------------------------------------------------------------
(* Owners *)

\* Names keep their owners, new ones go to an upstream that started, and what is
\* gathered and served is owned.
Grows == /\ \A t \in Tool : owner[t] # None => owner'[t] = owner[t]
         /\ \A t \in Tool : owner[t] = None => owner'[t] \in Healthy \cup {None}
         /\ \A t \in catalog' : t \in catalog \/ owner'[t] # None
         /\ \A a \in Actor : \A t \in job'[a].out : t \in job[a].out \/ owner'[t] # None

LEMMA RoutedGrows == ASSUME TypeInv, Onward, Routed, Grows, TypeInv' PROVE Routed'
<1>1. catalog' \subseteq Tool /\ job' \in [Actor -> Job]
  BY DEF TypeInv, TypeOK
<1>2. \A a \in Actor : job'[a].out \subseteq Tool
  BY <1>1 DEF Job
<1>3. \A t \in Tool : owner'[t] # None => owner'[t] \in Healthy'
  BY DEF Routed, Grows, Onward
<1>4. \A t \in catalog' : owner'[t] # None
  BY <1>1 DEF Routed, Grows
<1>5. \A a \in Actor : \A t \in job'[a].out : owner'[t] # None
  BY <1>2 DEF Routed, Grows
<1> QED  BY <1>3, <1>4, <1>5 DEF Routed

\* One actor hears s; the catalog takes from what it gathered, its job from it too.
LEMMA Heard1 ==
    ASSUME TypeInv, Routed, NEW a \in Actor, NEW s \in Healthy, owner' = Own(a, s),
           catalog' \subseteq Out(a, s) \cup catalog, job'[a].out \subseteq Out(a, s),
           \A b \in Actor \ {a} : job'[b] = job[b]
    PROVE  Grows
<1>1. s \in Source
  BY DEF Healthy
<1>2. /\ \A t \in Tool : owner[t] # None => owner'[t] = owner[t]
      /\ \A t \in Tool : owner[t] = None => owner'[t] \in {None, s}
      /\ \A t \in New(s) : owner'[t] = s
      /\ New(s) \subseteq Tool /\ s # None
  BY <1>1, OwnFacts DEF TypeInv
<1>3. job[a].out \subseteq Tool /\ \A t \in job[a].out : owner[t] # None
  BY DEF TypeInv, TypeOK, Job, Routed
<1>4. \A t \in Out(a, s) : owner'[t] # None
  BY <1>2, <1>3 DEF Out
<1> QED  BY <1>2, <1>4 DEF Grows

\* Nobody hears anything.
LEMMA Deaf ==
    ASSUME UNCHANGED <<owner, catalog>>, \A a \in Actor : job'[a].out \in {job[a].out, {}}
    PROVE  Grows
  BY DEF Grows

LEMMA RoutedNext == ASSUME TypeInv, Onward, Routed, Next, TypeInv' PROVE Routed'
<1>0. job \in [Actor -> Job] /\ NoJob.out = {} /\ Startup \in Actor /\ Task \subseteq Actor
  BY Jobs DEF TypeInv, TypeOK, Actor
<1>a. Listing.out = {}
  BY Jobs DEF TypeInv, TypeOK
<1>1. CASE Abort \/ Tick \/ \E s \in Source : Connect(s)
  <2>1. UNCHANGED <<owner, catalog, job>>
    BY <1>1 DEF Abort, Tick, Connect
  <2> QED  BY <2>1, Deaf, RoutedGrows
<1>2. CASE Launch \/ StartupFails
  <2>1. /\ UNCHANGED <<owner, catalog>>
        /\ job' \in {[job EXCEPT ![Startup] = Listing], [job EXCEPT ![Startup] = NoJob]}
    BY <1>2 DEF Launch, StartupFails
  <2>2. \A a \in Actor : job'[a].out \in {job[a].out, {}}
    BY <1>0, <1>a, <2>1
  <2> QED  BY <2>1, <2>2, Deaf, RoutedGrows
<1>3. ASSUME NEW a \in Actor, Gather(a) PROVE Routed'
  <2>1. PICK s \in Healthy : owner' = Own(a, s) /\ job'[a].out = Out(a, s)
    BY <1>3, HearsFine
  <2>2. UNCHANGED catalog /\ \A b \in Actor \ {a} : job'[b] = job[b]
    BY <1>3, HearsFine
  <2>3. Grows
    BY <2>1, <2>2, Heard1
  <2> QED  BY <2>3, RoutedGrows
<1>4. CASE Register
  <2>1. PICK s \in Source :
          /\ Gathered(Startup, s) /\ owner' = Own(Startup, s) /\ catalog' = Out(Startup, s)
          /\ job' = [job EXCEPT ![Startup] = Listing]
    BY <1>4 DEF Register
  <2>2. s \in Healthy
    BY <1>0, <2>1, LastAnswer
  <2>3. job'[Startup].out = {} /\ \A b \in Actor \ {Startup} : job'[b] = job[b]
    BY <1>0, <1>a, <2>1
  <2>4. Grows
    BY <1>0, <2>1, <2>2, <2>3, Heard1
  <2> QED  BY <2>4, RoutedGrows
<1>5. CASE Govern
  <2>1. PICK s \in Source :
          /\ Gathered(Startup, s) /\ owner' = Own(Startup, s) /\ catalog' = Governed(s)
          /\ job' = [job EXCEPT ![Startup] = NoJob]
    BY <1>5 DEF Govern
  <2>2. s \in Healthy
    BY <1>0, <2>1, LastAnswer
  <2>3. job'[Startup].out = {} /\ \A b \in Actor \ {Startup} : job'[b] = job[b]
    BY <1>0, <2>1
  <2>4. catalog' \subseteq Out(Startup, s) \cup catalog
    BY <2>1 DEF Governed, Shown
  <2>5. Grows
    BY <1>0, <2>1, <2>2, <2>3, <2>4, Heard1
  <2> QED  BY <2>5, RoutedGrows
<1>6. ASSUME NEW t \in Task, Enter(t) PROVE Routed'
  <2>1. /\ \A b \in Actor \ {t} : job'[b] = job[b]
        /\ UNCHANGED <<owner, catalog>>
        /\ TurnedAway(t) \/ Begins(t)
    BY <1>6, EnterFacts
  <2>2. \A a \in Actor : job'[a].out \in {job[a].out, {}}
    BY <1>0, <2>1 DEF TurnedAway, Begins
  <2> QED  BY <2>1, <2>2, Deaf, RoutedGrows
<1>7. ASSUME NEW t \in Task, Refreshed(t) PROVE Routed'
  <2>1. PICK s \in Source :
          /\ Gathered(t, s) /\ owner' = Own(t, s) /\ catalog' = Out(t, s)
          /\ job' = [job EXCEPT ![t] = NoJob]
    BY <1>7 DEF Refreshed
  <2>2. s \in Healthy
    BY <1>0, <2>1, LastAnswer
  <2>3. job'[t].out = {} /\ \A b \in Actor \ {t} : job'[b] = job[b]
    BY <1>0, <2>1
  <2>4. Grows
    BY <1>0, <2>1, <2>2, <2>3, Heard1
  <2> QED  BY <2>4, RoutedGrows
<1>8. ASSUME NEW t \in Task, RefreshFails(t) PROVE Routed'
  <2>1. UNCHANGED <<owner, catalog>> /\ job' = [job EXCEPT ![t] = NoJob]
    BY <1>8 DEF RefreshFails
  <2>2. \A a \in Actor : job'[a].out \in {job[a].out, {}}
    BY <1>0, <2>1
  <2> QED  BY <2>1, <2>2, Deaf, RoutedGrows
<1>9. ASSUME NEW s \in Source, NEW tools \in SUBSET Tool, Changes(s, tools) PROVE Routed'
  <2>1. UNCHANGED <<owner, catalog>> /\ (UNCHANGED job \/ \E t \in Task : Scheduled(t))
    BY <1>9, ChangesFacts
  <2>2. \A a \in Actor : job'[a].out \in {job[a].out, {}}
    BY <1>0, <2>1 DEF Scheduled
  <2> QED  BY <2>1, <2>2, Deaf, RoutedGrows
<1> QED  BY <1>1, <1>2, <1>3, <1>4, <1>5, <1>6, <1>7, <1>8, <1>9
         DEF Next, Starting, Refresh, Actor

--------------------------------------------------------------------------------
(* Older and newer listings, and the changes between them *)

\* Every change is registered, given up, or known to the task it was scheduled for.
Knows(t, r) == /\ job[t].told = r
               /\ \/ job[t].at = "waiting"
                  \/ job[t].at = "listing" /\ r <= job[t].rev
Remembered == \A r \in 1..changes :
    r <= asOf \/ r \in dropped \/ \E t \in Task : Knows(t, r)

Ages == Current /\ Remembered

Numbers == /\ asOf \in 0..changes /\ changes \in Nat
           /\ \A a \in Actor : job[a].rev \in 0..changes /\ job[a].told \in 0..changes
           /\ job \in [Actor -> Job] /\ Startup \in Actor /\ Task \subseteq Actor

LEMMA NumbersHold == TypeInv => Numbers
  BY DEF TypeInv, TypeOK, Past, Numbers, Actor

LEMMA InitAges == Init => Ages
<1> SUFFICES ASSUME Init PROVE Ages
  OBVIOUS
<1>1. changes = 0 /\ \A a \in Actor : job[a].at = "idle"
  BY DEF Init, NoJob
<1> QED  BY <1>1 DEF Ages, Current, Remembered

\* The tasks' jobs stay, and the startup's is over or begins anew.
LEMMA StartupAges ==
    ASSUME TypeInv, Ages, \A b \in Actor \ {Startup} : job'[b] = job[b],
           UNCHANGED <<changes, dropped>>, asOf' \in {asOf, job[Startup].rev},
           asOf' # asOf => job[Startup].at = "listing" /\ phase # "serving",
           job'[Startup].at = "listing" => job'[Startup].rev \in {changes, job[Startup].rev},
           job'[Startup].at = "listing" /\ job'[Startup].rev # changes =>
               job[Startup].at = "listing" /\ asOf' = asOf
    PROVE  Ages' /\ asOf' >= asOf
<1>1. Numbers
  BY NumbersHold
<1>2. asOf' >= asOf /\ asOf' \in 0..changes
  BY <1>1 DEF Ages, Current, Numbers
<1>3. Task \subseteq Actor \ {Startup}
  BY ActorAssumption DEF Actor
<1>4. Current'
  <2>1. ASSUME NEW t \in Task, job'[t].at = "listing" PROVE asOf' <= job'[t].rev
    <3>1. asOf' = asOf
      BY <1>3, <2>1 DEF TypeInv, Alone
    <3> QED  BY <1>3, <2>1, <3>1 DEF Ages, Current, Actor
  <2>2. job'[Startup].at = "listing" => asOf' <= job'[Startup].rev
    BY <1>1, <1>2 DEF Ages, Current, Numbers
  <2> QED  BY <2>1, <2>2 DEF Current, Actor
<1>5. Remembered'
  BY <1>1, <1>2, <1>3 DEF Ages, Remembered, Knows, Numbers
<1> QED  BY <1>2, <1>4, <1>5 DEF Ages

LEMMA AgesNext == ASSUME TypeInv, Onward, Ages, Next PROVE Ages' /\ asOf' >= asOf
<1>0. Numbers /\ NoJob.at = "idle" /\ NoJob.rev = 0
  BY NumbersHold, Jobs
<1>a. Listing.rev = changes
  BY <1>0, Jobs DEF TypeInv, TypeOK
<1>1. CASE Abort \/ Tick \/ \E s \in Source : Connect(s)
  <2>1. UNCHANGED <<job, changes, dropped, asOf>>
    BY <1>1 DEF Abort, Tick, Connect, world
  <2> QED  BY <1>0, <2>1 DEF Ages, Current, Remembered, Knows, Numbers
<1>2. CASE Launch \/ StartupFails
  <2>1. /\ UNCHANGED <<changes, dropped, asOf>>
        /\ job' \in {[job EXCEPT ![Startup] = Listing], [job EXCEPT ![Startup] = NoJob]}
    BY <1>2 DEF Launch, StartupFails, world
  <2>2. /\ \A b \in Actor \ {Startup} : job'[b] = job[b]
        /\ job'[Startup].at = "listing" => job'[Startup].rev = changes
    BY <1>0, <1>a, <2>1 DEF Numbers
  <2> QED  BY <2>1, <2>2, StartupAges
<1>3. ASSUME NEW a \in Actor, Gather(a) PROVE Ages' /\ asOf' >= asOf
  <2>1. /\ UNCHANGED <<changes, dropped, asOf>> /\ job'[a].at = job[a].at
        /\ job'[a].rev = job[a].rev /\ job'[a].told = job[a].told
        /\ \A b \in Actor \ {a} : job'[b] = job[b]
    BY <1>3, HearsFine DEF world
  <2>2. \A b \in Actor : /\ job'[b].at = job[b].at
                         /\ job'[b].rev = job[b].rev /\ job'[b].told = job[b].told
    BY <2>1
  <2>3. Current'
    BY <2>1, <2>2 DEF Ages, Current
  <2>4. Remembered'
    BY <1>0, <2>1, <2>2 DEF Ages, Remembered, Knows, Numbers
  <2> QED  BY <1>0, <2>1, <2>3, <2>4 DEF Ages, Numbers
<1>4. CASE Register
  <2>1. PICK s \in Source :
          /\ phase = "refreshing" /\ Gathered(Startup, s) /\ asOf' = job[Startup].rev
          /\ job' = [job EXCEPT ![Startup] = Listing] /\ UNCHANGED <<changes, dropped>>
    BY <1>4 DEF Register, world
  <2>2. job[Startup].at = "listing"
    BY <1>0, <2>1, LastAnswer DEF Numbers
  <2>3. job'[Startup].rev = changes /\ \A b \in Actor \ {Startup} : job'[b] = job[b]
    BY <1>0, <1>a, <2>1 DEF Numbers
  <2> QED  BY <2>1, <2>2, <2>3, StartupAges
<1>5. CASE Govern
  <2>1. PICK s \in Source :
          /\ phase = "governing" /\ Gathered(Startup, s)
          /\ asOf' \in {asOf, job[Startup].rev}
          /\ job' = [job EXCEPT ![Startup] = NoJob] /\ UNCHANGED <<changes, dropped>>
    BY <1>5 DEF Govern, world
  <2>2. job[Startup].at = "listing"
    BY <1>0, <2>1, LastAnswer DEF Numbers
  <2>3. job'[Startup].at = "idle" /\ \A b \in Actor \ {Startup} : job'[b] = job[b]
    BY <1>0, <2>1 DEF Numbers
  <2> QED  BY <2>1, <2>2, <2>3, StartupAges
<1>6. ASSUME NEW t \in Task, Enter(t) PROVE Ages' /\ asOf' >= asOf
  <2>1. /\ lock = None /\ UNCHANGED <<changes, asOf>>
        /\ \A b \in Actor \ {t} : job'[b] = job[b]
        /\ TurnedAway(t) \/ Begins(t)
    BY <1>6, EnterFacts
  <2>2. job'[t].at = "listing" => job'[t].rev = changes
    BY <1>0, <2>1 DEF TurnedAway, Begins
  <2>3. Current'
    BY <1>0, <2>1, <2>2 DEF Ages, Current, Numbers
  <2>4. ASSUME NEW r \in 1..changes PROVE
          r <= asOf \/ r \in dropped' \/ \E u \in Task : Knows(u, r)'
    <3>1. CASE r <= asOf \/ r \in dropped
      BY <2>1, <3>1 DEF TurnedAway, Begins
    <3>2. CASE \E u \in Task : Knows(u, r)
      <4>1. PICK u \in Task : Knows(u, r)
        BY <3>2
      <4>2. CASE u = t
        BY <1>0, <2>1, <4>1, <4>2 DEF Knows, TurnedAway, Begins, Numbers
      <4>3. CASE u # t
        BY <1>0, <2>1, <4>1, <4>3 DEF Knows, Numbers
      <4> QED  BY <4>2, <4>3
    <3> QED  BY <3>1, <3>2 DEF Ages, Remembered, Knows
  <2>5. Remembered'
    BY <2>1, <2>4 DEF Remembered, Knows
  <2> QED  BY <1>0, <2>1, <2>3, <2>5 DEF Ages, Numbers
<1>7. ASSUME NEW t \in Task, Refreshed(t) PROVE Ages' /\ asOf' >= asOf
  <2>1. PICK s \in Source :
          /\ Gathered(t, s) /\ asOf' = job[t].rev /\ UNCHANGED <<changes, dropped>>
          /\ job' = [job EXCEPT ![t] = NoJob]
    BY <1>7 DEF Refreshed, world
  <2>2. job[t].at = "listing"
    BY <1>0, <2>1, LastAnswer DEF Numbers
  <2>3. job'[t] = NoJob /\ \A b \in Actor \ {t} : job'[b] = job[b]
    BY <1>0, <2>1 DEF Numbers
  <2>4. asOf <= job[t].rev
    BY <1>0, <2>2 DEF Ages, Current, Numbers
  <2>5. \A b \in Actor \ {t} : job[b].at # "listing"
    BY <2>2 DEF TypeInv, Alone, Actor
  <2>6. Current'
    BY <1>0, <2>3, <2>5 DEF Current
  <2>7. Remembered'
    BY <1>0, <2>1, <2>2, <2>3, <2>4, <2>5 DEF Ages, Remembered, Knows, Numbers
  <2> QED  BY <1>0, <2>1, <2>4, <2>6, <2>7 DEF Ages, Numbers
<1>8. ASSUME NEW t \in Task, RefreshFails(t) PROVE Ages' /\ asOf' >= asOf
  <2>1. /\ UNCHANGED <<changes, asOf>> /\ dropped' = dropped \cup {job[t].told}
        /\ job' = [job EXCEPT ![t] = NoJob]
    BY <1>8 DEF RefreshFails, world
  <2>2. job'[t] = NoJob /\ \A b \in Actor \ {t} : job'[b] = job[b]
    BY <1>0, <2>1 DEF Numbers
  <2>3. Current'
    BY <1>0, <2>1, <2>2 DEF Ages, Current
  <2>4. Remembered'
    BY <1>0, <2>1, <2>2 DEF Ages, Remembered, Knows, Numbers
  <2> QED  BY <1>0, <2>1, <2>3, <2>4 DEF Ages, Numbers
<1>9. ASSUME NEW s \in Source, NEW tools \in SUBSET Tool, Changes(s, tools)
      PROVE  Ages' /\ asOf' >= asOf
  <2>1. changes' = changes + 1 /\ UNCHANGED asOf
    BY <1>9, ChangesFacts
  <2>2. \A r \in 1..changes' : r \in 1..changes \/ r = changes'
    BY <1>0, <2>1 DEF Numbers
  <2>3. CASE \E t \in Task : Scheduled(t)
    <3>1. PICK t \in Task : Scheduled(t)
      BY <2>3
    <3>2. Current'
      BY <2>1, <3>1 DEF Ages, Current, Scheduled
    <3>3. \A r \in 1..changes : r <= asOf' \/ r \in dropped' \/ \E u \in Task : Knows(u, r)'
      BY <1>0, <2>1, <3>1 DEF Ages, Remembered, Knows, Scheduled, Numbers
    <3>4. job'[t].told = changes' /\ job'[t].at = "waiting"
      BY <3>1 DEF Scheduled
    <3>5. Remembered'
      <4> SUFFICES ASSUME NEW r \in 1..changes' PROVE
              r <= asOf' \/ r \in dropped' \/ \E u \in Task : Knows(u, r)'
        BY DEF Remembered
      <4>1. CASE r \in 1..changes
        BY <3>3, <4>1
      <4>2. CASE r = changes'
        BY <3>1, <3>4, <4>2 DEF Knows
      <4> QED  BY <2>2, <4>1, <4>2
    <3> QED  BY <1>0, <2>1, <3>2, <3>5 DEF Ages, Numbers
  <2>4. CASE dropped' = dropped \cup {changes'} /\ UNCHANGED job
    <3>1. Current' /\ Remembered'
      BY <2>1, <2>2, <2>4 DEF Ages, Current, Remembered, Knows
    <3> QED  BY <1>0, <2>1, <3>1 DEF Ages, Numbers
  <2> QED  BY <1>9, <2>3, <2>4, ChangesFacts
<1> QED  BY <1>1, <1>2, <1>3, <1>4, <1>5, <1>6, <1>7, <1>8, <1>9
         DEF Next, Starting, Refresh, Actor

--------------------------------------------------------------------------------
IInv == TypeInv /\ Spaced /\ Routed /\ Ages

LEMMA SpacedNext == ASSUME TypeInv, Onward, Spaced, Next PROVE Spaced' /\ TypeInv'
<1>0. /\ Startup \in Actor /\ Startup \notin Task /\ Task \subseteq Actor
      /\ job \in [Actor -> Job] /\ NoJob.at = "idle"
  BY ActorAssumption, Jobs DEF Actor, TypeInv, TypeOK
<1>1. CASE Starting
  <2>1. UNCHANGED <<starts, window>> /\ \A t \in Task : job'[t] = job[t]
    <3>1. CASE Gather(Startup)
      BY <1>0, <3>1, HearsFine DEF refresher
    <3>2. CASE Starting /\ ~Gather(Startup)
      <4>1. /\ UNCHANGED <<starts, window>>
            /\ job' \in {job, [job EXCEPT ![Startup] = Listing], [job EXCEPT ![Startup] = NoJob]}
        BY <3>2 DEF Starting, Connect, Abort, Launch, Register, Govern, StartupFails, refresher
      <4> QED  BY <1>0, <4>1
    <3> QED  BY <1>1, <3>1, <3>2
  <2>2. Spaced'
    BY <2>1, SameSpaced
  <2>3. TypeInv'
    BY <1>0, <1>1, StartsUp, GatherTypes, RegisterTypes, GovernTypes DEF Starting
  <2> QED  BY <2>2, <2>3
<1>2. ASSUME NEW t \in Task, Refresh(t) PROVE Spaced' /\ TypeInv'
  <2>1. CASE Enter(t)
    BY <2>1, EnterSpaced, EnterTypes
  <2>2. CASE Gather(t)
    <3>1. /\ UNCHANGED <<starts, window>>
          /\ \A u \in Task : job'[u].at = job[u].at /\ job'[u].began = job[u].began
      BY <1>0, <2>2, HearsFine DEF refresher
    <3> QED  BY <1>0, <2>2, <3>1, SameSpaced, GatherTypes
  <2>3. CASE Refreshed(t)
    BY <2>3, RefreshedSpaced, RefreshedTypes
  <2>4. CASE RefreshFails(t)
    <3>1. UNCHANGED <<starts, window>> /\ job' = [job EXCEPT ![t] = NoJob]
      BY <2>4 DEF RefreshFails
    <3>2. \A u \in Task : job'[u] = job[u] \/ job'[u].at = "idle"
      BY <1>0, <3>1
    <3> QED  BY <2>4, <3>1, <3>2, SameSpaced, RefreshFailsTypes
  <2> QED  BY <1>2, <2>1, <2>2, <2>3, <2>4 DEF Refresh
<1>3. ASSUME NEW s \in Source, NEW tools \in SUBSET Tool, Changes(s, tools)
      PROVE  Spaced' /\ TypeInv'
  <2>1. UNCHANGED <<starts, window>> /\ (UNCHANGED job \/ \E t \in Task : Scheduled(t))
    BY <1>3, ChangesFacts
  <2>2. \A u \in Task : job'[u] = job[u] \/ job'[u].at = "waiting"
    BY <1>0, <2>1 DEF Scheduled
  <2> QED  BY <1>3, <2>1, <2>2, SameSpaced, ChangesTypes
<1>4. CASE Tick
  BY <1>4, SameSpaced, QuietTypes DEF Tick, refresher
<1> QED  BY <1>1, <1>2, <1>3, <1>4 DEF Next

LEMMA InitIInv == Init => IInv
<1> SUFFICES ASSUME Init PROVE IInv
  OBVIOUS
<1>1. Routed
  BY Jobs DEF Init, Routed
<1> QED  BY <1>1, InitTypes, InitSpaced, InitAges DEF IInv

LEMMA NextIInv == IInv /\ [Next]_vars => IInv' /\ asOf' >= asOf
<1> SUFFICES ASSUME IInv, [Next]_vars PROVE IInv' /\ asOf' >= asOf
  OBVIOUS
<1>1. CASE Next
  BY <1>1, Outside, SpacedNext, RoutedNext, AgesNext DEF IInv
<1>2. CASE UNCHANGED vars
  <2>1. Onward
    BY <1>2 DEF vars, Onward, IInv, TypeInv, TypeOK, Healthy
  <2>2. TypeInv'
    BY <1>2, <2>1, QuietTypes DEF vars, IInv
  <2>3. Spaced'
    BY <1>2, <2>1, SameSpaced DEF vars, IInv
  <2>4. Routed' /\ Ages'
    BY <1>2 DEF vars, IInv, Routed, Healthy, Ages, Current, Remembered, Knows
  <2> QED  BY <1>2, <2>2, <2>3, <2>4, NumbersHold DEF vars, IInv, Numbers
<1> QED  BY <1>1, <1>2

LEMMA Always == Spec => []IInv
  BY InitIInv, NextIInv, PTL DEF Spec

\* At every instant, also while a listing is under way and after one that failed, a
\* tool that is served has an owner that started (MultiplexUpstream.list_tools).
THEOREM ServedRoutable == Spec => []ServedIsRoutable
<1>1. IInv => ServedIsRoutable
  BY DEF IInv, TypeInv, TypeOK, Routed, ServedIsRoutable, Routable
<1> QED  BY <1>1, Always, PTL

\* No refresh puts an older listing over a newer one (on_list_changed's lock, and a
\* startup that is over before the first notification is listened to).
THEOREM NewestWins == Spec => NewestListingWins
<1>1. IInv /\ [Next]_vars => [asOf' >= asOf]_vars
  BY NextIInv
<1> QED  BY <1>1, Always, PTL DEF Spec, NewestListingWins

\* The debounce and the rate hold for any policy, however long a refresh takes.
THEOREM RefreshesApart == Spec => []RefreshesSpaced
<1>1. IInv => RefreshesSpaced
  BY DEF IInv, Spaced
<1> QED  BY <1>1, Always, PTL

\* A change is served, given up for a reason, or waited for (schedule_on_list_changed).
THEOREM ChangesRemembered == Spec => []NoChangeForgotten
<1>1. IInv => NoChangeForgotten
  BY DEF IInv, Ages, Remembered, Knows, NoChangeForgotten
<1> QED  BY <1>1, Always, PTL

================================================================================
