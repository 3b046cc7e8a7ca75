------------------------------ MODULE RateLimiter ------------------------------
(***************************************************************************)
(* RateLimiter (adapters/gateway_controls.py): per-session quotas on the     *)
(* meta-tools and on single tools.  A call is charged to one bucket, or to   *)
(* two when a tool is named; both are evaluated before either is charged.    *)
(* A check runs without an await, so it is one step.                        *)
(***************************************************************************)
EXTENDS Integers, Sequences, FiniteSets

CONSTANTS MetaTool, Tool, None,
          Calls,          \* the <<meta_tool, tool_id or None>> pairs the runtime checks
          PerMinute,      \* bucket -> max_calls_per_minute or None
          PerSession,     \* bucket -> max_calls_per_session or None
          Window,         \* the 60 seconds of the sliding window
          MaxClock,       \* bound: the clock stops here
          MaxCalls        \* bound: permitted calls per bucket

Bucket == MetaTool \cup Tool

ASSUME BucketAssumption == None \notin Bucket /\ MetaTool \cap Tool = {}
ASSUME NoneAssumption == None \notin Int
ASSUME CallsAssumption == Calls \subseteq MetaTool \X (Tool \cup {None})
ASSUME LimitAssumption == /\ PerMinute \in [Bucket -> (Nat \ {0}) \cup {None}]
                          /\ PerSession \in [Bucket -> (Nat \ {0}) \cup {None}]
ASSUME WindowAssumption == Window \in Nat \ {0}
ASSUME BoundAssumption == MaxClock \in Nat /\ MaxCalls \in Nat

VARIABLES now,      \* the injected monotonic clock
          window,   \* bucket -> timestamps of the deque, oldest first
          count,    \* bucket -> calls charged to the session quota
          log,      \* bucket -> when each permitted call was charged (history)
          denial    \* the last refusal, until a call is charged (history)

vars == <<now, window, count, log, denial>>

NoDenial == [meta |-> None, tool |-> None, bucket |-> None, at |-> None]

Init == /\ now = 0
        /\ window = [b \in Bucket |-> <<>>]
        /\ count = [b \in Bucket |-> 0]
        /\ log = [b \in Bucket |-> <<>>]
        /\ denial = NoDenial

--------------------------------------------------------------------------------
\* The buckets that apply to a call; browse and view name no tool.
Buckets(meta, tool) == {meta} \cup ({tool} \ {None})

\* _fresh_window pops timestamps from the left while they are 60 s old: the
\* first n of the deque are, and what follows is not.
Stale_KeepsBoundary(n, w) == /\ \A i \in 1..n : w[i] < now - Window
                             /\ n < Len(w) => w[n + 1] >= now - Window
Stale(n, w) == /\ \A i \in 1..n : w[i] <= now - Window
               /\ n < Len(w) => w[n + 1] > now - Window
Fresh(b) == {SubSeq(window[b], n + 1, Len(window[b])) :
                n \in {k \in 0..Len(window[b]) : Stale(k, window[b])}}

SessionFull_OffByOne(b) == PerSession[b] # None /\ count[b] > PerSession[b]
SessionFull(b) == PerSession[b] # None /\ count[b] >= PerSession[b]
MinuteFull_OffByOne(b, w) == PerMinute[b] # None /\ Len(w) > PerMinute[b]
MinuteFull(b, w) == PerMinute[b] # None /\ Len(w) >= PerMinute[b]

\* _evaluate: the session quota first; only then is the deque looked at.
Denies(b, w) == SessionFull(b) \/ MinuteFull(b, w)
Looked(b) == PerMinute[b] # None /\ ~SessionFull(b)

\* What a refused check leaves of a deque it looked at.
Kept(b, w) == IF Looked(b) THEN w ELSE window[b]

\* The deques as _fresh_window leaves them.
FreshWindows(B) == {f \in [B -> UNION {Fresh(b) : b \in B}] : \A b \in B : f[b] \in Fresh(b)}

--------------------------------------------------------------------------------
\* check: every bucket allows the call.  A dry run (record = FALSE) is not charged.
Permit(meta, tool, record) ==
    LET B == Buckets(meta, tool) IN
    /\ record => \A b \in B : Len(log[b]) < MaxCalls
    /\ \E fresh \in FreshWindows(B) :
         /\ \A b \in B : ~Denies(b, fresh[b])
         /\ window' = [b \in Bucket |->
              IF b \in B /\ PerMinute[b] # None
              THEN IF record THEN Append(fresh[b], now) ELSE fresh[b]
              ELSE window[b]]
    /\ count' = [b \in Bucket |->
         IF record /\ b \in B /\ PerSession[b] # None THEN count[b] + 1 ELSE count[b]]
    /\ log' = [b \in Bucket |-> IF record /\ b \in B THEN Append(log[b], now) ELSE log[b]]
    /\ denial' = IF record THEN NoDenial ELSE denial
    /\ UNCHANGED now

\* check: bucket b refuses.  The tool's bucket is looked at only when the
\* meta-tool's allows the call; nothing is charged.
Refuse(meta, tool, b) ==
    /\ b \in Buckets(meta, tool)
    /\ \E fresh \in FreshWindows({meta, b}) :
         /\ Denies(b, fresh[b])
         /\ b # meta => ~Denies(meta, fresh[meta])
         /\ window' = [x \in Bucket |->
              IF x \in {meta, b} THEN Kept(x, fresh[x]) ELSE window[x]]
         /\ denial' = [meta |-> meta, tool |-> tool, bucket |-> b,
              at |-> IF SessionFull(b) THEN None ELSE fresh[b][1] + Window]
    /\ UNCHANGED <<now, count, log>>

Advance == /\ now < MaxClock
           /\ now' = now + 1
           /\ UNCHANGED <<window, count, log, denial>>

Check(meta, tool) == \/ \E record \in BOOLEAN : Permit(meta, tool, record)
                     \/ \E b \in Bucket : Refuse(meta, tool, b)

Next == \/ \E c \in Calls : Check(c[1], c[2])
        \/ Advance

Spec == Init /\ [][Next]_vars

--------------------------------------------------------------------------------
\* Types: the deques and the history hold times up to now, and no deque is
\* longer than its limit (gateway_controls.py, RateLimiter.__init__).
TypeOK == /\ now \in Nat
          /\ window \in [Bucket -> Seq(0..now)]
          /\ \A b \in Bucket : PerMinute[b] # None => Len(window[b]) <= PerMinute[b]
          /\ log \in [Bucket -> Seq(0..now)]
          /\ count \in [Bucket -> Nat]
          /\ denial \in [meta : MetaTool \cup {None}, tool : Tool \cup {None},
                         bucket : Bucket \cup {None}, at : Nat \cup {None}]

\* In no 60 seconds, wherever they begin, are more calls charged to a bucket
\* than its max_calls_per_minute: eviction from the deque forgets no call that
\* still counts, though it happens only when a check looks at the deque.
SlidingWindow ==
    \A b \in Bucket : PerMinute[b] # None =>
        \A i \in 1..Len(log[b]) :
            i + PerMinute[b] <= Len(log[b]) => log[b][i + PerMinute[b]] - log[b][i] >= Window

\* Over the session a bucket is charged at most max_calls_per_session times,
\* also when the other bucket of a call is the one that refuses.
SessionQuota ==
    \A b \in Bucket : PerSession[b] # None => Len(log[b]) <= PerSession[b]

\* Both limits of a bucket hold in every window and over the session, with the
\* deques and counters typed as RateLimiter.__init__ declares them.
WithinLimits == TypeOK /\ SlidingWindow /\ SessionQuota

\* A bucket refuses for the minute only when that many calls were charged to it
\* in the last 60 seconds: refusals, dry runs and refusals by the other bucket
\* do not count.
RefusalIsDeserved ==
    \A b \in Bucket : \A w \in Fresh(b) : MinuteFull(b, w) =>
        Cardinality({i \in 1..Len(log[b]) : log[b][i] > now - Window}) >= PerMinute[b]

\* The retry_after of a refusal is the truth for the bucket that refused: when
\* that time has passed and no call was charged, the bucket allows a call.
RetryAfterOpensBucket ==
    denial.at # None /\ now >= denial.at =>
        \A w \in Fresh(denial.bucket) : ~Denies(denial.bucket, w)

\* Every verdict of "no" is true: it has its calls, and it ends when it says.
RefusalsTrue == RefusalIsDeserved /\ RetryAfterOpensBucket
================================================================================
