------------------------- MODULE GatewayControlsProofs -------------------------
(***************************************************************************)
(* What the controls of a gateway guarantee for any number of callers and any *)
(* limits: the rate limiter (RateLimiter), and then the guard of model calls   *)
(* (LlmGuard) and the sidecar's limiters per client (Sidecar).             *)
(*                                                                         *)
(* The deque of a bucket is a suffix of the calls charged to it, and what was *)
(* dropped in front of it is 60 seconds old (Tracks); from this follow both the *)
(* bound on every window and the truth of retry_after.                     *)
(***************************************************************************)
EXTENDS MCGatewayControls, SequenceTheorems, FiniteSetTheorems, WellFoundedInduction, TLAPS

\* The deque w holds the calls of the history l that are not known to be old.
Tracks(w, l, t) ==
    /\ Len(w) <= Len(l)
    /\ \A i \in 1..Len(w) : w[i] = l[(Len(l) - Len(w)) + i]
    /\ \A i \in 1..(Len(l) - Len(w)) : l[i] <= t - Window

Spaced(l, p) == \A i \in 1..Len(l) : i + p <= Len(l) => l[i + p] - l[i] >= Window

BucketInv(b) ==
    /\ PerMinute[b] # None => /\ Tracks(window[b], log[b], now)
                              /\ Spaced(log[b], PerMinute[b])
    /\ PerSession[b] # None => /\ count[b] = Len(log[b])
                               /\ Len(log[b]) <= PerSession[b]

\* After a refusal the oldest call of a full deque leaves it at retry_after.
DenialInv ==
    denial.at # None =>
        /\ denial.bucket \in Bucket
        /\ PerMinute[denial.bucket] # None
        /\ ~SessionFull(denial.bucket)
        /\ \/ Len(window[denial.bucket]) < PerMinute[denial.bucket]
           \/ window[denial.bucket][1] + Window <= denial.at

Inv == TypeOK /\ (\A b \in Bucket : BucketInv(b)) /\ DenialInv

\* Popping stale timestamps from the left keeps the deque a true record.
LEMMA DropTracks ==
    ASSUME NEW w \in Seq(Nat), NEW l \in Seq(Nat), NEW t \in Nat, Tracks(w, l, t),
           NEW n \in 0..Len(w), \A i \in 1..n : w[i] <= t - Window
    PROVE  Tracks(SubSeq(w, n + 1, Len(w)), l, t)
<1> DEFINE v == SubSeq(w, n + 1, Len(w))
<1>1. /\ Len(v) = Len(w) - n
      /\ \A i \in 1..Len(v) : v[i] = w[n + i]
  BY SMT
<1> HIDE DEF v
<1>2. Len(w) \in Nat /\ Len(l) \in Nat /\ Len(v) \in Nat /\ n \in Nat
  BY <1>1
<1>3. ASSUME NEW i \in 1..Len(v) PROVE v[i] = l[(Len(l) - Len(v)) + i]
  <2>1. n + i \in 1..Len(w)  BY <1>1, <1>2
  <2>2. (Len(l) - Len(w)) + (n + i) = (Len(l) - Len(v)) + i  BY <1>1, <1>2
  <2>3. w[n + i] = l[(Len(l) - Len(w)) + (n + i)]  BY <2>1 DEF Tracks
  <2> QED  BY <1>1, <2>2, <2>3
<1>4. ASSUME NEW i \in 1..(Len(l) - Len(v)) PROVE l[i] <= t - Window
  <2>1. CASE i <= Len(l) - Len(w)
    <3>1. i \in 1..(Len(l) - Len(w))  BY <2>1, <1>2
    <3> QED  BY <3>1 DEF Tracks
  <2>2. CASE i > Len(l) - Len(w)
    <3> DEFINE k == i - (Len(l) - Len(w))
    <3>1. k \in 1..n /\ k \in 1..Len(w) /\ (Len(l) - Len(w)) + k = i
      BY <2>2, <1>1, <1>2
    <3>2. w[k] = l[(Len(l) - Len(w)) + k]  BY <3>1 DEF Tracks
    <3>3. w[k] <= t - Window  BY <3>1
    <3> QED  BY <3>1, <3>2, <3>3
  <2> QED  BY <2>1, <2>2, <1>2
<1>5. Len(v) <= Len(l)
  BY <1>1, <1>2 DEF Tracks
<1> QED  BY <1>3, <1>4, <1>5 DEF Tracks, v

\* Charging a call to deque and history alike keeps the deque a true record.
LEMMA ChargeTracks ==
    ASSUME NEW w \in Seq(Nat), NEW l \in Seq(Nat), NEW t \in Nat, Tracks(w, l, t)
    PROVE  Tracks(Append(w, t), Append(l, t), t)
<1> DEFINE v == Append(w, t)  m == Append(l, t)
<1>1. /\ Len(v) = Len(w) + 1 /\ Len(m) = Len(l) + 1
      /\ \A i \in 1..Len(w) : v[i] = w[i]
      /\ \A i \in 1..Len(l) : m[i] = l[i]
      /\ v[Len(w) + 1] = t /\ m[Len(l) + 1] = t
      /\ Len(w) \in Nat /\ Len(l) \in Nat
  OBVIOUS
<1> HIDE DEF v, m
<1>2. Len(v) <= Len(m) /\ Len(m) - Len(v) = Len(l) - Len(w)
  BY <1>1 DEF Tracks
<1>3. ASSUME NEW i \in 1..Len(v) PROVE v[i] = m[(Len(m) - Len(v)) + i]
  <2>1. CASE i \in 1..Len(w)
    <3>1. (Len(l) - Len(w)) + i \in 1..Len(l)  BY <2>1, <1>1 DEF Tracks
    <3>2. w[i] = l[(Len(l) - Len(w)) + i]  BY <2>1 DEF Tracks
    <3> QED  BY <1>1, <1>2, <2>1, <3>1, <3>2
  <2>2. CASE i = Len(w) + 1
    <3>1. (Len(l) - Len(w)) + i = Len(l) + 1  BY <2>2, <1>1
    <3> QED  BY <1>1, <1>2, <2>2, <3>1
  <2> QED  BY <1>1, <2>1, <2>2
<1>4. ASSUME NEW i \in 1..(Len(m) - Len(v)) PROVE m[i] <= t - Window
  <2>1. i \in 1..(Len(l) - Len(w)) /\ i \in 1..Len(l)  BY <1>1, <1>2
  <2>2. l[i] <= t - Window  BY <2>1 DEF Tracks
  <2> QED  BY <1>1, <2>1, <2>2
<1> QED  BY <1>2, <1>3, <1>4 DEF Tracks, v, m

\* A call charged while the deque has room keeps every window within the limit.
LEMMA ChargeSpaced ==
    ASSUME NEW w \in Seq(Nat), NEW l \in Seq(Nat), NEW t \in Nat, NEW p \in Nat \ {0},
           Tracks(w, l, t), Len(w) < p, Spaced(l, p)
    PROVE  Spaced(Append(l, t), p)
<1> DEFINE m == Append(l, t)
<1>1. /\ Len(m) = Len(l) + 1
      /\ \A i \in 1..Len(l) : m[i] = l[i]
      /\ m[Len(l) + 1] = t
      /\ Len(w) \in Nat /\ Len(l) \in Nat
  OBVIOUS
<1> HIDE DEF m
<1>2. ASSUME NEW i \in 1..Len(m), i + p <= Len(m) PROVE m[i + p] - m[i] >= Window
  <2>1. CASE i + p <= Len(l)
    <3>1. i \in 1..Len(l) /\ i + p \in 1..Len(l)  BY <2>1, <1>1
    <3>2. l[i + p] - l[i] >= Window  BY <2>1, <3>1 DEF Spaced
    <3> QED  BY <1>1, <3>1, <3>2
  <2>2. CASE i + p = Len(l) + 1
    <3>1. i \in 1..(Len(l) - Len(w)) /\ i \in 1..Len(l)  BY <2>2, <1>1
    <3>2. l[i] <= t - Window  BY <3>1 DEF Tracks
    <3>3. m[i] = l[i] /\ m[i + p] = t /\ l[i] \in Nat  BY <1>1, <2>2, <3>1
    <3> QED  BY <3>2, <3>3, WindowAssumption
  <2>3. i + p <= Len(m)  BY <1>2
  <2>4. Len(m) = Len(l) + 1 /\ Len(l) \in Nat  BY <1>1
  <2>5. i \in Nat /\ p \in Nat  BY <2>4
  <2>6. i + p <= Len(l) \/ i + p = Len(l) + 1  BY <2>3, <2>4, <2>5
  <2> QED  BY <2>1, <2>2, <2>6
<1> QED  BY <1>2 DEF Spaced, m

\* The passage of time only makes old calls older.
LEMMA WaitTracks ==
    ASSUME NEW w \in Seq(Nat), NEW l \in Seq(Nat), NEW t \in Nat, Tracks(w, l, t)
    PROVE  Tracks(w, l, t + 1)
BY WindowAssumption DEF Tracks

--------------------------------------------------------------------------------
\* What _fresh_window hands to a check: a suffix of the deque, still a record
\* of the charged calls, that begins with the oldest call of the last minute.
LEMMA FreshFacts ==
    ASSUME Inv, NEW b \in Bucket, NEW w \in Fresh(b)
    PROVE  /\ w \in Seq(0..now)
           /\ Len(w) <= Len(window[b])
           /\ w # <<>> => w[1] > now - Window
           /\ Len(w) = Len(window[b]) => w = window[b]
           /\ PerMinute[b] # None => Tracks(w, log[b], now)
<1>1. /\ window[b] \in Seq(0..now) /\ log[b] \in Seq(0..now) /\ now \in Nat
      /\ PerMinute[b] # None => Tracks(window[b], log[b], now)
  BY DEF Inv, TypeOK, BucketInv
<1>2. PICK n \in 0..Len(window[b]) :
         /\ Stale(n, window[b])
         /\ w = SubSeq(window[b], n + 1, Len(window[b]))
  BY DEF Fresh
<1>3. /\ Len(w) = Len(window[b]) - n
      /\ w \in Seq(0..now)
      /\ \A i \in 1..Len(w) : w[i] = window[b][n + i]
  <2> DEFINE d == window[b]
  <2>1. d \in Seq(0..now) /\ w = SubSeq(d, n + 1, Len(d)) /\ n \in 0..Len(d)
    BY <1>1, <1>2
  <2> HIDE DEF d
  <2>2. /\ Len(w) = Len(d) - n
        /\ w \in Seq(0..now)
        /\ \A i \in 1..Len(w) : w[i] = d[n + i]
    <3>1. ASSUME NEW i \in (n + 1)..Len(d) PROVE d[i] \in 0..now
      <4>1. n \in Nat /\ Len(d) \in Nat  BY <2>1
      <4>2. i \in 1..Len(d)  BY <3>1, <4>1
      <4>3. d \in Seq(0..now)  BY <2>1
      <4> QED  BY <4>2, <4>3, ElementOfSeq
    <3>2. n + 1 \in Int /\ Len(d) \in Nat /\ n \in Nat  BY <2>1
    <3>3. /\ w \in Seq(0..now)
          /\ Len(w) = IF n + 1 <= Len(d) THEN Len(d) - (n + 1) + 1 ELSE 0
          /\ \A i \in 1..(Len(d) - (n + 1) + 1) : w[i] = d[(n + 1) + i - 1]
      BY <2>1, <3>1, <3>2, SubSeqProperties
    <3> QED  BY <2>1, <3>2, <3>3
  <2> QED  BY <2>2 DEF d
<1>4. w # <<>> => w[1] > now - Window
  <2> SUFFICES ASSUME w # <<>> PROVE w[1] > now - Window
    OBVIOUS
  <2>1. Len(w) >= 1 /\ n < Len(window[b])  BY <1>1, <1>3
  <2>2. w[1] = window[b][n + 1]  BY <1>3, <2>1
  <2> QED  BY <1>2, <2>1, <2>2 DEF Stale
<1>5. Len(w) = Len(window[b]) => w = window[b]
  <2> SUFFICES ASSUME Len(w) = Len(window[b]) PROVE w = window[b]
    OBVIOUS
  <2>1. n = 0  BY <1>1, <1>3
  <2> DEFINE d == window[b]
  <2>2. d \in Seq(0..now) /\ w \in Seq(0..now) /\ Len(w) = Len(d)
        /\ \A i \in 1..Len(d) : w[i] = d[i]
    BY <1>1, <1>3, <2>1
  <2> HIDE DEF d
  <2> QED  BY <2>2, SeqEqual DEF d
<1>6. PerMinute[b] # None => Tracks(w, log[b], now)
  <2> SUFFICES ASSUME PerMinute[b] # None PROVE Tracks(w, log[b], now)
    OBVIOUS
  <2>1. window[b] \in Seq(Nat) /\ log[b] \in Seq(Nat)  BY <1>1
  <2>2. \A i \in 1..n : window[b][i] <= now - Window  BY <1>2 DEF Stale
  <2> QED  BY <1>1, <1>2, <2>1, <2>2, DropTracks
<1> QED  BY <1>1, <1>3, <1>4, <1>5, <1>6

LEMMA InitInv == Init => Inv
<1> SUFFICES ASSUME Init PROVE Inv
  OBVIOUS
<1>1. TypeOK
  BY LimitAssumption DEF Init, TypeOK, NoDenial
<1>2. \A b \in Bucket : BucketInv(b)
  BY LimitAssumption DEF Init, BucketInv, Tracks, Spaced
<1>3. DenialInv
  BY DEF Init, DenialInv, NoDenial
<1> QED  BY <1>1, <1>2, <1>3 DEF Inv

LEMMA AdvanceInv == Inv /\ Advance => Inv'
<1> SUFFICES ASSUME Inv, Advance PROVE Inv'
  OBVIOUS
<1>1. now \in Nat /\ now' = now + 1 /\ UNCHANGED <<window, count, log, denial>>
  BY DEF Inv, TypeOK, Advance
<1>2. TypeOK'
  <2>1. \A s \in Seq(0..now) : s \in Seq(0..(now + 1))
    BY <1>1
  <2>2. window' \in [Bucket -> Seq(0..now')] /\ log' \in [Bucket -> Seq(0..now')]
    BY <1>1, <2>1 DEF Inv, TypeOK
  <2> QED  BY <1>1, <2>2 DEF Inv, TypeOK
<1>3. ASSUME NEW b \in Bucket PROVE BucketInv(b)'
  <2>1. window[b] \in Seq(Nat) /\ log[b] \in Seq(Nat)  BY DEF Inv, TypeOK
  <2>2. PerMinute[b] # None => Tracks(window[b], log[b], now + 1)
    BY <1>1, <2>1, WaitTracks DEF Inv, BucketInv
  <2> QED  BY <1>1, <2>2 DEF Inv, BucketInv
<1>4. DenialInv'
  BY <1>1 DEF Inv, DenialInv, SessionFull
<1> QED  BY <1>2, <1>3, <1>4 DEF Inv

\* What a check leaves of one bucket: the deque, perhaps pruned, perhaps charged.
Pruned(b) == /\ window'[b] \in Fresh(b) \cup {window[b]}
             /\ log'[b] = log[b] /\ count'[b] = count[b]
Charged(b) == /\ PerMinute[b] # None =>
                    \E w \in Fresh(b) : /\ Len(w) < PerMinute[b]
                                       /\ window'[b] = Append(w, now)
              /\ PerMinute[b] = None => window'[b] = window[b]
              /\ ~SessionFull(b)
              /\ log'[b] = Append(log[b], now)
              /\ count'[b] = IF PerSession[b] # None THEN count[b] + 1 ELSE count[b]

BucketShape(b) == /\ window'[b] \in Seq(0..now)
                  /\ log'[b] \in Seq(0..now)
                  /\ count'[b] \in Nat
                  /\ PerMinute[b] # None => Len(window'[b]) <= PerMinute[b]

LEMMA PrunedKeeps ==
    ASSUME Inv, NEW b \in Bucket, Pruned(b), now' = now
    PROVE  BucketShape(b) /\ BucketInv(b)'
<1>1. /\ window[b] \in Seq(0..now) /\ log[b] \in Seq(0..now) /\ count[b] \in Nat
      /\ PerMinute[b] # None => Len(window[b]) <= PerMinute[b] /\ PerMinute[b] \in Nat
      /\ BucketInv(b)
  BY LimitAssumption DEF Inv, TypeOK
<1>2. /\ window'[b] \in Seq(0..now)
      /\ Len(window'[b]) <= Len(window[b])
      /\ PerMinute[b] # None => Tracks(window'[b], log[b], now)
  <2>1. CASE window'[b] \in Fresh(b)
    BY <2>1, FreshFacts
  <2>2. CASE window'[b] = window[b]
    BY <2>2, <1>1 DEF BucketInv
  <2> QED  BY <2>1, <2>2 DEF Pruned
<1>3. BucketShape(b)
  <2>1. Len(window'[b]) \in Nat /\ Len(window[b]) \in Nat  BY <1>1, <1>2
  <2> QED  BY <1>1, <1>2, <2>1 DEF BucketShape, Pruned
<1>4. BucketInv(b)'
  BY <1>1, <1>2 DEF BucketInv, Pruned
<1> QED  BY <1>3, <1>4

LEMMA ChargedKeeps ==
    ASSUME Inv, NEW b \in Bucket, Charged(b), now' = now
    PROVE  BucketShape(b) /\ BucketInv(b)'
<1>1. /\ window[b] \in Seq(0..now) /\ log[b] \in Seq(0..now) /\ count[b] \in Nat
      /\ now \in Nat
      /\ BucketInv(b)
  BY DEF Inv, TypeOK
<1>2. log'[b] \in Seq(0..now) /\ Len(log'[b]) = Len(log[b]) + 1
  BY <1>1 DEF Charged
<1>3. /\ window'[b] \in Seq(0..now)
      /\ PerMinute[b] # None => /\ Len(window'[b]) <= PerMinute[b]
                                /\ Tracks(window'[b], log'[b], now)
                                /\ Spaced(log'[b], PerMinute[b])
  <2>1. CASE PerMinute[b] = None
    BY <1>1, <2>1 DEF Charged
  <2>2. CASE PerMinute[b] # None
    <3>1. PICK w \in Fresh(b) : Len(w) < PerMinute[b] /\ window'[b] = Append(w, now)
      BY <2>2 DEF Charged
    <3>2. /\ w \in Seq(0..now) /\ Tracks(w, log[b], now)
          /\ PerMinute[b] \in Nat \ {0} /\ Spaced(log[b], PerMinute[b])
      BY <1>1, <2>2, FreshFacts, LimitAssumption DEF BucketInv
    <3>3. w \in Seq(Nat) /\ log[b] \in Seq(Nat)
      BY <1>1, <3>2
    <3>4. /\ Tracks(window'[b], log'[b], now)
          /\ Spaced(log'[b], PerMinute[b])
      BY <1>1, <3>1, <3>2, <3>3, ChargeTracks, ChargeSpaced DEF Charged
    <3>5. window'[b] \in Seq(0..now) /\ Len(window'[b]) = Len(w) + 1 /\ Len(w) \in Nat
      BY <1>1, <3>1, <3>2
    <3> QED  BY <2>2, <3>1, <3>2, <3>4, <3>5
  <2> QED  BY <2>1, <2>2
<1>4. PerSession[b] # None => /\ count'[b] = Len(log'[b])
                              /\ Len(log'[b]) <= PerSession[b]
  <2> SUFFICES ASSUME PerSession[b] # None
               PROVE  count'[b] = Len(log'[b]) /\ Len(log'[b]) <= PerSession[b]
    OBVIOUS
  <2>1. PerSession[b] \in Nat /\ count[b] = Len(log[b]) /\ ~(count[b] >= PerSession[b])
    BY <1>1, LimitAssumption DEF BucketInv, Charged, SessionFull
  <2> QED  BY <1>1, <1>2, <2>1 DEF Charged
<1>5. BucketShape(b)
  BY <1>1, <1>2, <1>3 DEF BucketShape, Charged
<1>6. BucketInv(b)'
  BY <1>3, <1>4 DEF BucketInv
<1> QED  BY <1>5, <1>6

\* The invariant follows from what a check leaves of each bucket.
LEMMA BucketsKeep ==
    ASSUME Inv, now' = now, \A b \in Bucket : Pruned(b) \/ Charged(b),
           window' \in [Bucket -> {window'[b] : b \in Bucket}],
           DOMAIN log' = Bucket, DOMAIN count' = Bucket,
           log' = [b \in Bucket |-> log'[b]], count' = [b \in Bucket |-> count'[b]],
           window' = [b \in Bucket |-> window'[b]],
           denial' \in [meta : MetaTool \cup {None}, tool : Tool \cup {None},
                        bucket : Bucket \cup {None}, at : Nat \cup {None}]
    PROVE  TypeOK' /\ \A b \in Bucket : BucketInv(b)'
<1>1. \A b \in Bucket : BucketShape(b) /\ BucketInv(b)'
  BY PrunedKeeps, ChargedKeeps
<1>2. now \in Nat
  BY DEF Inv, TypeOK
<1>3. /\ window' \in [Bucket -> Seq(0..now)]
      /\ log' \in [Bucket -> Seq(0..now)]
      /\ count' \in [Bucket -> Nat]
      /\ \A b \in Bucket : PerMinute[b] # None => Len(window'[b]) <= PerMinute[b]
  BY <1>1 DEF BucketShape
<1> QED  BY <1>1, <1>2, <1>3 DEF TypeOK

\* Looking at a deque does not put off the time a refusal announced.
LEMMA PrunedDenial ==
    ASSUME Inv, \A b \in Bucket : Pruned(b), denial' = denial
    PROVE  DenialInv'
<1> SUFFICES ASSUME denial.at # None PROVE DenialInv'
  BY DEF DenialInv
<1> DEFINE b == denial.bucket
<1>1. /\ b \in Bucket /\ PerMinute[b] # None /\ ~SessionFull(b)
      /\ \/ Len(window[b]) < PerMinute[b]
         \/ window[b][1] + Window <= denial.at
  BY DEF Inv, DenialInv
<1> HIDE DEF b
<1>2. /\ window[b] \in Seq(0..now) /\ Len(window[b]) <= PerMinute[b]
      /\ PerMinute[b] \in Nat
  BY <1>1, LimitAssumption DEF Inv, TypeOK
<1>3. window'[b] \in Fresh(b) \cup {window[b]} /\ count'[b] = count[b]
  BY <1>1 DEF Pruned
<1>4. window'[b] = window[b] \/ Len(window'[b]) < PerMinute[b]
  <2> SUFFICES ASSUME window'[b] \in Fresh(b), window'[b] # window[b]
               PROVE  Len(window'[b]) < PerMinute[b]
    BY <1>3
  <2>1. /\ window'[b] \in Seq(0..now)
        /\ Len(window'[b]) <= Len(window[b]) /\ Len(window'[b]) # Len(window[b])
    BY <1>1, FreshFacts
  <2>2. Len(window'[b]) \in Nat /\ Len(window[b]) \in Nat
    BY <1>2, <2>1
  <2> QED  BY <1>2, <2>1, <2>2
<1>5. ~SessionFull(b)'
  BY <1>1, <1>3 DEF SessionFull, b
<1> QED  BY <1>1, <1>4, <1>5 DEF DenialInv, b

LEMMA CallFacts ==
    ASSUME NEW c \in Calls
    PROVE  c[1] \in MetaTool /\ c[2] \in Tool \cup {None} /\ Buckets(c[1], c[2]) \subseteq Bucket
BY CallsAssumption DEF Buckets, Bucket

LEMMA PermitInv ==
    ASSUME Inv, NEW c \in Calls, NEW record \in BOOLEAN, Permit(c[1], c[2], record)
    PROVE  Inv'
<1> DEFINE B == Buckets(c[1], c[2])
<1>1. B \subseteq Bucket
  BY CallFacts
<1>2. PICK fresh \in FreshWindows(B) :
         /\ \A b \in B : ~Denies(b, fresh[b])
         /\ window' = [b \in Bucket |->
              IF b \in B /\ PerMinute[b] # None
              THEN IF record THEN Append(fresh[b], now) ELSE fresh[b]
              ELSE window[b]]
  BY DEF Permit
<1>3. /\ count' = [b \in Bucket |->
           IF record /\ b \in B /\ PerSession[b] # None THEN count[b] + 1 ELSE count[b]]
      /\ log' = [b \in Bucket |-> IF record /\ b \in B THEN Append(log[b], now) ELSE log[b]]
      /\ denial' = IF record THEN NoDenial ELSE denial
      /\ now' = now
  BY DEF Permit
<1>4. \A b \in B : fresh[b] \in Fresh(b) /\ ~Denies(b, fresh[b])
  BY <1>2 DEF FreshWindows
<1> HIDE DEF B
<1>5. ASSUME NEW b \in Bucket PROVE (record /\ b \in B /\ Charged(b)) \/ (~(record /\ b \in B) /\ Pruned(b))
  <2>1. CASE record /\ b \in B
    <3>1. fresh[b] \in Fresh(b) /\ ~SessionFull(b) /\ ~MinuteFull(b, fresh[b])
      BY <1>4, <2>1 DEF Denies
    <3>2. PerMinute[b] # None => Len(fresh[b]) < PerMinute[b]
      <4>1. PerMinute[b] # None => PerMinute[b] \in Nat  BY LimitAssumption
      <4>2. Len(fresh[b]) \in Nat  BY <3>1, FreshFacts
      <4> QED  BY <3>1, <4>1, <4>2 DEF MinuteFull
    <3>3. /\ PerMinute[b] # None => window'[b] = Append(fresh[b], now)
          /\ PerMinute[b] = None => window'[b] = window[b]
          /\ log'[b] = Append(log[b], now)
          /\ count'[b] = IF PerSession[b] # None THEN count[b] + 1 ELSE count[b]
      BY <1>2, <1>3, <2>1
    <3> QED  BY <2>1, <3>1, <3>2, <3>3 DEF Charged
  <2>2. CASE ~(record /\ b \in B)
    <3>1. window'[b] \in Fresh(b) \cup {window[b]}
      BY <1>2, <1>4, <2>2
    <3> QED  BY <1>3, <2>2, <3>1 DEF Pruned
  <2> QED  BY <2>1, <2>2
<1>6. denial' \in [meta : MetaTool \cup {None}, tool : Tool \cup {None},
                   bucket : Bucket \cup {None}, at : Nat \cup {None}]
  BY <1>3 DEF Inv, TypeOK, NoDenial
<1>7. TypeOK' /\ \A b \in Bucket : BucketInv(b)'
  BY <1>2, <1>3, <1>5, <1>6, BucketsKeep
<1>8. DenialInv'
  <2>1. CASE record
    BY <1>3, <2>1 DEF DenialInv, NoDenial
  <2>2. CASE ~record
    BY <1>3, <1>5, <2>2, PrunedDenial
  <2> QED  BY <2>1, <2>2
<1> QED  BY <1>7, <1>8 DEF Inv

LEMMA RefuseInv ==
    ASSUME Inv, NEW c \in Calls, NEW b \in Bucket, Refuse(c[1], c[2], b)
    PROVE  Inv'
<1> DEFINE meta == c[1]
<1>1. meta \in Bucket /\ meta \in MetaTool /\ c[2] \in Tool \cup {None}
  BY CallFacts DEF Bucket
<1>2. PICK fresh \in FreshWindows({meta, b}) :
         /\ Denies(b, fresh[b])
         /\ window' = [x \in Bucket |->
              IF x \in {meta, b} THEN Kept(x, fresh[x]) ELSE window[x]]
         /\ denial' = [meta |-> meta, tool |-> c[2], bucket |-> b,
              at |-> IF SessionFull(b) THEN None ELSE fresh[b][1] + Window]
  BY DEF Refuse
<1>3. now' = now /\ count' = count /\ log' = log
  BY DEF Refuse
<1>4. \A x \in {meta, b} : fresh[x] \in Fresh(x)
  BY DEF FreshWindows
<1> HIDE DEF meta
<1>5. \A x \in Bucket : Pruned(x)
  BY <1>2, <1>3, <1>4 DEF Pruned, Kept
<1>6. ~SessionFull(b) =>
         /\ PerMinute[b] # None
         /\ window'[b] = fresh[b]
         /\ fresh[b][1] \in Nat
  <2> SUFFICES ASSUME ~SessionFull(b)
               PROVE  PerMinute[b] # None /\ window'[b] = fresh[b] /\ fresh[b][1] \in Nat
    OBVIOUS
  <2>1. PerMinute[b] # None /\ Len(fresh[b]) >= PerMinute[b] /\ PerMinute[b] \in Nat \ {0}
    BY <1>2, LimitAssumption DEF Denies, MinuteFull
  <2>2. window'[b] = fresh[b]
    BY <1>2, <2>1 DEF Kept, Looked
  <2>3. fresh[b] \in Seq(0..now)
    BY <1>4, FreshFacts
  <2>4. 1 \in 1..Len(fresh[b])
    <3> DEFINE w == fresh[b]
    <3>1. Len(w) \in Nat  BY <2>3
    <3> HIDE DEF w
    <3>2. Len(w) >= 1 /\ Len(w) \in Nat  BY <2>1, <3>1 DEF w
    <3> QED  BY <3>2 DEF w
  <2>5. fresh[b][1] \in 0..now
    BY <2>3, <2>4, ElementOfSeq
  <2>6. 0..now \subseteq Nat
    BY DEF Inv, TypeOK
  <2> QED  BY <2>1, <2>2, <2>5, <2>6
<1>7. denial' \in [meta : MetaTool \cup {None}, tool : Tool \cup {None},
                   bucket : Bucket \cup {None}, at : Nat \cup {None}]
  <2>1. (IF SessionFull(b) THEN None ELSE fresh[b][1] + Window) \in Nat \cup {None}
    BY <1>6, WindowAssumption
  <2> QED  BY <1>1, <1>2, <2>1
<1>8. TypeOK' /\ \A x \in Bucket : BucketInv(x)'
  <2>1. /\ DOMAIN window' = Bucket /\ window' = [x \in Bucket |-> window'[x]]
        /\ log' = [x \in Bucket |-> log'[x]] /\ count' = [x \in Bucket |-> count'[x]]
    BY <1>2, <1>3 DEF Inv, TypeOK
  <2> QED  BY <1>3, <1>5, <1>7, <2>1, BucketsKeep
<1>9. DenialInv'
  <2> SUFFICES ASSUME denial'.at # None PROVE DenialInv'
    BY DEF DenialInv
  <2>1. ~SessionFull(b) /\ denial'.at = fresh[b][1] + Window /\ denial'.bucket = b
    BY <1>2
  <2>2. window'[b][1] + Window <= denial'.at
    BY <1>6, <2>1, WindowAssumption
  <2>3. ~SessionFull(b)'
    BY <1>3, <2>1 DEF SessionFull
  <2> QED  BY <1>6, <2>1, <2>2, <2>3 DEF DenialInv
<1> QED  BY <1>8, <1>9 DEF Inv

LEMMA NextInv == Inv /\ [Next]_vars => Inv'
<1> SUFFICES ASSUME Inv, [Next]_vars PROVE Inv'
  OBVIOUS
<1>1. ASSUME NEW c \in Calls, NEW record \in BOOLEAN, Permit(c[1], c[2], record)
      PROVE  Inv'
  BY <1>1, PermitInv
<1>2. ASSUME NEW c \in Calls, NEW b \in Bucket, Refuse(c[1], c[2], b)
      PROVE  Inv'
  BY <1>2, RefuseInv
<1>3. CASE Advance
  BY <1>3, AdvanceInv
<1>4. CASE UNCHANGED vars
  BY <1>4 DEF vars, Inv, TypeOK, BucketInv, DenialInv, Tracks, Spaced, SessionFull
<1> QED  BY <1>1, <1>2, <1>3, <1>4 DEF Next, Check

THEOREM Invariance == Spec => []Inv
<1> QED  BY InitInv, NextInv, PTL DEF Spec

--------------------------------------------------------------------------------
\* TypeOK for every set of buckets, limits and window: in particular no deque
\* outgrows its limit (RateLimiter.check).
THEOREM TypeCorrect == Spec => []TypeOK
<1>1. Inv => TypeOK  BY DEF Inv
<1> QED  BY <1>1, Invariance, PTL

\* SlidingWindow: no 60 seconds take more calls than the limit
\* (RateLimiter._fresh_window, RateLimiter._evaluate).
THEOREM WindowBound == Spec => []SlidingWindow
<1>1. Inv => SlidingWindow  BY DEF Inv, BucketInv, Spaced, SlidingWindow
<1> QED  BY <1>1, Invariance, PTL

\* SessionQuota: the history of a bucket never outgrows its session limit
\* (RateLimiter._evaluate).
THEOREM SessionBound == Spec => []SessionQuota
<1>1. Inv => SessionQuota  BY DEF Inv, BucketInv, SessionQuota
<1> QED  BY <1>1, Invariance, PTL

\* RetryAfterOpensBucket: the announced time is never too early for the bucket
\* that refused (RateLimiter._evaluate).
THEOREM RetryTruth == Spec => []RetryAfterOpensBucket
<1>1. ASSUME Inv PROVE RetryAfterOpensBucket
  <2> SUFFICES ASSUME denial.at # None, now >= denial.at, NEW w \in Fresh(denial.bucket)
               PROVE  ~Denies(denial.bucket, w)
    BY DEF RetryAfterOpensBucket
  <2> DEFINE b == denial.bucket
  <2>1. /\ b \in Bucket /\ PerMinute[b] # None /\ ~SessionFull(b)
        /\ \/ Len(window[b]) < PerMinute[b]
           \/ window[b][1] + Window <= denial.at
    BY <1>1 DEF Inv, DenialInv
  <2> HIDE DEF b
  <2>2. /\ window[b] \in Seq(0..now) /\ Len(window[b]) <= PerMinute[b] /\ now \in Nat
        /\ PerMinute[b] \in Nat \ {0} /\ denial.at \in Nat
    BY <1>1, <2>1, LimitAssumption DEF Inv, TypeOK
  <2>3. /\ w \in Seq(0..now) /\ Len(w) <= Len(window[b])
        /\ w # <<>> => w[1] > now - Window
        /\ Len(w) = Len(window[b]) => w = window[b]
    BY <1>1, <2>1, FreshFacts DEF b
  <2>4. Len(w) \in Nat /\ Len(window[b]) \in Nat
    BY <2>2, <2>3
  <2>5. ~MinuteFull(b, w)
    <3> SUFFICES ASSUME Len(w) >= PerMinute[b] PROVE FALSE
      BY DEF MinuteFull
    <3>1. w = window[b] /\ Len(w) >= 1 /\ 1 \in 1..Len(w)
      BY <2>2, <2>3, <2>4
    <3>2. ~(Len(window[b]) < PerMinute[b])
      BY <2>2, <2>4, <3>1
    <3>3. w[1] + Window <= denial.at
      BY <2>1, <3>1, <3>2
    <3>4. w # <<>> /\ w[1] \in Nat
      <4>1. w[1] \in 0..now  BY <2>3, <3>1, ElementOfSeq
      <4>2. w # <<>>  BY <3>1
      <4> QED  BY <2>2, <4>1, <4>2
    <3>5. w[1] > now - Window
      BY <2>3, <3>4
    <3> QED  BY <2>2, <3>3, <3>4, <3>5, WindowAssumption
  <2> QED  BY <2>1, <2>5 DEF Denies, b
<1> QED  BY <1>1, Invariance, PTL

\* WithinLimits: the type, the window and the session of every bucket.
THEOREM LimitsHold == Spec => []WithinLimits
  BY TypeCorrect, WindowBound, SessionBound, PTL DEF WithinLimits

--------------------------------------------------------------------------------
\* The history of a bucket is in the order of the clock.
Sorted == \A b \in Bucket : \A i, j \in 1..Len(log[b]) : i <= j => log[b][i] <= log[b][j]

LEMMA AppendSorted ==
    ASSUME NEW l \in Seq(Nat), NEW t \in Nat,
           \A i \in 1..Len(l) : l[i] <= t,
           \A i, j \in 1..Len(l) : i <= j => l[i] <= l[j]
    PROVE  \A i, j \in 1..Len(Append(l, t)) : i <= j => Append(l, t)[i] <= Append(l, t)[j]
<1> DEFINE m == Append(l, t)
<1>1. /\ Len(m) = Len(l) + 1 /\ Len(l) \in Nat
      /\ m[Len(m)] = t
      /\ \A i \in 1..Len(l) : m[i] = l[i]
  OBVIOUS
<1> HIDE DEF m
<1>2. ASSUME NEW i \in 1..Len(m), NEW j \in 1..Len(m), i <= j PROVE m[i] <= m[j]
  <2>1. CASE j \in 1..Len(l)
    <3>1. i \in 1..Len(l)  BY <1>1, <1>2, <2>1
    <3> QED  BY <1>1, <1>2, <2>1, <3>1
  <2>2. CASE j = Len(m) /\ i \in 1..Len(l)
    BY <1>1, <2>2
  <2>3. CASE j = Len(m) /\ i = Len(m)
    BY <1>1, <2>3
  <2> QED  BY <1>1, <1>2, <2>1, <2>2, <2>3
<1> QED  BY <1>2 DEF m

LEMMA SortedStep == ASSUME TypeOK, Sorted, [Next]_vars PROVE Sorted'
<1>1. CASE log' = log
  BY <1>1 DEF Sorted
<1>2. ASSUME NEW meta, NEW tool, NEW record, Permit(meta, tool, record) PROVE Sorted'
  <2>1. SUFFICES ASSUME NEW b \in Bucket
                 PROVE  \A i, j \in 1..Len(log'[b]) : i <= j => log'[b][i] <= log'[b][j]
    BY DEF Sorted
  <2>2. log'[b] = log[b] \/ log'[b] = Append(log[b], now)
    BY <1>2 DEF Permit
  <2>3. CASE log'[b] = log[b]
    BY <2>3 DEF Sorted
  <2>4. CASE log'[b] = Append(log[b], now)
    <3>1. now \in Nat /\ log[b] \in Seq(0..now)  BY DEF TypeOK
    <3>2. log[b] \in Seq(Nat) /\ \A i \in 1..Len(log[b]) : log[b][i] <= now
      <4>1. ASSUME NEW i \in 1..Len(log[b]) PROVE log[b][i] \in 0..now
        BY <3>1, ElementOfSeq
      <4> QED  BY <3>1, <4>1
    <3>3. \A i, j \in 1..Len(log[b]) : i <= j => log[b][i] <= log[b][j]
      BY DEF Sorted
    <3> QED  BY <2>4, <3>1, <3>2, <3>3, AppendSorted
  <2> QED  BY <2>2, <2>3, <2>4
<1>3. Next => log' = log \/ \E meta, tool, record : Permit(meta, tool, record)
  BY DEF Next, Check, Refuse, Advance
<1> QED  BY <1>1, <1>2, <1>3 DEF vars

LEMMA HistorySorted == Spec => []Sorted
<1>1. Init => Sorted  BY DEF Init, Sorted
<1> QED  BY <1>1, SortedStep, TypeCorrect, PTL DEF Spec

\* What is left of a deque after its stale front is charged calls of the window.
LEMMA FreshIsRecent ==
    ASSUME NEW v \in Seq(Nat), NEW l \in Seq(Nat), NEW t \in Nat, NEW n \in Nat,
           n < Len(v), v[n + 1] > t - Window, Tracks(v, l, t),
           \A i, j \in 1..Len(l) : i <= j => l[i] <= l[j]
    PROVE  /\ Cardinality({i \in 1..Len(l) : l[i] > t - Window}) >= Len(v) - n
           /\ Cardinality({i \in 1..Len(l) : l[i] > t - Window}) \in Nat
<1> DEFINE Recent == {i \in 1..Len(l) : l[i] > t - Window}
           m == Len(l) - Len(v)
<1>1. Len(l) \in Nat /\ Len(v) \in Nat /\ Len(v) <= Len(l)
  BY DEF Tracks
<1>2. m \in Nat /\ m = Len(l) - Len(v)
  BY <1>1
<1> HIDE DEF m
<1>3. m + (n + 1) \in 1..Len(l) /\ n + 1 \in 1..Len(v)
  BY <1>1, <1>2
<1>4. l[m + (n + 1)] > t - Window
  BY <1>2, <1>3 DEF Tracks
<1>5. (m + (n + 1))..Len(l) \subseteq Recent
  <2> SUFFICES ASSUME NEW i \in (m + (n + 1))..Len(l) PROVE i \in 1..Len(l) /\ l[i] > t - Window
    OBVIOUS
  <2>1. i \in 1..Len(l) /\ m + (n + 1) <= i  BY <1>1, <1>3
  <2>2. l[m + (n + 1)] <= l[i]  BY <1>3, <2>1
  <2>3. l[m + (n + 1)] \in Nat /\ l[i] \in Nat  BY <1>3, <2>1, ElementOfSeq
  <2> QED  BY <1>4, <2>1, <2>2, <2>3, WindowAssumption
<1>6. IsFiniteSet(Recent)
  <2>1. IsFiniteSet(1..Len(l))  BY <1>1, FS_Interval
  <2> QED  BY <2>1, FS_Subset
<1>7. Cardinality((m + (n + 1))..Len(l)) = Len(v) - n
  <2>1. m + (n + 1) \in Int /\ Len(l) \in Int  BY <1>1, <1>2
  <2>2. Cardinality((m + (n + 1))..Len(l)) =
          IF m + (n + 1) > Len(l) THEN 0 ELSE Len(l) - (m + (n + 1)) + 1
    BY <2>1, FS_Interval
  <2> QED  BY <1>1, <1>2, <1>3, <2>2
<1>8. Cardinality((m + (n + 1))..Len(l)) <= Cardinality(Recent) /\ Cardinality(Recent) \in Nat
  BY <1>5, <1>6, FS_Subset, FS_CardinalityType
<1> QED  BY <1>1, <1>7, <1>8

\* RefusalIsDeserved: the calls in a full deque are charged calls of the last 60
\* seconds, however often it was looked at (RateLimiter._evaluate).
THEOREM RefusalEarned == Spec => []RefusalIsDeserved
<1>1. ASSUME Inv, Sorted PROVE RefusalIsDeserved
  <2> SUFFICES ASSUME NEW b \in Bucket, NEW w \in Fresh(b), MinuteFull(b, w)
               PROVE  Cardinality({i \in 1..Len(log[b]) : log[b][i] > now - Window}) >= PerMinute[b]
    BY DEF RefusalIsDeserved
  <2>1. /\ window[b] \in Seq(0..now) /\ log[b] \in Seq(0..now) /\ now \in Nat
        /\ PerMinute[b] \in Nat \ {0} /\ Len(w) >= PerMinute[b]
        /\ Tracks(window[b], log[b], now)
    BY <1>1, LimitAssumption DEF Inv, TypeOK, BucketInv, MinuteFull
  <2>2. window[b] \in Seq(Nat) /\ log[b] \in Seq(Nat)
    BY <2>1
  <2>3. PICK n \in 0..Len(window[b]) : w = SubSeq(window[b], n + 1, Len(window[b])) /\ Stale(n, window[b])
    BY DEF Fresh
  <2>4. n \in Nat /\ Len(window[b]) \in Nat /\ n <= Len(window[b])
    BY <2>2
  <2>5. Len(w) = Len(window[b]) - n
    BY <2>2, <2>3, <2>4
  <2>6. n < Len(window[b])
    BY <2>1, <2>4, <2>5
  <2>7. window[b][n + 1] > now - Window
    BY <2>3, <2>6 DEF Stale
  <2>8. \A i, j \in 1..Len(log[b]) : i <= j => log[b][i] <= log[b][j]
    BY <1>1 DEF Sorted
  <2>9. /\ Cardinality({i \in 1..Len(log[b]) : log[b][i] > now - Window}) >= Len(window[b]) - n
        /\ Cardinality({i \in 1..Len(log[b]) : log[b][i] > now - Window}) \in Nat
    BY <2>1, <2>2, <2>4, <2>6, <2>7, <2>8, FreshIsRecent
  <2> QED  BY <2>1, <2>5, <2>9
<1> QED  BY <1>1, Invariance, HistorySorted, PTL

\* RefusalsTrue: a refusal is deserved, and its retry_after is the truth.
THEOREM RefusalsAreTrue == Spec => []RefusalsTrue
  BY RefusalEarned, RetryTruth, PTL DEF RefusalsTrue

--------------------------------------------------------------------------------
(***************************************************************************)
(* The guard of model calls, for any number of callers.  The threads between its*)
(* checks and their dispatch are counted with what has been called (CapKept,*)
(* CooldownKept), and the streak is the run of failures at the end of the last*)
(* outcomes (StreakTrue).                                                  *)
(***************************************************************************)
\* The instance counts with the same Cardinality.
LEMMA GuardCounts == \A S : /\ Guard!Cardinality(S) = Cardinality(S)
                            /\ Guard!IsFiniteSet(S) <=> IsFiniteSet(S)
  BY DEF Guard!Cardinality, Cardinality, Guard!IsFiniteSet, IsFiniteSet

LEMMA CallersFinite == ASSUME Guard!GuardConstants PROVE IsFiniteSet(Caller)
  BY GuardCounts DEF Guard!GuardConstants

Stages == {"idle", "capped", "timed", "cleared", "calling", "opening"}

GuardTypeOK == /\ time \in Nat /\ attempted \in Nat /\ streak \in Nat /\ since \in Nat
          /\ open \in BOOLEAN
          /\ openedAt \in Nat \cup {None} /\ tripped \in Nat \cup {None}
          /\ caller \in [Caller -> [at : Stages, read : Nat \cup {None}]]
          /\ outcomes \in Seq(BOOLEAN)

\* The streak is the run of failures at the end of the outcomes, as far as they go.
StreakTrue == LET l == Len(outcomes)
              IN  /\ l <= Threshold
                  /\ streak > l => l = Threshold
                  /\ \A i \in 1..l : i > l - streak => outcomes[i] = TRUE
                  /\ streak < l => outcomes[l - streak] = FALSE
OpenTrue == open = TRUE <=> streak >= Threshold

\* Callers that have passed a check and not dispatched yet.
Capped == {c \in Caller : caller[c].at \in {"capped", "timed", "cleared"}}
Cleared == {c \in Caller : caller[c].at = "cleared"}

\* Each of those may still make one call.
CapKept == attempted + Cardinality(Capped) < CallCap + Cardinality(Caller)
Cooling == open = TRUE /\ tripped # None /\ time - tripped < Cooldown
CooldownKept == /\ tripped # None => openedAt = tripped /\ (open = FALSE => since = 0)
                /\ Cooling => since + Cardinality(Cleared) < Cardinality(Caller)
                /\ \A c \in Caller : Guard!At(c, "timed") => caller[c].read \in Nat /\ caller[c].read <= time

GuardIInv == GuardTypeOK /\ StreakTrue /\ OpenTrue /\ CapKept /\ CooldownKept

LEMMA GuardInitIInv == Guard!GuardConstants /\ Guard!Init => GuardIInv
<1> SUFFICES ASSUME Guard!GuardConstants, Guard!Init PROVE GuardIInv
  OBVIOUS
<1>1. Capped = {} /\ Cleared = {} /\ \A c \in Caller : ~Guard!At(c, "timed")
  BY DEF Guard!Init, Guard!Idle, Capped, Cleared, Guard!At
<1>2. Cardinality({}) = 0 /\ Cardinality(Caller) \in Nat
  BY CallersFinite, FS_EmptySet, FS_CardinalityType DEF Guard!GuardConstants
<1>3. GuardTypeOK
  <2>1. <<>> \in Seq(BOOLEAN)
    OBVIOUS
  <2>2. caller \in [Caller -> [at : Stages, read : Nat \cup {None}]]
    BY DEF Guard!Init, Guard!Idle, Stages
  <2> QED  BY <2>1, <2>2 DEF Guard!Init, GuardTypeOK
<1>4. outcomes = <<>> /\ Len(outcomes) = 0 /\ streak = 0 /\ open = FALSE
  BY DEF Guard!Init
<1>5. StreakTrue /\ OpenTrue
  BY <1>4 DEF StreakTrue, OpenTrue, Guard!GuardConstants
<1>6. CapKept
  BY <1>1, <1>2 DEF CapKept, Guard!Init, Guard!GuardConstants
<1>7. CooldownKept
  BY <1>1, <1>4 DEF CooldownKept, Cooling, Guard!Init
<1> QED  BY <1>3, <1>5, <1>6, <1>7 DEF GuardIInv

\* The window of outcomes moves by one.
LEMMA Slides ==
  ASSUME GuardTypeOK, NEW b \in BOOLEAN, Threshold \in Nat \ {0}, Len(outcomes) <= Threshold
  PROVE  LET new == Guard!Recorded(b)
             l == Len(outcomes)
             k == IF l = Threshold THEN 1 ELSE 0
         IN  /\ new \in Seq(BOOLEAN) /\ Len(new) = l + 1 - k
             /\ new[l + 1 - k] = b
             /\ \A i \in 1..(l - k) : new[i] = outcomes[i + k]
<1> DEFINE l == Len(outcomes)
           all == Append(outcomes, b)
<1>1. outcomes \in Seq(BOOLEAN) /\ l \in Nat
  BY DEF GuardTypeOK
<1>2. /\ all \in Seq(BOOLEAN) /\ Len(all) = l + 1 /\ all[l + 1] = b
      /\ \A i \in 1..l : all[i] = outcomes[i]
  BY <1>1
<1> HIDE DEF all
<1>3. CASE l = Threshold
  <2>1. Guard!Recorded(b) = Tail(all)
    BY <1>2, <1>3 DEF Guard!Recorded, all
  <2>2. all # <<>>
    BY <1>1, <1>2
  <2>3. /\ Tail(all) \in Seq(BOOLEAN) /\ Len(Tail(all)) = l
        /\ \A i \in 1..l : Tail(all)[i] = all[i + 1]
    BY <1>1, <1>2, <2>2, HeadTailProperties
  <2>4. Tail(all)[l] = b
    BY <1>1, <1>2, <1>3, <2>3
  <2>5. \A i \in 1..(l - 1) : Tail(all)[i] = outcomes[i + 1]
    BY <1>1, <1>2, <2>3
  <2> QED  BY <1>1, <1>3, <2>1, <2>3, <2>4, <2>5
<1>4. CASE l # Threshold
  <2>1. Guard!Recorded(b) = all
    BY <1>1, <1>2, <1>4 DEF Guard!Recorded, all
  <2> QED  BY <1>1, <1>2, <1>4, <2>1
<1> QED  BY <1>3, <1>4

LEMMA FailureTrue ==
  ASSUME Guard!GuardConstants, GuardTypeOK, StreakTrue, streak' = streak + 1, outcomes' = Guard!Recorded(TRUE)
  PROVE  outcomes' \in Seq(BOOLEAN) /\ StreakTrue'
<1> DEFINE l == Len(outcomes)
           k == IF l = Threshold THEN 1 ELSE 0
<1>1. l \in Nat /\ streak \in Nat /\ l <= Threshold /\ Threshold \in Nat \ {0}
  BY DEF GuardTypeOK, StreakTrue, Guard!GuardConstants
<1>2. /\ outcomes' \in Seq(BOOLEAN) /\ Len(outcomes') = l + 1 - k
      /\ outcomes'[l + 1 - k] = TRUE
      /\ \A i \in 1..(l - k) : outcomes'[i] = outcomes[i + k]
  BY <1>1, Slides
<1>3. /\ streak > l => l = Threshold
      /\ \A i \in 1..l : i > l - streak => outcomes[i] = TRUE
      /\ streak < l => outcomes[l - streak] = FALSE
  BY DEF StreakTrue
<1> DEFINE m == l + 1 - k
<1>4. m \in Nat /\ m <= Threshold /\ (streak + 1 > m => m = Threshold)
  BY <1>1, <1>3
<1>5. \A i \in 1..m : i > m - (streak + 1) => outcomes'[i] = TRUE
  <2> SUFFICES ASSUME NEW i \in 1..m, i > m - (streak + 1) PROVE outcomes'[i] = TRUE
    OBVIOUS
  <2>1. CASE i = m
    BY <1>2, <2>1
  <2>2. CASE i # m
    <3>1. i \in 1..(l - k) /\ i + k \in 1..l /\ i + k > l - streak
      BY <1>1, <2>2
    <3> QED  BY <1>2, <1>3, <3>1
  <2> QED  BY <2>1, <2>2
<1>6. streak + 1 < m => outcomes'[m - (streak + 1)] = FALSE
  <2> SUFFICES ASSUME streak + 1 < m PROVE outcomes'[m - (streak + 1)] = FALSE
    OBVIOUS
  <2>1. m - (streak + 1) \in 1..(l - k) /\ (m - (streak + 1)) + k = l - streak /\ streak < l
    BY <1>1
  <2> QED  BY <1>2, <1>3, <2>1
<1> HIDE DEF l, k
<1> QED  BY <1>2, <1>4, <1>5, <1>6 DEF StreakTrue

LEMMA SuccessTrue ==
  ASSUME Guard!GuardConstants, GuardTypeOK, StreakTrue, streak' = 0, outcomes' = Guard!Recorded(FALSE)
  PROVE  outcomes' \in Seq(BOOLEAN) /\ StreakTrue'
<1> DEFINE l == Len(outcomes)
           k == IF l = Threshold THEN 1 ELSE 0
<1>1. l \in Nat /\ l <= Threshold /\ Threshold \in Nat \ {0}
  BY DEF GuardTypeOK, StreakTrue, Guard!GuardConstants
<1>2. /\ outcomes' \in Seq(BOOLEAN) /\ Len(outcomes') = l + 1 - k
      /\ outcomes'[l + 1 - k] = FALSE
  BY <1>1, Slides
<1> DEFINE m == l + 1 - k
<1>3. m \in Nat \ {0} /\ m <= Threshold /\ m - 0 = m
  BY <1>1
<1>4. outcomes' \in Seq(BOOLEAN) /\ Len(outcomes') = m /\ outcomes'[m] = FALSE
  BY <1>2
<1> HIDE DEF m
<1>5. m - 0 = m
  BY <1>3
<1>6. /\ m <= Threshold /\ ~(0 > m) /\ 0 < m
      /\ \A i \in 1..m : i > m - 0 => outcomes'[i] = TRUE
  <2>1. \A i \in 1..m : ~(i > m)
    BY <1>3
  <2>2. m <= Threshold /\ ~(0 > m) /\ 0 < m
    BY <1>3
  <2> QED  BY <1>5, <2>1, <2>2
<1>7. StreakTrue'
  <2>1. outcomes'[m - 0] = FALSE
    BY <1>4, <1>5
  <2> QED  BY <1>4, <1>6, <2>1 DEF StreakTrue
<1> QED  BY <1>4, <1>7

\* A caller moves: who is past the check may be one less, or one more.
LEMMA Moves ==
  ASSUME Guard!GuardConstants, GuardTypeOK, NEW c \in Caller, NEW to, caller' = [caller EXCEPT ![c] = to]
  PROVE  /\ caller'[c] = to /\ \A d \in Caller : d # c => caller'[d] = caller[d]
         /\ Cardinality(Capped) \in Nat /\ Cardinality(Cleared) \in Nat
         /\ LET past == to.at \in {"capped", "timed", "cleared"}
            IN  /\ (c \in Capped <=> past) => Cardinality(Capped)' = Cardinality(Capped)
                /\ c \notin Capped /\ past => Cardinality(Capped)' = Cardinality(Capped) + 1
                /\ c \in Capped /\ ~past => Cardinality(Capped)' = Cardinality(Capped) - 1
         /\ (c \in Cleared <=> to.at = "cleared") => Cardinality(Cleared)' = Cardinality(Cleared)
         /\ c \notin Cleared /\ to.at = "cleared" => Cardinality(Cleared)' = Cardinality(Cleared) + 1
         /\ c \in Cleared /\ to.at # "cleared" => Cardinality(Cleared)' = Cardinality(Cleared) - 1
         /\ c \notin Cleared' => Cardinality(Cleared)' < Cardinality(Caller)
         /\ Cardinality(Caller) \in Nat /\ Cardinality(Capped) <= Cardinality(Caller)
         /\ c \notin Capped => Cardinality(Capped) < Cardinality(Caller)
<1>1. caller'[c] = to /\ \A d \in Caller : d # c => caller'[d] = caller[d]
  BY DEF GuardTypeOK
<1>2. Capped' \subseteq Caller /\ Capped \subseteq Caller /\ Cleared \subseteq Caller /\ Cleared' \subseteq Caller
  BY DEF Capped, Cleared
<1>3. IsFiniteSet(Capped) /\ IsFiniteSet(Cleared) /\ IsFiniteSet(Capped') /\ IsFiniteSet(Cleared')
  BY CallersFinite, <1>2, FS_Subset DEF Guard!GuardConstants
<1>4. /\ Cardinality(Capped) \in Nat /\ Cardinality(Cleared) \in Nat /\ Cardinality(Caller) \in Nat
      /\ Cardinality(Capped)' \in Nat /\ Cardinality(Cleared)' \in Nat
  BY CallersFinite, <1>3, FS_CardinalityType DEF Guard!GuardConstants
<1>5. \A S, T : IsFiniteSet(S) /\ IsFiniteSet(T) /\ S \ {c} = T \ {c} =>
         /\ (c \in S <=> c \in T) => Cardinality(T) = Cardinality(S)
         /\ c \notin S /\ c \in T => Cardinality(T) = Cardinality(S) + 1
         /\ c \in S /\ c \notin T => Cardinality(T) = Cardinality(S) - 1
  <2> SUFFICES ASSUME NEW S, NEW T, IsFiniteSet(S), IsFiniteSet(T), S \ {c} = T \ {c}
               PROVE  /\ (c \in S <=> c \in T) => Cardinality(T) = Cardinality(S)
                      /\ c \notin S /\ c \in T => Cardinality(T) = Cardinality(S) + 1
                      /\ c \in S /\ c \notin T => Cardinality(T) = Cardinality(S) - 1
    OBVIOUS
  <2>1. /\ Cardinality(S) \in Nat /\ Cardinality(T) \in Nat
        /\ Cardinality(S \ {c}) = IF c \in S THEN Cardinality(S) - 1 ELSE Cardinality(S)
        /\ Cardinality(T \ {c}) = IF c \in T THEN Cardinality(T) - 1 ELSE Cardinality(T)
    BY FS_RemoveElement, FS_CardinalityType
  <2>2. Cardinality(S \ {c}) = Cardinality(T \ {c})
    OBVIOUS
  <2> QED  BY <2>1, <2>2
<1>6. Capped \ {c} = Capped' \ {c} /\ Cleared \ {c} = Cleared' \ {c}
  BY <1>1 DEF Capped, Cleared
<1>7. /\ c \in Capped' <=> to.at \in {"capped", "timed", "cleared"}
      /\ c \in Cleared' <=> to.at = "cleared"
  BY <1>1 DEF Capped, Cleared
<1>8. \A S \in SUBSET Caller : Cardinality(S) <= Cardinality(Caller) /\ (c \notin S => Cardinality(S) < Cardinality(Caller))
  <2> SUFFICES ASSUME NEW S \in SUBSET Caller
               PROVE  Cardinality(S) <= Cardinality(Caller) /\ (c \notin S => Cardinality(S) < Cardinality(Caller))
    OBVIOUS
  <2>1. /\ IsFiniteSet(S) /\ Cardinality(S) <= Cardinality(Caller)
        /\ Cardinality(S) = Cardinality(Caller) => S = Caller
    BY CallersFinite, FS_Subset DEF Guard!GuardConstants
  <2>2. Cardinality(S) \in Nat
    BY <2>1, FS_CardinalityType
  <2> QED  BY <1>4, <2>1, <2>2
<1>9. /\ (c \in Capped <=> c \in Capped') => Cardinality(Capped') = Cardinality(Capped)
      /\ c \notin Capped /\ c \in Capped' => Cardinality(Capped') = Cardinality(Capped) + 1
      /\ c \in Capped /\ c \notin Capped' => Cardinality(Capped') = Cardinality(Capped) - 1
      /\ (c \in Cleared <=> c \in Cleared') => Cardinality(Cleared') = Cardinality(Cleared)
      /\ c \notin Cleared /\ c \in Cleared' => Cardinality(Cleared') = Cardinality(Cleared) + 1
      /\ c \in Cleared /\ c \notin Cleared' => Cardinality(Cleared') = Cardinality(Cleared) - 1
  BY <1>3, <1>5, <1>6
<1>10. c \notin Cleared' => Cardinality(Cleared') < Cardinality(Caller)
  BY <1>2, <1>8
<1> QED  BY <1>1, <1>2, <1>4, <1>7, <1>8, <1>9, <1>10

LEMMA GuardCallIInv == ASSUME Guard!GuardConstants, GuardIInv, NEW c \in Caller, Guard!Call(c) PROVE GuardIInv'
<1>1. GuardTypeOK /\ StreakTrue /\ OpenTrue /\ CapKept /\ CooldownKept
  BY DEF GuardIInv
<1>2. /\ Threshold \in Nat \ {0} /\ CallCap \in Nat \ {0} /\ Cooldown \in Nat /\ None \notin Nat
      /\ time \in Nat /\ attempted \in Nat /\ since \in Nat /\ streak \in Nat /\ open \in BOOLEAN
      /\ openedAt \in Nat \cup {None} /\ tripped \in Nat \cup {None}
  BY <1>1 DEF Guard!GuardConstants, GuardTypeOK
<1>3. \A to : caller' = [caller EXCEPT ![c] = to] /\ to \in [at : Stages, read : Nat \cup {None}] =>
         caller' \in [Caller -> [at : Stages, read : Nat \cup {None}]]
  BY <1>1 DEF GuardTypeOK
<1>4. \A a : [Guard!Idle EXCEPT !.at = a] = [at |-> a, read |-> None]
  BY DEF Guard!Idle
\* Where c goes to, and who is then past a check.
<1>5. ASSUME NEW to \in [at : Stages, read : Nat \cup {None}], caller' = [caller EXCEPT ![c] = to],
             to.at = "timed" => to.read \in Nat /\ to.read <= time',
             time' = time
      PROVE  /\ caller' \in [Caller -> [at : Stages, read : Nat \cup {None}]]
             /\ \A d \in Caller : Guard!At(d, "timed")' => caller'[d].read \in Nat /\ caller'[d].read <= time'
  <2>1. caller'[c] = to /\ \A d \in Caller : d # c => caller'[d] = caller[d]
    BY <1>5, Moves, <1>1
  <2> QED  BY <1>1, <1>3, <1>5, <2>1 DEF CooldownKept, Guard!At
<1>6. \A a \in Stages : /\ [at |-> a, read |-> None] \in [at : Stages, read : Nat \cup {None}]
                        /\ Guard!Goes(c, a) => caller' = [caller EXCEPT ![c] = [at |-> a, read |-> None]]
  BY <1>4 DEF Guard!Goes
<1>7. CASE Guard!CheckCap(c)
  <2> DEFINE to == [at |-> "capped", read |-> None]
  <2>1. /\ Guard!At(c, "idle") /\ attempted < CallCap /\ caller' = [caller EXCEPT ![c] = to]
        /\ UNCHANGED <<time, attempted, streak, open, openedAt, outcomes, tripped, since>>
    BY <1>6, <1>7 DEF Guard!CheckCap, Stages
  <2>20. to.at = "capped" /\ to \in [at : Stages, read : Nat \cup {None}]
    BY <1>2, <1>6 DEF Stages
  <2> HIDE DEF to
  <2>2. c \notin Capped /\ c \notin Cleared
    BY <2>1 DEF Capped, Cleared, Guard!At
  <2>3. /\ Cardinality(Capped) < Cardinality(Caller) /\ Cardinality(Capped) \in Nat
        /\ Cardinality(Caller) \in Nat
        /\ Cardinality(Capped)' = Cardinality(Capped) + 1 /\ Cardinality(Cleared)' = Cardinality(Cleared)
    BY <1>1, <2>20, <2>1, <2>2, Moves
  <2>4. CapKept'
    BY <1>2, <2>1, <2>3 DEF CapKept
  <2>5. GuardTypeOK' /\ \A d \in Caller : Guard!At(d, "timed")' => caller'[d].read \in Nat /\ caller'[d].read <= time'
    BY <1>1, <1>5, <2>20, <2>1 DEF GuardTypeOK
  <2>6. CooldownKept'
    BY <1>1, <2>1, <2>3, <2>5 DEF CooldownKept, Cooling
  <2> QED  BY <1>1, <2>1, <2>4, <2>5, <2>6 DEF GuardIInv, StreakTrue, OpenTrue
<1>8. CASE Guard!ReadClock(c)
  <2> DEFINE to == [at |-> "timed", read |-> time]
  <2>1. /\ Guard!At(c, "capped") /\ caller' = [caller EXCEPT ![c] = to]
        /\ UNCHANGED <<time, attempted, streak, open, openedAt, outcomes, tripped, since>>
    BY <1>8 DEF Guard!ReadClock
  <2>20. to.at = "timed" /\ to \in [at : Stages, read : Nat \cup {None}] /\ to.read = time
    BY <1>2, <1>6 DEF Stages
  <2> HIDE DEF to
  <2>2. c \in Capped /\ c \notin Cleared
    BY <2>1 DEF Capped, Cleared, Guard!At
  <2>3. /\ Cardinality(Capped) \in Nat
        /\ Cardinality(Capped)' = Cardinality(Capped) /\ Cardinality(Cleared)' = Cardinality(Cleared)
    BY <1>1, <2>20, <2>1, <2>2, Moves
  <2>4. CapKept'
    BY <1>1, <2>1, <2>3 DEF CapKept
  <2>5. GuardTypeOK' /\ \A d \in Caller : Guard!At(d, "timed")' => caller'[d].read \in Nat /\ caller'[d].read <= time'
    <3>1. /\ to.at = "timed" => to.read \in Nat /\ to.read <= time'
          /\ time' = time /\ to \in [at : Stages, read : Nat \cup {None}]
      BY <1>2, <2>1, <2>20
    <3>2. /\ caller' \in [Caller -> [at : Stages, read : Nat \cup {None}]]
          /\ \A d \in Caller : Guard!At(d, "timed")' => caller'[d].read \in Nat /\ caller'[d].read <= time'
      BY <1>5, <2>1, <3>1
    <3>3. /\ time' \in Nat /\ attempted' \in Nat /\ streak' \in Nat /\ since' \in Nat /\ open' \in BOOLEAN
      BY <1>2, <2>1
    <3> QED  BY <1>1, <2>1, <3>2, <3>3 DEF GuardTypeOK
  <2>6. CooldownKept'
    BY <1>1, <2>1, <2>3, <2>5 DEF CooldownKept, Cooling
  <2> QED  BY <1>1, <2>1, <2>4, <2>5, <2>6 DEF GuardIInv, StreakTrue, OpenTrue
<1>9. CASE Guard!CheckCircuit(c)
  <2> DEFINE a == IF Guard!Rejects(c) THEN "idle" ELSE "cleared"
  <2>1. /\ Guard!At(c, "timed") /\ a \in Stages /\ caller' = [caller EXCEPT ![c] = [at |-> a, read |-> None]]
        /\ UNCHANGED <<time, attempted, streak, open, openedAt, outcomes, tripped, since>>
    BY <1>6, <1>9 DEF Guard!CheckCircuit, Stages
  <2>2. c \in Capped /\ c \notin Cleared
    BY <2>1 DEF Capped, Cleared, Guard!At
  <2>3. Cooling => a = "idle"
    <3> SUFFICES ASSUME Cooling PROVE Guard!Rejects(c)
      OBVIOUS
    <3>1. /\ tripped \in Nat /\ openedAt = tripped /\ time - tripped < Cooldown
          /\ caller[c].read \in Nat /\ caller[c].read <= time
      BY <1>1, <1>2, <2>1 DEF CooldownKept, Cooling
    <3>2. openedAt # None /\ Cooldown - (caller[c].read - openedAt) > 0
      BY <1>2, <3>1
    <3> QED  BY <3>2 DEF Guard!Rejects, Cooling
  <2> DEFINE to == [at |-> a, read |-> None]
  <2>4. to \in [at : Stages, read : Nat \cup {None}] /\ to.at = a /\ a \in {"idle", "cleared"}
    BY <1>6, <2>1
  <2> HIDE DEF a
  <2>5. /\ Cardinality(Capped) \in Nat /\ Cardinality(Cleared) \in Nat /\ Cardinality(Caller) \in Nat
        /\ Cardinality(Capped)' <= Cardinality(Capped)
        /\ Cardinality(Capped)' \in Nat
        /\ Cooling => Cardinality(Cleared)' = Cardinality(Cleared)
    <3>1. /\ Cardinality(Capped)' \in {Cardinality(Capped), Cardinality(Capped) - 1}
          /\ to.at # "cleared" => Cardinality(Cleared)' = Cardinality(Cleared)
          /\ Cardinality(Capped) \in Nat /\ Cardinality(Cleared) \in Nat /\ Cardinality(Caller) \in Nat
      <4> HIDE DEF to
      <4>1. caller' = [caller EXCEPT ![c] = to]
        BY <2>1 DEF to
      <4> QED  BY <1>1, <2>2, <2>4, <4>1, Moves
    <3>2. Cardinality(Capped) >= 1
      <4>1. IsFiniteSet(Capped)
        BY CallersFinite, FS_Subset DEF Capped, Guard!GuardConstants
      <4> QED  BY <2>2, <3>1, <4>1, FS_EmptySet
    <3> QED  BY <2>2, <2>3, <2>4, <3>1, <3>2
  <2>6. CapKept'
    BY <1>1, <1>2, <2>1, <2>5 DEF CapKept
  <2>7. GuardTypeOK' /\ \A d \in Caller : Guard!At(d, "timed")' => caller'[d].read \in Nat /\ caller'[d].read <= time'
    <3> HIDE DEF to
    <3>1. caller' = [caller EXCEPT ![c] = to]
      BY <2>1 DEF to
    <3> QED  BY <1>1, <1>5, <2>1, <2>4, <3>1 DEF GuardTypeOK
  <2>8. CooldownKept'
    BY <1>1, <2>1, <2>5, <2>7 DEF CooldownKept, Cooling
  <2> QED  BY <1>1, <2>1, <2>6, <2>7, <2>8 DEF GuardIInv, StreakTrue, OpenTrue
<1>10. CASE Guard!Dispatch(c)
  <2> DEFINE to == [at |-> "calling", read |-> None]
  <2>1. /\ Guard!At(c, "cleared") /\ attempted' = attempted + 1 /\ since' = IF open THEN since + 1 ELSE since
        /\ caller' = [caller EXCEPT ![c] = to]
        /\ UNCHANGED <<time, streak, open, openedAt, outcomes, tripped>>
    BY <1>6, <1>10 DEF Guard!Dispatch, Stages
  <2>20. to.at = "calling" /\ to \in [at : Stages, read : Nat \cup {None}]
    BY <1>2, <1>6 DEF Stages
  <2> HIDE DEF to
  <2>2. c \in Capped /\ c \in Cleared
    BY <2>1 DEF Capped, Cleared, Guard!At
  <2>3. /\ Cardinality(Capped) \in Nat /\ Cardinality(Cleared) \in Nat
        /\ Cardinality(Capped)' = Cardinality(Capped) - 1 /\ Cardinality(Cleared)' = Cardinality(Cleared) - 1
    BY <1>1, <2>20, <2>1, <2>2, Moves
  <2>4. CapKept'
    BY <1>1, <1>2, <2>1, <2>3 DEF CapKept
  <2>5. GuardTypeOK' /\ \A d \in Caller : Guard!At(d, "timed")' => caller'[d].read \in Nat /\ caller'[d].read <= time'
    <3>1. /\ to.at = "timed" => to.read \in Nat /\ to.read <= time'
          /\ time' = time /\ to \in [at : Stages, read : Nat \cup {None}]
      BY <1>2, <2>1, <2>20
    <3>2. /\ caller' \in [Caller -> [at : Stages, read : Nat \cup {None}]]
          /\ \A d \in Caller : Guard!At(d, "timed")' => caller'[d].read \in Nat /\ caller'[d].read <= time'
      BY <1>5, <2>1, <3>1
    <3>3. /\ time' \in Nat /\ attempted' \in Nat /\ streak' \in Nat /\ since' \in Nat /\ open' \in BOOLEAN
      BY <1>2, <2>1
    <3> QED  BY <1>1, <2>1, <3>2, <3>3 DEF GuardTypeOK
  <2>6. since' = IF open = TRUE THEN since + 1 ELSE since
    BY <1>2, <2>1
  <2>7. CooldownKept'
    BY <1>1, <1>2, <2>1, <2>3, <2>5, <2>6 DEF CooldownKept, Cooling
  <2> QED  BY <1>1, <2>1, <2>4, <2>5, <2>7 DEF GuardIInv, StreakTrue, OpenTrue
<1>11. CASE Guard!RecordFailure(c)
  <2> DEFINE a == IF streak + 1 >= Threshold THEN "opening" ELSE "idle"
             to == [at |-> a, read |-> None]
  <2>1. /\ Guard!At(c, "calling") /\ streak' = streak + 1 /\ outcomes' = Guard!Recorded(TRUE)
        /\ open' = (open \/ streak + 1 >= Threshold)
        /\ a \in Stages /\ caller' = [caller EXCEPT ![c] = to]
        /\ UNCHANGED <<time, attempted, openedAt, tripped, since>>
    BY <1>6, <1>11 DEF Guard!RecordFailure, Guard!Trips, Stages
  <2>2. c \notin Capped /\ c \notin Cleared
    BY <2>1 DEF Capped, Cleared, Guard!At
  <2>3. to \in [at : Stages, read : Nat \cup {None}] /\ to.at \in {"opening", "idle"}
    BY <1>6, <2>1
  <2> HIDE DEF to
  <2>4. /\ caller'[c] = to
        /\ Cardinality(Capped)' = Cardinality(Capped) /\ Cardinality(Capped) \in Nat
        /\ Cardinality(Cleared)' = Cardinality(Cleared) /\ Cardinality(Cleared) \in Nat
        /\ c \notin Cleared' => Cardinality(Cleared)' < Cardinality(Caller)
        /\ Cardinality(Caller) \in Nat
    BY <1>1, <2>1, <2>2, <2>3, Moves
  <2>5. c \notin Cleared'
    BY <2>3, <2>4 DEF Cleared
  <2>6. CapKept'
    BY <1>1, <1>2, <2>1, <2>4 DEF CapKept
  <2>7. outcomes' \in Seq(BOOLEAN) /\ StreakTrue'
    BY <1>1, <2>1, FailureTrue
  <2>8. open' \in BOOLEAN /\ (open' = TRUE <=> open = TRUE \/ streak + 1 >= Threshold)
    BY <1>2, <2>1
  <2>9. OpenTrue'
    BY <1>1, <1>2, <2>1, <2>8 DEF OpenTrue
  <2>10. GuardTypeOK' /\ \A d \in Caller : Guard!At(d, "timed")' => caller'[d].read \in Nat /\ caller'[d].read <= time'
    <3>1. /\ to.at = "timed" => to.read \in Nat /\ to.read <= time'
          /\ time' = time /\ to \in [at : Stages, read : Nat \cup {None}]
      BY <1>2, <2>1, <2>3
    <3>2. /\ caller' \in [Caller -> [at : Stages, read : Nat \cup {None}]]
          /\ \A d \in Caller : Guard!At(d, "timed")' => caller'[d].read \in Nat /\ caller'[d].read <= time'
      BY <1>5, <2>1, <3>1
    <3>3. /\ time' \in Nat /\ attempted' \in Nat /\ streak' \in Nat /\ since' \in Nat /\ open' \in BOOLEAN
      BY <1>2, <2>1, <2>7, <2>8
    <3> QED  BY <1>1, <2>1, <2>7, <2>8, <3>2, <3>3 DEF GuardTypeOK
  <2>11. CooldownKept'
    <3>1. open' = FALSE => open = FALSE
      BY <1>2, <2>8
    <3>2. Cooling' => since' + Cardinality(Cleared)' < Cardinality(Caller)
      <4>1. CASE open = TRUE
        BY <1>1, <2>1, <2>4, <4>1 DEF CooldownKept, Cooling
      <4>2. CASE open = FALSE
        BY <1>1, <1>2, <2>1, <2>4, <2>5, <4>2 DEF CooldownKept, Cooling
      <4> QED  BY <1>2, <4>1, <4>2
    <3> QED  BY <1>1, <2>1, <2>10, <3>1, <3>2 DEF CooldownKept
  <2> QED  BY <2>6, <2>7, <2>9, <2>10, <2>11 DEF GuardIInv
<1>12. CASE Guard!SetOpenedAt(c)
  <2> DEFINE to == [at |-> "idle", read |-> None]
  <2>1. /\ Guard!At(c, "opening") /\ openedAt' = time /\ tripped' = time /\ since' = 0
        /\ caller' = [caller EXCEPT ![c] = to]
        /\ UNCHANGED <<time, attempted, streak, open, outcomes>>
    BY <1>6, <1>12 DEF Guard!SetOpenedAt, Stages
  <2>20. to.at = "idle" /\ to \in [at : Stages, read : Nat \cup {None}]
    BY <1>2, <1>6 DEF Stages
  <2> HIDE DEF to
  <2>2. c \notin Capped /\ c \notin Cleared
    BY <2>1 DEF Capped, Cleared, Guard!At
  <2>3. /\ Cardinality(Capped)' = Cardinality(Capped) /\ Cardinality(Capped) \in Nat
        /\ Cardinality(Cleared)' = Cardinality(Cleared) /\ Cardinality(Cleared) \in Nat
        /\ caller'[c] = to
        /\ c \notin Cleared' => Cardinality(Cleared)' < Cardinality(Caller)
    BY <1>1, <2>20, <2>1, <2>2, Moves
  <2>4. c \notin Cleared'
    BY <2>20, <2>3 DEF Cleared
  <2>5. CapKept'
    BY <1>1, <2>1, <2>3 DEF CapKept
  <2>6. GuardTypeOK' /\ \A d \in Caller : Guard!At(d, "timed")' => caller'[d].read \in Nat /\ caller'[d].read <= time'
    BY <1>1, <1>2, <1>5, <2>20, <2>1 DEF GuardTypeOK
  <2>7. CooldownKept'
    BY <2>1, <2>3, <2>4, <2>6 DEF CooldownKept
  <2> QED  BY <1>1, <2>1, <2>5, <2>6, <2>7 DEF GuardIInv, StreakTrue, OpenTrue
<1>13. CASE Guard!RecordSuccess(c)
  <2> DEFINE to == [at |-> "idle", read |-> None]
  <2>1. /\ Guard!At(c, "calling") /\ streak' = 0 /\ outcomes' = Guard!Recorded(FALSE) /\ open' = FALSE
        /\ openedAt' \in {openedAt, None} /\ tripped' = None
        /\ caller' = [caller EXCEPT ![c] = to]
        /\ UNCHANGED <<time, attempted, since>>
    BY <1>6, <1>13 DEF Guard!RecordSuccess, Stages
  <2>20. to.at = "idle" /\ to \in [at : Stages, read : Nat \cup {None}]
    BY <1>2, <1>6 DEF Stages
  <2> HIDE DEF to
  <2>2. c \notin Capped /\ c \notin Cleared
    BY <2>1 DEF Capped, Cleared, Guard!At
  <2>3. Cardinality(Capped)' = Cardinality(Capped) /\ Cardinality(Capped) \in Nat
    BY <1>1, <2>20, <2>1, <2>2, Moves
  <2>4. CapKept'
    BY <1>1, <2>1, <2>3 DEF CapKept
  <2>5. outcomes' \in Seq(BOOLEAN) /\ StreakTrue'
    BY <1>1, <2>1, SuccessTrue
  <2>6. GuardTypeOK' /\ \A d \in Caller : Guard!At(d, "timed")' => caller'[d].read \in Nat /\ caller'[d].read <= time'
    BY <1>1, <1>2, <1>5, <2>20, <2>1, <2>5 DEF GuardTypeOK
  <2>7. CooldownKept' /\ OpenTrue'
    BY <1>2, <2>1, <2>6 DEF CooldownKept, Cooling, OpenTrue
  <2> QED  BY <2>4, <2>5, <2>6, <2>7 DEF GuardIInv
<1> QED  BY <1>7, <1>8, <1>9, <1>10, <1>11, <1>12, <1>13 DEF Guard!Call

LEMMA GuardNextIInv == ASSUME Guard!GuardConstants, GuardIInv, [Guard!Next]_Guard!vars PROVE GuardIInv'
<1>1. CASE \E c \in Caller : Guard!Call(c)
  BY <1>1, GuardCallIInv
<1>2. CASE Guard!Pass
  <2>1. time' = time + 1 /\ UNCHANGED <<attempted, streak, open, openedAt, caller, outcomes, tripped, since>>
    BY <1>2 DEF Guard!Pass
  <2>2. GuardTypeOK' /\ StreakTrue' /\ OpenTrue'
    BY <2>1 DEF GuardIInv, GuardTypeOK, StreakTrue, OpenTrue
  <2>3. Capped' = Capped /\ Cleared' = Cleared
    BY <2>1 DEF Capped, Cleared
  <2>4. Cooling' => Cooling
    BY <2>1 DEF Cooling, GuardIInv, GuardTypeOK, Guard!GuardConstants
  <2>5. CapKept' /\ CooldownKept'
    BY <2>1, <2>3, <2>4 DEF GuardIInv, GuardTypeOK, CapKept, CooldownKept, Guard!At
  <2> QED  BY <2>2, <2>5 DEF GuardIInv
<1>3. CASE UNCHANGED Guard!vars
  <2>1. Capped' = Capped /\ Cleared' = Cleared
    BY <1>3 DEF Guard!vars, Capped, Cleared
  <2> QED  BY <1>3, <2>1 DEF Guard!vars, GuardIInv, GuardTypeOK, StreakTrue, OpenTrue, CapKept, CooldownKept, Cooling, Guard!At
<1> QED  BY <1>1, <1>2, <1>3 DEF Guard!Next

LEMMA GuardMeans == ASSUME Guard!GuardConstants, GuardIInv PROVE Guard!GuardHolds
<1>1. Guard!OverrunBounded
  <2>1. IsFiniteSet(Capped) /\ IsFiniteSet(Cleared)
    BY CallersFinite, FS_Subset DEF Capped, Cleared, Guard!GuardConstants
  <2>2. Cardinality(Capped) \in Nat /\ Cardinality(Cleared) \in Nat /\ Cardinality(Caller) \in Nat
    BY CallersFinite, <2>1, FS_CardinalityType DEF Guard!GuardConstants
  <2>3. attempted < CallCap + Cardinality(Caller)
    BY <2>2 DEF GuardIInv, GuardTypeOK, CapKept, Guard!GuardConstants
  <2>4. open /\ tripped # None /\ time - tripped < Cooldown => since < Cardinality(Caller)
    BY <2>2 DEF GuardIInv, GuardTypeOK, CooldownKept, Cooling
  <2> QED  BY GuardCounts, <2>3, <2>4 DEF Guard!OverrunBounded
<1>2. Guard!OpenOnStreak
  <2> DEFINE l == Len(outcomes)
  <2>1. /\ l \in Nat /\ streak \in Nat /\ l <= Threshold /\ Threshold \in Nat \ {0}
        /\ streak > l => l = Threshold
        /\ \A i \in 1..l : i > l - streak => outcomes[i] = TRUE
        /\ streak < l => outcomes[l - streak] = FALSE
    BY DEF GuardIInv, GuardTypeOK, StreakTrue, Guard!GuardConstants
  <2>2. streak >= Threshold => l = Threshold /\ \A i \in 1..l : outcomes[i] = TRUE
    BY <2>1
  <2>3. streak < Threshold => l # Threshold \/ \E i \in 1..l : outcomes[i] = FALSE
    <3>1. streak < l => l - streak \in 1..l
      BY <2>1
    <3> QED  BY <2>1, <3>1
  <2>4. open = TRUE <=> streak >= Threshold
    BY DEF GuardIInv, OpenTrue
  <2> HIDE DEF l
  <2>5. open = TRUE <=> l = Threshold /\ \A i \in 1..l : outcomes[i] = TRUE
    BY <2>1, <2>2, <2>3, <2>4
  <2>6. open \in BOOLEAN /\ \A i \in 1..l : outcomes[i] \in BOOLEAN
    BY DEF GuardIInv, GuardTypeOK, l
  <2>7. open <=> l = Threshold /\ \A i \in 1..l : outcomes[i]
    BY <2>5, <2>6, Zenon
  <2> QED  BY <2>7 DEF Guard!OpenOnStreak, l
<1> QED  BY <1>1, <1>2 DEF Guard!GuardHolds

LEMMA GuardComponent == Guard!Spec => []Guard!GuardHolds
<1>1. Guard!Init => GuardIInv
  BY GuardAssumption, GuardInitIInv
<1>2. GuardIInv /\ [Guard!Next]_Guard!vars => GuardIInv'
  BY GuardAssumption, GuardNextIInv
<1>3. GuardIInv => Guard!GuardHolds
  BY GuardAssumption, GuardMeans
<1> QED  BY <1>1, <1>2, <1>3, PTL DEF Guard!Spec

\* For any number of callers that share a guard, any cap, threshold and cooldown: the
\* cap and the open circuit are overrun by less than one call per caller, and the
\* circuit is open exactly on a streak of failures.
THEOREM GuardsHold == SpecParts => []GuardHolds
<1>1. InitParts => Guard!Init
  BY DEF InitParts
<1>2. [NextPart]_allVars => [Guard!Next]_Guard!vars
  BY DEF NextPart, Rest, allVars, guardVars, Guard!vars
<1> QED  BY <1>1, <1>2, GuardComponent, PTL DEF SpecParts, Guard!Spec, GuardHolds

--------------------------------------------------------------------------------
(***************************************************************************)
(* The sidecar's limiters, for any clients and limits.  A limiter counts what its*)
(* client was charged since a request (Books) before which a crowd came if there*)
(* was an earlier one (Starts); the limiters are in the order in which their clients*)
(* were last seen (InOrder), so that one that goes was crowded out (Forgotten). *)
(***************************************************************************)
\* The clients seen after request k.
After(k) == {requests[m].client : m \in (k + 1)..Len(requests)}

Latest(c, k) == /\ k \in 1..Len(requests) /\ requests[k].client = c
                /\ \A m \in (k + 1)..Len(requests) : requests[m].client # c

\* Before request s of client c there is none of its own or a crowd.
Starts(c, s) == /\ s \in 1..Len(requests) /\ requests[s].client = c
                /\ \A i \in 1..(s - 1) : requests[i].client = c =>
                      \E k \in i..(s - 1) : requests[k].client = c /\ App!Crowded(c, k, s)

ChargedSince(c, s) == {k \in App!ChargedTo(c) : k >= s}
Recent(c, s) == {k \in ChargedSince(c, s) : requests[k].at > wall - Minute}

\* The timestamps w are those of the requests g, and none of R is missing.
Stamps(g, w, R) == /\ g \in Seq(Nat) /\ Len(g) = Len(w)
                   /\ \A j \in 1..Len(g) : g[j] \in 1..Len(requests) /\ requests[g[j]].at = w[j]
                   /\ \A k \in R : \E j \in 1..Len(g) : g[j] = k

\* Limiter l has counted what its client was charged since request s.
Books(l, s) == /\ SessionLimit # None => l.count = Cardinality(ChargedSince(l.client, s))
               /\ MinuteLimit # None => \E g : Stamps(g, l.window, Recent(l.client, s))

SideLimiter == [client : Client, window : Seq(Nat), count : Nat]
Reply == {"ok", "refused", "limited"}

SideTypeOK == /\ wall \in Nat
              /\ limiters \in Seq(SideLimiter)
              /\ requests \in Seq([client : Client, at : Nat, reply : Reply])

InTime == /\ \A i \in 1..Len(requests) : requests[i].at <= wall
          /\ \A i, j \in 1..Len(requests) : i <= j => requests[i].at <= requests[j].at

InOrder == /\ Len(limiters) <= Limiters
           /\ \A i, j \in 1..Len(limiters) : limiters[i].client = limiters[j].client => i = j
           /\ \A i, j \in 1..Len(limiters) : i < j =>
                 \A k : Latest(limiters[i].client, k) => limiters[j].client \in After(k)

Forgotten == \A c \in Client : (\A i \in 1..Len(limiters) : limiters[i].client # c) =>
                \A k : Latest(c, k) => Cardinality(After(k)) >= Limiters

Counted == \A i \in 1..Len(limiters) : \E s : Starts(limiters[i].client, s) /\ Books(limiters[i], s)

SideIInv == SideTypeOK /\ InTime /\ InOrder /\ Forgotten /\ Counted /\ App!EvictionNeedsCrowd

LEMMA SideCounts == \A S : App!Cardinality(S) = Cardinality(S)
  BY DEF App!Cardinality, Cardinality

LEMMA SideInitIInv == App!SidecarConstants /\ App!Init => SideIInv
<1> SUFFICES ASSUME App!SidecarConstants, App!Init PROVE SideIInv
  OBVIOUS
<1>1. wall = 0 /\ limiters = <<>> /\ requests = <<>> /\ Len(limiters) = 0 /\ Len(requests) = 0
  BY DEF App!Init
<1>2. SideTypeOK
  BY <1>1 DEF SideTypeOK
<1>3. InTime /\ Counted
  BY <1>1 DEF InTime, Counted
<1>4. InOrder
  BY <1>1 DEF InOrder, App!SidecarConstants
<1>5. Forgotten
  BY <1>1 DEF Forgotten, Latest
<1>6. App!EvictionNeedsCrowd
  BY <1>1 DEF App!EvictionNeedsCrowd, App!ChargedTo
<1> QED  BY <1>2, <1>3, <1>4, <1>5, <1>6 DEF SideIInv

--------------------------------------------------------------------------------
(* Helpers *)

\* Of the numbers up to n that satisfy a test, one is the last.
LEMMA LastOf ==
  ASSUME NEW n \in Nat, NEW I \in SUBSET (1..n), I # {}
  PROVE  \E k \in I : \A m \in I : m <= k
<1> DEFINE J == {n - k : k \in I}
<1>1. J \in SUBSET Nat /\ J # {}
  <2>1. \A k \in I : k \in Nat /\ k <= n /\ n - k \in Nat
    OBVIOUS
  <2> QED  BY <2>1
<1> HIDE DEF J
<1>2. PICK x \in J : \A y \in J : ~(<<y, x>> \in OpToRel(<, Nat))
  BY <1>1, NatLessThanWellFounded, WFMin
<1>3. \A y \in J : x <= y
  <2>1. \A y \in J : ~(y < x)
    BY <1>1, <1>2 DEF OpToRel
  <2>2. \A y \in J : y \in Nat /\ x \in Nat
    BY <1>1
  <2> QED  BY <2>1, <2>2
<1>4. PICK k \in I : x = n - k
  BY DEF J
<1>5. \A m \in I : n - m \in J
  BY DEF J
<1>6. \A m \in I : m \in Nat /\ m <= k
  BY <1>3, <1>4, <1>5
<1> QED  BY <1>6

\* Whoever was seen was seen last at some request.
LEMMA SeenLast ==
  ASSUME SideTypeOK, NEW c, NEW i \in 1..Len(requests), requests[i].client = c
  PROVE  \E k \in i..Len(requests) : Latest(c, k)
<1>1. Len(requests) \in Nat
  BY DEF SideTypeOK
<1> DEFINE I == {k \in i..Len(requests) : requests[k].client = c}
<1>2. I \in SUBSET (1..Len(requests)) /\ i \in I
  BY <1>1
<1>3. PICK k \in I : \A m \in I : m <= k
  BY <1>1, <1>2, LastOf
<1>4. Latest(c, k)
  BY <1>1, <1>3 DEF Latest
<1> QED  BY <1>3, <1>4

LEMMA AfterFinite ==
  ASSUME SideTypeOK, NEW k \in Nat
  PROVE  IsFiniteSet(After(k))
<1> DEFINE f == [m \in (k + 1)..Len(requests) |-> requests[m].client]
<1>1. IsFiniteSet((k + 1)..Len(requests))
  <2>1. k + 1 \in Int /\ Len(requests) \in Int
    BY DEF SideTypeOK
  <2> QED  BY <2>1, FS_Interval
<1>2. f \in Surjection((k + 1)..Len(requests), After(k))
  BY DEF After, Surjection
<1> HIDE DEF f
<1> QED  BY <1>1, <1>2, FS_Surjection

LEMMA ChargesFinite ==
  ASSUME SideTypeOK, NEW c, NEW s
  PROVE  /\ IsFiniteSet(ChargedSince(c, s)) /\ IsFiniteSet(Recent(c, s))
         /\ ChargedSince(c, s) \subseteq 1..Len(requests) /\ Recent(c, s) \subseteq ChargedSince(c, s)
<1>1. IsFiniteSet(1..Len(requests)) /\ Recent(c, s) \subseteq ChargedSince(c, s)
      /\ ChargedSince(c, s) \subseteq 1..Len(requests)
  BY FS_Interval DEF SideTypeOK, ChargedSince, App!ChargedTo, Recent
<1> QED  BY <1>1, FS_Subset

\* _fresh_window leaves a suffix, and what it drops is a minute old.
LEMMA StaleFacts ==
  ASSUME SideTypeOK, App!SidecarConstants, NEW w \in Seq(Nat)
  PROVE  /\ App!Stale(w) \in 0..Len(w)
         /\ \A i \in 1..App!Stale(w) : w[i] <= wall - Minute
<1> DEFINE Fine(n) == /\ \A i \in 1..n : w[i] <= wall - Minute
                      /\ n < Len(w) => w[n + 1] > wall - Minute
<1>1. wall \in Nat /\ Minute \in Nat /\ Len(w) \in Nat /\ \A i \in 1..Len(w) : w[i] \in Nat
  BY DEF SideTypeOK, App!SidecarConstants
<1> DEFINE I == {k \in 1..(Len(w) + 1) : \A i \in 1..(k - 1) : w[i] <= wall - Minute}
<1>2. I \in SUBSET (1..(Len(w) + 1)) /\ I # {} /\ Len(w) + 1 \in Nat
  <2>1. 1 \in I
    BY <1>1
  <2> QED  BY <1>1, <2>1
<1>3. PICK k \in I : \A m \in I : m <= k
  BY <1>2, LastOf
<1> HIDE DEF I
<1>4. k - 1 \in 0..Len(w) /\ Fine(k - 1)
  <2>1. CASE k - 1 < Len(w) /\ ~(w[(k - 1) + 1] > wall - Minute)
    <3>1. k \in 1..Len(w) /\ (k - 1) + 1 = k
      BY <1>1, <1>2, <2>1
    <3>2. w[k] <= wall - Minute
      BY <1>1, <2>1, <3>1
    <3>3. \A i \in 1..((k + 1) - 1) : i \in 1..(k - 1) \/ i = k
      BY <3>1
    <3>4. \A i \in 1..((k + 1) - 1) : w[i] <= wall - Minute
      BY <3>2, <3>3 DEF I
    <3>5. k + 1 \in I
      BY <1>1, <3>1, <3>4 DEF I
    <3> QED  BY <1>3, <3>1, <3>5
  <2>2. CASE ~(k - 1 < Len(w) /\ ~(w[(k - 1) + 1] > wall - Minute))
    <3>1. k \in 1..(Len(w) + 1) /\ \A i \in 1..(k - 1) : w[i] <= wall - Minute
      BY DEF I
    <3> QED  BY <1>1, <2>2, <3>1
  <2> QED  BY <2>1, <2>2
<1>5. App!Stale(w) = CHOOSE n \in 0..Len(w) : Fine(n)
  BY DEF App!Stale
<1> HIDE DEF Fine
<1>6. App!Stale(w) \in 0..Len(w) /\ Fine(App!Stale(w))
  BY <1>4, <1>5
<1> QED  BY <1>6 DEF Fine

LEMMA Suffix ==
  ASSUME NEW s \in Seq(Nat), NEW n \in Nat, n <= Len(s)
  PROVE  LET t == SubSeq(s, n + 1, Len(s))
         IN /\ t \in Seq(Nat) /\ Len(t) = Len(s) - n
            /\ \A i \in 1..(Len(s) - n) : t[i] = s[i + n]
<1>1. /\ Len(s) \in Nat /\ n + 1 \in Int /\ Len(s) \in Int
      /\ \A i \in (n + 1)..Len(s) : s[i] \in Nat
  OBVIOUS
<1> DEFINE t == SubSeq(s, n + 1, Len(s))
<1>2. /\ t \in Seq(Nat)
      /\ Len(t) = IF n + 1 <= Len(s) THEN Len(s) - (n + 1) + 1 ELSE 0
      /\ \A i \in 1..(Len(s) - (n + 1) + 1) : t[i] = s[(n + 1) + i - 1]
  BY <1>1, SubSeqProperties
<1> HIDE DEF t
<1>3. Len(t) = Len(s) - n
  BY <1>1, <1>2
<1>4. \A i \in 1..(Len(s) - n) : t[i] = s[i + n]
  <2>1. Len(s) - (n + 1) + 1 = Len(s) - n /\ \A i \in 1..(Len(s) - n) : (n + 1) + i - 1 = i + n
    BY <1>1
  <2> QED  BY <1>2, <2>1
<1> QED  BY <1>2, <1>3, <1>4 DEF t

\* Pruning loses no request that is recent.
LEMMA PrunedStamps ==
  ASSUME SideIInv, App!SidecarConstants, NEW l \in SideLimiter, NEW R, NEW g, Stamps(g, l.window, R),
         \A k \in R : requests[k].at > wall - Minute
  PROVE  App!Pruned(l) \in Seq(Nat) /\ \E h : Stamps(h, App!Pruned(l), R)
<1>1. l.window \in Seq(Nat) /\ SideTypeOK
  BY DEF SideLimiter, SideIInv
<1>2. CASE MinuteLimit = None \/ App!SessionFull(l)
  BY <1>1, <1>2 DEF App!Pruned
<1>3. CASE ~(MinuteLimit = None \/ App!SessionFull(l))
  <2> DEFINE w == l.window
             n == App!Stale(l.window)
             h == SubSeq(g, n + 1, Len(g))
  <2>1. n \in 0..Len(w) /\ \A i \in 1..n : w[i] <= wall - Minute
    BY <1>1, StaleFacts
  <2>2. App!Pruned(l) = SubSeq(w, n + 1, Len(w))
    BY <1>3 DEF App!Pruned
  <2> HIDE DEF n, w
  <2>3. g \in Seq(Nat) /\ w \in Seq(Nat) /\ Len(g) = Len(w) /\ Len(w) \in Nat /\ n \in Nat /\ n <= Len(w)
    BY <1>1, <2>1 DEF Stamps, w
  <2>4. /\ App!Pruned(l) \in Seq(Nat) /\ Len(App!Pruned(l)) = Len(w) - n
        /\ \A i \in 1..(Len(w) - n) : App!Pruned(l)[i] = w[i + n]
    BY <2>2, <2>3, Suffix
  <2>5. /\ h \in Seq(Nat) /\ Len(h) = Len(w) - n
        /\ \A i \in 1..(Len(w) - n) : h[i] = g[i + n]
    BY <2>3, Suffix
  <2> HIDE DEF h
  <2>6. \A j \in 1..Len(g) : g[j] \in 1..Len(requests) /\ requests[g[j]].at = w[j]
    BY DEF Stamps, w
  <2>7. ASSUME NEW k \in R PROVE \E j \in 1..Len(h) : h[j] = k
    <3>1. PICK j \in 1..Len(g) : g[j] = k
      BY DEF Stamps
    <3>2. ~(j <= n)
      <4>1. w[j] > wall - Minute
        BY <2>6, <3>1
      <4>2. w[j] \in Nat /\ wall \in Nat /\ Minute \in Nat
        BY <1>1, <2>3, <3>1 DEF SideTypeOK, App!SidecarConstants
      <4> QED  BY <2>1, <2>3, <4>1, <4>2
    <3>3. j - n \in 1..(Len(w) - n) /\ (j - n) + n = j
      BY <2>3, <3>1, <3>2
    <3> QED  BY <2>5, <3>1, <3>3
  <2>8. \A j \in 1..Len(h) : h[j] \in 1..Len(requests) /\ requests[h[j]].at = App!Pruned(l)[j]
    <3> SUFFICES ASSUME NEW j \in 1..(Len(w) - n) PROVE h[j] \in 1..Len(requests) /\ requests[h[j]].at = App!Pruned(l)[j]
      BY <2>5
    <3>1. j + n \in 1..Len(g)
      BY <2>3
    <3> QED  BY <2>4, <2>5, <2>6, <3>1
  <2>9. Stamps(h, App!Pruned(l), R)
    BY <2>3, <2>4, <2>5, <2>7, <2>8 DEF Stamps
  <2> QED  BY <2>4, <2>9
<1> QED  BY <1>2, <1>3

\* As many requests as are recent are in the window.
LEMMA StampsBound ==
  ASSUME NEW R, NEW g, NEW w, Stamps(g, w, R), IsFiniteSet(R)
  PROVE  Len(w) \in Nat /\ Cardinality(R) <= Len(w)
<1>1. g \in Seq(Nat) /\ Len(g) = Len(w) /\ Len(g) \in Nat
  BY DEF Stamps
<1> DEFINE T == {g[j] : j \in 1..Len(g)}
<1>2. IsFiniteSet(1..Len(g)) /\ Cardinality(1..Len(g)) = Len(g)
  <2>1. 1 \in Int /\ Len(g) \in Int
    BY <1>1
  <2>2. IsFiniteSet(1..Len(g)) /\ Cardinality(1..Len(g)) = IF 1 > Len(g) THEN 0 ELSE Len(g) - 1 + 1
    BY <2>1, FS_Interval
  <2> QED  BY <1>1, <2>2
<1>3. IsFiniteSet(T) /\ Cardinality(T) <= Len(g)
  <2> DEFINE f == [j \in 1..Len(g) |-> g[j]]
  <2>1. f \in Surjection(1..Len(g), T)
    BY DEF Surjection
  <2> HIDE DEF f, T
  <2> QED  BY <1>2, <2>1, FS_Surjection
<1>4. R \subseteq T
  BY DEF Stamps
<1> HIDE DEF T
<1>5. Cardinality(R) <= Cardinality(T) /\ Cardinality(R) \in Nat /\ Cardinality(T) \in Nat
  BY <1>3, <1>4, FS_Subset, FS_CardinalityType
<1> QED  BY <1>1, <1>3, <1>5

--------------------------------------------------------------------------------
(* What a request does *)

LEMMA RemovedAt ==
  ASSUME NEW R, NEW s \in Seq(R), NEW k \in 1..Len(s)
  PROVE  LET t == App!RemoveAt(s, k)
         IN /\ t \in Seq(R) /\ Len(t) = Len(s) - 1
            /\ \A i \in 1..Len(t) : t[i] = IF i < k THEN s[i] ELSE s[i + 1]
<1>1. Len(s) \in Nat /\ k \in Nat
  OBVIOUS
<1> DEFINE a == SubSeq(s, 1, k - 1)
           b == SubSeq(s, k + 1, Len(s))
<1>2. /\ a \in Seq(R) /\ Len(a) = k - 1 /\ \A i \in 1..(k - 1) : a[i] = s[i]
      /\ b \in Seq(R) /\ Len(b) = Len(s) - k /\ \A i \in 1..(Len(s) - k) : b[i] = s[i + k]
  BY <1>1, SubSeqProperties
<1>3. App!RemoveAt(s, k) = a \o b
  BY DEF App!RemoveAt
<1> HIDE DEF a, b
<1>4. /\ a \o b \in Seq(R) /\ Len(a \o b) = Len(a) + Len(b)
      /\ \A i \in 1..(Len(a) + Len(b)) : (a \o b)[i] = IF i <= Len(a) THEN a[i] ELSE b[i - Len(a)]
  BY <1>2, ConcatProperties
<1>5. Len(a \o b) = Len(s) - 1
  BY <1>1, <1>2, <1>4
<1>6. ASSUME NEW i \in 1..(Len(s) - 1) PROVE (a \o b)[i] = IF i < k THEN s[i] ELSE s[i + 1]
  <2>1. CASE i < k
    BY <1>1, <1>2, <1>4, <2>1
  <2>2. CASE ~(i < k)
    <3>1. i - (k - 1) \in 1..(Len(s) - k) /\ (i - (k - 1)) + k = i + 1
      BY <1>1, <2>2
    <3>2. (a \o b)[i] = b[i - (k - 1)]
      BY <1>1, <1>2, <1>4, <2>2
    <3> QED  BY <1>2, <2>2, <3>1, <3>2
  <2> QED  BY <2>1, <2>2
<1> QED  BY <1>3, <1>4, <1>5, <1>6

\* The first m of new are limiters of others than c, in their order, and one that is
\* missing was the first of as many as there may be.
Keeps(e, new, m, c) ==
    /\ e \in [1..m -> 1..Len(limiters)]
    /\ \A i \in 1..m : new[i] = limiters[e[i]] /\ limiters[e[i]].client # c
    /\ \A i, j \in 1..m : i < j => e[i] < e[j]
    /\ \A q \in 1..Len(limiters) : limiters[q].client # c =>
          \/ \E i \in 1..m : e[i] = q
          \/ m + 1 = Limiters /\ \A i \in 1..m : q < e[i]

\* The limiters after a request of c, for the limiter l that c then has: the others, all
\* of them or all but the first, and l at the end.
LEMMA SeenFacts ==
  ASSUME SideIInv, App!SidecarConstants, NEW c \in Client, NEW l \in SideLimiter, l = App!Checked(App!Limiter(c))
  PROVE  LET new == App!Seen(c)
         IN /\ new \in Seq(SideLimiter) /\ Len(new) \in 1..Limiters /\ new[Len(new)] = l
            /\ \E e : Keeps(e, new, Len(new) - 1, c)
<1> DEFINE n == Len(limiters)
           t == App!Others(c)
           all == Append(t, l)
           new == App!Seen(c)
<1>1. limiters \in Seq(SideLimiter) /\ n \in Nat /\ Limiters \in Nat \ {0} /\ n <= Limiters
  BY DEF SideIInv, SideTypeOK, InOrder, App!SidecarConstants
<1>2. new = IF Len(all) > Limiters THEN Tail(all) ELSE all
  BY DEF App!Seen
<1>3. CASE App!Known(c)
  <2> DEFINE p == App!Place(c)
             e == [i \in 1..(n - 1) |-> IF i < p THEN i ELSE i + 1]
  <2>1. p \in 1..n /\ limiters[p].client = c
    BY <1>3 DEF App!Known, App!Place, App!Of
  <2>2. \A q \in 1..n : limiters[q].client = c => q = p
    BY <2>1 DEF SideIInv, InOrder
  <2>3. t = App!RemoveAt(limiters, p)
    BY <1>3 DEF App!Others
  <2> HIDE DEF p
  <2>4. /\ t \in Seq(SideLimiter) /\ Len(t) = n - 1
        /\ \A i \in 1..(n - 1) : t[i] = IF i < p THEN limiters[i] ELSE limiters[i + 1]
    BY <1>1, <2>1, <2>3, RemovedAt
  <2> HIDE DEF t
  <2>5. /\ all \in Seq(SideLimiter) /\ Len(all) = n /\ all[n] = l
        /\ \A i \in 1..(n - 1) : all[i] = t[i]
    BY <1>1, <2>1, <2>4
  <2> HIDE DEF all
  <2>6. new = all
    BY <1>1, <1>2, <2>5
  <2> HIDE DEF new
  <2>7. e \in [1..(n - 1) -> 1..n] /\ \A i \in 1..(n - 1) : e[i] = (IF i < p THEN i ELSE i + 1) /\ e[i] # p
    BY <1>1, <2>1
  <2> HIDE DEF e
  <2>8. \A i \in 1..(n - 1) : all[i] = limiters[e[i]] /\ limiters[e[i]].client # c
    BY <2>2, <2>4, <2>5, <2>7
  <2>9. \A i, j \in 1..(n - 1) : i < j => e[i] < e[j]
    BY <1>1, <2>1, <2>7
  <2>10. ASSUME NEW q \in 1..n, limiters[q].client # c PROVE \E i \in 1..(n - 1) : e[i] = q
    <3>1. q # p
      BY <2>1, <2>10
    <3>2. CASE q < p
      <4>1. q \in 1..(n - 1) /\ e[q] = q
        BY <1>1, <2>1, <2>7, <3>2
      <4> QED  BY <4>1
    <3>3. CASE q > p
      <4>1. q - 1 \in 1..(n - 1) /\ e[q - 1] = q
        BY <1>1, <2>1, <2>7, <3>3
      <4> QED  BY <4>1
    <3> QED  BY <1>1, <2>1, <3>1, <3>2, <3>3
  <2>11. Len(new) = n /\ n \in 1..Limiters
    BY <1>1, <2>1, <2>5, <2>6
  <2>12. Keeps(e, new, n - 1, c)
    BY <2>5, <2>6, <2>7, <2>8, <2>9, <2>10 DEF Keeps
  <2> QED  BY <2>5, <2>6, <2>11, <2>12 DEF new
<1>4. CASE ~App!Known(c)
  <2>1. t = limiters /\ \A q \in 1..n : limiters[q].client # c
    BY <1>4 DEF App!Others, App!Known, App!Of
  <2> HIDE DEF t
  <2>2. /\ all \in Seq(SideLimiter) /\ Len(all) = n + 1 /\ all[n + 1] = l
        /\ \A i \in 1..n : all[i] = limiters[i]
    BY <1>1, <2>1
  <2> HIDE DEF all
  <2>3. CASE n + 1 <= Limiters
    <3> DEFINE e == [i \in 1..n |-> i]
    <3>1. new = all /\ Len(new) = n + 1 /\ Len(new) - 1 = n /\ n + 1 \in 1..Limiters
      BY <1>1, <1>2, <2>2, <2>3
    <3>2. e \in [1..n -> 1..n] /\ \A i \in 1..n : e[i] = i
      OBVIOUS
    <3> HIDE DEF new, e
    <3>3. \A i, j \in 1..n : i < j => e[i] < e[j]
      BY <3>2
    <3>4. \A i \in 1..n : new[i] = limiters[e[i]] /\ limiters[e[i]].client # c
      BY <2>1, <2>2, <3>1, <3>2
    <3>5. \A q \in 1..n : \E i \in 1..n : e[i] = q
      BY <3>2
    <3>6. Keeps(e, new, n, c)
      BY <3>2, <3>3, <3>4, <3>5 DEF Keeps
    <3> QED  BY <2>2, <3>1, <3>6 DEF new
  <2>4. CASE n + 1 > Limiters
    <3> DEFINE e == [i \in 1..(n - 1) |-> i + 1]
    <3>1. n = Limiters /\ n >= 1 /\ new = Tail(all)
      BY <1>1, <1>2, <2>2, <2>4
    <3>2. /\ Tail(all) \in Seq(SideLimiter) /\ Len(Tail(all)) = n
          /\ \A i \in 1..n : Tail(all)[i] = all[i + 1]
      <4>1. all # <<>>
        BY <1>1, <2>2
      <4>2. /\ Tail(all) \in Seq(SideLimiter) /\ Len(Tail(all)) = Len(all) - 1
            /\ \A i \in 1..Len(Tail(all)) : Tail(all)[i] = all[i + 1]
        BY <2>2, <4>1, HeadTailProperties
      <4> QED  BY <1>1, <2>2, <4>2
    <3> HIDE DEF new
    <3>3. e \in [1..(n - 1) -> 1..n] /\ \A i \in 1..(n - 1) : e[i] = i + 1
      BY <1>1
    <3> HIDE DEF e
    <3>4. \A i, j \in 1..(n - 1) : i < j => e[i] < e[j]
      BY <1>1, <3>3
    <3>5. \A i \in 1..(n - 1) : new[i] = limiters[e[i]] /\ limiters[e[i]].client # c
      <4>1. \A i \in 1..(n - 1) : i \in 1..n /\ i + 1 \in 1..n
        BY <1>1
      <4> QED  BY <2>1, <2>2, <3>1, <3>2, <3>3, <4>1
    <3>6. ASSUME NEW q \in 1..n
          PROVE  (\E i \in 1..(n - 1) : e[i] = q) \/ \A i \in 1..(n - 1) : q < e[i]
      <4>1. CASE q = 1
        BY <1>1, <3>3, <4>1
      <4>2. CASE q # 1
        <5>1. q - 1 \in 1..(n - 1) /\ e[q - 1] = q
          BY <1>1, <3>3, <4>2
        <5> QED  BY <5>1
      <4> QED  BY <4>1, <4>2
    <3>7. new[n] = l /\ n \in 1..Limiters /\ Len(new) = n /\ new \in Seq(SideLimiter)
      BY <1>1, <2>2, <3>1, <3>2
    <3>8. Keeps(e, new, n - 1, c)
      <4>1. (n - 1) + 1 = Limiters
        BY <1>1, <3>1
      <4> QED  BY <3>3, <3>4, <3>5, <3>6, <4>1 DEF Keeps
    <3> QED  BY <3>7, <3>8 DEF new
  <2> QED  BY <1>1, <2>3, <2>4
<1> QED  BY <1>3, <1>4

Request == [client : Client, at : Nat, reply : Reply]

\* What was true of the requests so far stays true, and is said of the new one.
LEMMA Requested ==
  ASSUME SideTypeOK, NEW r \in Request, requests' = Append(requests, r), NEW n, n = Len(requests)
  PROVE  /\ n \in Nat /\ requests' \in Seq(Request) /\ Len(requests') = n + 1
         /\ requests'[n + 1] = r /\ \A i \in 1..n : requests'[i] = requests[i]
         /\ \A k \in 1..n : After(k)' = After(k) \cup {r.client}
         /\ \A d, k : Latest(d, k)' <=> IF d = r.client THEN k = n + 1 ELSE Latest(d, k)
         /\ \A d : App!ChargedTo(d)' = App!ChargedTo(d) \cup
                      (IF d = r.client /\ r.reply # "limited" THEN {n + 1} ELSE {})
         /\ \A d, i, j : i \in 1..n /\ j \in 1..(n + 1) => (App!Crowded(d, i, j)' <=> App!Crowded(d, i, j))
         /\ \A d, s : Starts(d, s) => Starts(d, s)'
<1>1. requests \in Seq(Request) /\ n \in Nat /\ Len(requests) = n
  BY DEF SideTypeOK, Request
<1>2. requests' \in Seq(Request) /\ Len(requests') = n + 1
      /\ requests'[n + 1] = r /\ \A i \in 1..n : requests'[i] = requests[i]
  BY <1>1
<1>3. 1..(n + 1) = 1..n \cup {n + 1} /\ n + 1 \notin 1..n
  BY <1>1
<1>4. ASSUME NEW k \in 1..n PROVE After(k)' = After(k) \cup {r.client}
  <2>1. (k + 1)..(n + 1) = (k + 1)..n \cup {n + 1} /\ \A m \in (k + 1)..n : m \in 1..n
    BY <1>1
  <2>2. \A x : x \in After(k)' <=> \E m \in (k + 1)..(n + 1) : x = requests'[m].client
    BY <1>2 DEF After
  <2>3. \A x : x \in After(k) <=> \E m \in (k + 1)..n : x = requests[m].client
    BY <1>1 DEF After
  <2> QED  BY <1>2, <2>1, <2>2, <2>3
<1>5. ASSUME NEW d, NEW k PROVE Latest(d, k)' <=> IF d = r.client THEN k = n + 1 ELSE Latest(d, k)
  <2>1. Latest(d, k)' <=> /\ k \in 1..(n + 1) /\ requests'[k].client = d
                          /\ \A m \in (k + 1)..(n + 1) : requests'[m].client # d
    BY <1>2 DEF Latest
  <2>2. CASE k \in 1..n
    <3>1. (k + 1)..(n + 1) = (k + 1)..n \cup {n + 1} /\ \A m \in (k + 1)..n : m \in 1..n
      BY <1>1, <2>2
    <3>2. k # n + 1
      BY <1>1, <2>2
    <3> QED  BY <1>1, <1>2, <2>1, <2>2, <3>1, <3>2 DEF Latest
  <2>3. CASE k = n + 1
    <3>1. (k + 1)..(n + 1) = {}
      BY <1>1, <2>3
    <3>2. ~Latest(d, k)
      BY <1>1, <2>3 DEF Latest
    <3> QED  BY <1>2, <1>3, <2>1, <2>3, <3>1, <3>2
  <2>4. CASE k \notin 1..(n + 1)
    BY <1>1, <1>3, <2>1, <2>4 DEF Latest
  <2> QED  BY <1>3, <2>2, <2>3, <2>4
<1>6. ASSUME NEW d
      PROVE  App!ChargedTo(d)' = App!ChargedTo(d) \cup (IF d = r.client /\ r.reply # "limited" THEN {n + 1} ELSE {})
  BY <1>1, <1>2, <1>3 DEF App!ChargedTo
<1>7. ASSUME NEW d, NEW i \in 1..n, NEW j \in 1..(n + 1) PROVE App!Crowded(d, i, j)' <=> App!Crowded(d, i, j)
  <2>1. \A k \in (i + 1)..(j - 1) : requests'[k] = requests[k]
    <3>1. \A k \in (i + 1)..(j - 1) : k \in 1..n
      BY <1>1
    <3> QED  BY <1>2, <3>1
  <2>2. {requests'[k].client : k \in (i + 1)..(j - 1)} = {requests[k].client : k \in (i + 1)..(j - 1)}
    BY <2>1
  <2> QED  BY <2>1, <2>2 DEF App!Crowded
<1>8. ASSUME NEW d, NEW s, Starts(d, s) PROVE Starts(d, s)'
  <2>1. s \in 1..n /\ s \in 1..(n + 1) /\ requests'[s].client = d
    BY <1>1, <1>2, <1>3, <1>8 DEF Starts
  <2>2. ASSUME NEW i \in 1..(s - 1), requests'[i].client = d
        PROVE  \E k \in i..(s - 1) : requests'[k].client = d /\ App!Crowded(d, k, s)'
    <3>1. i \in 1..n /\ \A k \in i..(s - 1) : k \in 1..n
      BY <1>1, <2>1
    <3>2. requests[i].client = d
      BY <1>2, <2>2, <3>1
    <3>3. PICK k \in i..(s - 1) : requests[k].client = d /\ App!Crowded(d, k, s)
      BY <1>8, <3>2 DEF Starts
    <3> QED  BY <1>2, <1>7, <2>1, <3>1, <3>3
  <2> QED  BY <1>2, <2>1, <2>2 DEF Starts
<1> QED  BY <1>1, <1>2, <1>4, <1>5, <1>6, <1>7, <1>8

\* The limiter that c has, or gets, has counted since a request that starts it.
LEMMA LimiterStarts ==
  ASSUME SideIInv, App!SidecarConstants, NEW c \in Client, NEW r \in Request, r.client = c,
         requests' = Append(requests, r), NEW n, n = Len(requests)
  PROVE  /\ App!Limiter(c) \in SideLimiter /\ App!Limiter(c).client = c
         /\ \E s \in 1..(n + 1) : Starts(c, s)' /\ Books(App!Limiter(c), s)
<1>1. SideTypeOK /\ limiters \in Seq(SideLimiter)
  BY DEF SideIInv, SideTypeOK
<1>2. CASE App!Known(c)
  <2>1. PICK p \in 1..Len(limiters) : limiters[p].client = c /\ App!Limiter(c) = limiters[p]
    BY <1>2 DEF App!Known, App!Limiter, App!Place, App!Of
  <2>2. PICK s : Starts(c, s) /\ Books(limiters[p], s)
    BY <2>1 DEF SideIInv, Counted
  <2>3. Starts(c, s)' /\ s \in 1..(n + 1)
    BY <1>1, <2>2, Requested DEF Starts
  <2> QED  BY <1>1, <2>1, <2>2, <2>3
<1>3. CASE ~App!Known(c)
  <2>1. App!Limiter(c) = [client |-> c, window |-> <<>>, count |-> 0]
    BY <1>3 DEF App!Limiter, App!New
  <2>2. \A i \in 1..Len(limiters) : limiters[i].client # c
    BY <1>3 DEF App!Known, App!Of
  <2>3. n \in Nat /\ Len(requests') = n + 1 /\ requests'[n + 1] = r /\ \A i \in 1..n : requests'[i] = requests[i]
    BY <1>1, Requested
  <2>4. Starts(c, n + 1)'
    <3>1. ASSUME NEW i \in 1..n, requests[i].client = c
          PROVE  \E k \in i..n : requests'[k].client = c /\ App!Crowded(c, k, n + 1)'
      <4>1. PICK k \in i..n : Latest(c, k)
        BY <1>1, <3>1, SeenLast
      <4>2. Cardinality(After(k)) >= Limiters
        BY <2>2, <4>1 DEF SideIInv, Forgotten
      <4>3. (n + 1) - 1 = n
        BY <2>3
      <4>4. App!Crowded(c, k, n + 1)
        BY <4>1, <4>2, <4>3, SideCounts DEF App!Crowded, After, Latest
      <4>5. k \in 1..n /\ n + 1 \in 1..(n + 1)
        BY <2>3
      <4>6. App!Crowded(c, k, n + 1)'
        BY <1>1, <4>4, <4>5, Requested
      <4>7. requests'[k].client = c
        BY <2>3, <4>1, <4>5 DEF Latest
      <4> QED  BY <4>6, <4>7
    <3>2. (n + 1) - 1 = n /\ n + 1 \in 1..(n + 1)
      BY <2>3
    <3> QED  BY <2>3, <3>1, <3>2 DEF Starts
  <2>5. Books(App!Limiter(c), n + 1)
    <3>1. ChargedSince(c, n + 1) = {} /\ Recent(c, n + 1) = {}
      BY <2>3 DEF ChargedSince, Recent, App!ChargedTo
    <3>2. Stamps(<<>>, <<>>, {})
      BY DEF Stamps
    <3>3. /\ App!Limiter(c).client = c /\ App!Limiter(c).count = 0
          /\ App!Limiter(c).window = <<>> /\ Cardinality({}) = 0
      BY <2>1, FS_EmptySet
    <3> QED  BY <3>1, <3>2, <3>3 DEF Books
  <2>6. <<>> \in Seq(Nat) /\ n + 1 \in 1..(n + 1)
    BY <2>3
  <2> QED  BY <2>1, <2>4, <2>5, <2>6 DEF SideLimiter
<1> QED  BY <1>2, <1>3

\* A checked limiter has counted the new request if it allowed it, for which it had room.
LEMMA BooksStep ==
  ASSUME SideIInv, App!SidecarConstants, NEW l \in SideLimiter, NEW s, Books(l, s), NEW new, new = App!Checked(l),
         NEW r \in Request, requests' = Append(requests, r), r.client = l.client, r.at = wall, wall' = wall,
         r.reply # "limited" <=> App!Allows(l), NEW n, n = Len(requests), s \in 1..(n + 1)
  PROVE  /\ new \in SideLimiter /\ new.client = l.client /\ Books(new, s)'
         /\ App!Allows(l) => /\ SessionLimit # None => Cardinality(ChargedSince(l.client, s)) < SessionLimit
                             /\ MinuteLimit # None => Cardinality(Recent(l.client, s)) < MinuteLimit
<1> DEFINE c == l.client
           w == App!Pruned(l)
           new_r == IF App!Allows(l) THEN {n + 1} ELSE {}
<1>1. SideTypeOK /\ wall \in Nat /\ l.window \in Seq(Nat) /\ l.count \in Nat /\ l.client \in Client
  BY DEF SideIInv, SideTypeOK, SideLimiter
<1>2. /\ n \in Nat /\ Len(requests') = n + 1 /\ requests'[n + 1] = r
      /\ \A i \in 1..n : requests'[i] = requests[i]
      /\ App!ChargedTo(c)' = App!ChargedTo(c) \cup new_r
  BY <1>1, Requested
<1>3. ChargedSince(c, s) \subseteq 1..n /\ Recent(c, s) \subseteq 1..n
      /\ IsFiniteSet(ChargedSince(c, s)) /\ IsFiniteSet(Recent(c, s))
  BY <1>1, ChargesFinite
<1>4. ChargedSince(c, s)' = ChargedSince(c, s) \cup new_r
  <2>1. n + 1 >= s
    BY <1>2
  <2> QED  BY <1>2, <2>1 DEF ChargedSince
<1>5. Recent(c, s)' \subseteq Recent(c, s) \cup new_r
  BY <1>2, <1>3, <1>4 DEF Recent
<1>6. w \in Seq(Nat) /\ (MinuteLimit # None => \E h : Stamps(h, w, Recent(c, s)))
  <2>1. CASE MinuteLimit = None
    BY <1>1, <2>1 DEF App!Pruned
  <2>2. CASE MinuteLimit # None
    <3>1. PICK g : Stamps(g, l.window, Recent(c, s))
      BY <2>2 DEF Books
    <3>2. \A k \in Recent(c, s) : requests[k].at > wall - Minute
      BY DEF Recent
    <3> QED  BY <3>1, <3>2, PrunedStamps
  <2> QED  BY <2>1, <2>2
<1> HIDE DEF w
<1>7. App!Allows(l) => /\ SessionLimit # None => Cardinality(ChargedSince(c, s)) < SessionLimit
                       /\ MinuteLimit # None => Cardinality(Recent(c, s)) < MinuteLimit
  <2> SUFFICES ASSUME App!Allows(l)
               PROVE  /\ SessionLimit # None => Cardinality(ChargedSince(c, s)) < SessionLimit
                      /\ MinuteLimit # None => Cardinality(Recent(c, s)) < MinuteLimit
    OBVIOUS
  <2>1. ASSUME SessionLimit # None PROVE Cardinality(ChargedSince(c, s)) < SessionLimit
    <3>1. ~(l.count >= SessionLimit) /\ SessionLimit \in Nat
      BY <2>1 DEF App!Allows, App!SessionFull, App!SidecarConstants
    <3> QED  BY <1>1, <2>1, <3>1 DEF Books
  <2>2. ASSUME MinuteLimit # None PROVE Cardinality(Recent(c, s)) < MinuteLimit
    <3>1. ~(Len(w) >= MinuteLimit) /\ MinuteLimit \in Nat
      BY <2>2 DEF App!Allows, App!MinuteFull, App!SidecarConstants, w
    <3>2. PICK h : Stamps(h, w, Recent(c, s))
      BY <1>6, <2>2
    <3>3. Len(w) \in Nat /\ Cardinality(Recent(c, s)) <= Len(w)
      BY <1>3, <3>2, StampsBound
    <3>4. Cardinality(Recent(c, s)) \in Nat
      BY <1>3, FS_CardinalityType
    <3> QED  BY <3>1, <3>3, <3>4
  <2> QED  BY <2>1, <2>2
<1>8. CASE App!Allows(l)
  <2>1. /\ new.client = c
        /\ new.window = (IF MinuteLimit = None THEN l.window ELSE Append(w, wall))
        /\ new.count = (IF SessionLimit = None THEN l.count ELSE l.count + 1)
        /\ new \in SideLimiter
    <3>1. new = [l EXCEPT !.window = IF MinuteLimit = None THEN l.window ELSE Append(w, wall),
                          !.count = IF SessionLimit = None THEN l.count ELSE l.count + 1]
      BY <1>8 DEF App!Checked, App!Charged, w
    <3>2. Append(w, wall) \in Seq(Nat)
      BY <1>1, <1>6
    <3> DEFINE v == IF MinuteLimit = None THEN l.window ELSE Append(w, wall)
               m == IF SessionLimit = None THEN l.count ELSE l.count + 1
    <3>3. v \in Seq(Nat) /\ m \in Nat /\ new = [l EXCEPT !.window = v, !.count = m]
      BY <1>1, <3>1, <3>2
    <3> HIDE DEF v, m
    <3>4. new.client = c /\ new.window = v /\ new.count = m /\ new \in SideLimiter
      BY <1>1, <3>3 DEF SideLimiter
    <3> QED  BY <3>4 DEF v, m
  <2>2. ASSUME SessionLimit # None PROVE new.count = Cardinality(ChargedSince(c, s)')
    <3>1. n + 1 \notin ChargedSince(c, s) /\ ChargedSince(c, s)' = ChargedSince(c, s) \cup {n + 1}
      BY <1>2, <1>3, <1>4, <1>8
    <3>2. Cardinality(ChargedSince(c, s) \cup {n + 1}) = Cardinality(ChargedSince(c, s)) + 1
      BY <1>3, <3>1, FS_AddElement
    <3>3. l.count = Cardinality(ChargedSince(c, s))
      BY <2>2 DEF Books
    <3> QED  BY <2>1, <2>2, <3>1, <3>2, <3>3
  <2>3. ASSUME MinuteLimit # None PROVE \E g : Stamps(g, new.window, Recent(c, s))'
    <3>1. PICK h : Stamps(h, w, Recent(c, s))
      BY <1>6, <2>3
    <3>2. /\ h \in Seq(Nat) /\ Len(h) = Len(w) /\ Len(h) \in Nat
          /\ \A j \in 1..Len(h) : h[j] \in 1..n /\ requests[h[j]].at = w[j]
          /\ \A k \in Recent(c, s) : \E j \in 1..Len(h) : h[j] = k
      BY <3>1 DEF Stamps
    <3> PICK g, v : g = Append(h, n + 1) /\ v = Append(w, wall)
      OBVIOUS
    <3>3. /\ g \in Seq(Nat) /\ Len(g) = Len(h) + 1 /\ Len(v) = Len(h) + 1
          /\ g[Len(h) + 1] = n + 1 /\ v[Len(h) + 1] = wall
          /\ \A j \in 1..Len(h) : g[j] = h[j] /\ v[j] = w[j]
      BY <1>1, <1>2, <1>6, <3>2
    <3>4. 1..(Len(h) + 1) = 1..Len(h) \cup {Len(h) + 1} /\ n + 1 \in 1..(n + 1) /\ 1..n \subseteq 1..(n + 1)
      BY <1>2, <3>2
    <3>5. \A j \in 1..(Len(h) + 1) : g[j] \in 1..(n + 1) /\ requests'[g[j]].at = v[j]
      <4>1. ASSUME NEW j \in 1..Len(h) PROVE g[j] \in 1..(n + 1) /\ requests'[g[j]].at = v[j]
        <5>1. g[j] = h[j] /\ h[j] \in 1..n /\ v[j] = w[j] /\ requests[h[j]].at = w[j]
          BY <3>2, <3>3
        <5> QED  BY <1>2, <3>4, <5>1
      <4>2. g[Len(h) + 1] \in 1..(n + 1) /\ requests'[g[Len(h) + 1]].at = v[Len(h) + 1]
        BY <1>2, <3>3, <3>4
      <4> QED  BY <3>4, <4>1, <4>2
    <3>6. \A k \in Recent(c, s)' : \E j \in 1..(Len(h) + 1) : g[j] = k
      BY <1>5, <1>8, <3>2, <3>3, <3>4
    <3>7. new.window = v
      BY <2>1, <2>3
    <3>8. Stamps(g, v, Recent(c, s))'
      BY <1>2, <3>3, <3>5, <3>6 DEF Stamps
    <3> QED  BY <3>7, <3>8
  <2> QED  BY <1>7, <2>1, <2>2, <2>3 DEF Books
<1>9. CASE ~App!Allows(l)
  <2>1. new = [l EXCEPT !.window = w] /\ new.client = c /\ new.window = w /\ new.count = l.count /\ new \in SideLimiter
    BY <1>1, <1>6, <1>9 DEF App!Checked, SideLimiter, w
  <2>2. ChargedSince(c, s)' = ChargedSince(c, s) /\ Recent(c, s)' \subseteq Recent(c, s)
    BY <1>4, <1>5, <1>9
  <2>3. ASSUME MinuteLimit # None PROVE \E g : Stamps(g, new.window, Recent(c, s))'
    <3>1. PICK h : Stamps(h, w, Recent(c, s))
      BY <1>6, <2>3
    <3>2. 1..n \subseteq 1..(n + 1)
      BY <1>2
    <3>3. Stamps(h, new.window, Recent(c, s))'
      BY <1>2, <2>1, <2>2, <3>1, <3>2 DEF Stamps
    <3> QED  BY <3>3
  <2> QED  BY <1>9, <2>1, <2>2, <2>3 DEF Books
<1> QED  BY <1>8, <1>9

\* What a limiter has counted it has still counted later.
LEMMA BooksStay ==
  ASSUME NEW l, NEW s, Books(l, s), ChargedSince(l.client, s)' = ChargedSince(l.client, s),
         Recent(l.client, s)' \subseteq Recent(l.client, s),
         1..Len(requests) \subseteq 1..Len(requests'), \A k \in 1..Len(requests) : requests'[k] = requests[k]
  PROVE  Books(l, s)'
<1>1. ASSUME NEW g, Stamps(g, l.window, Recent(l.client, s)) PROVE Stamps(g, l.window, Recent(l.client, s))'
  BY <1>1 DEF Stamps
<1>2. MinuteLimit # None => \E g : Stamps(g, l.window, Recent(l.client, s))'
  BY <1>1 DEF Books
<1> QED  BY <1>2 DEF Books

LEMMA OneMore ==
  ASSUME NEW S, NEW x, IsFiniteSet(S)
  PROVE  IsFiniteSet(S \cup {x}) /\ Cardinality(S \cup {x}) <= Cardinality(S) + 1
<1>1. /\ IsFiniteSet(S \cup {x}) /\ Cardinality(S) \in Nat
      /\ Cardinality(S \cup {x}) = IF x \in S THEN Cardinality(S) ELSE Cardinality(S) + 1
  BY FS_AddElement, FS_CardinalityType
<1> QED  BY <1>1

\* A crowd came, or the client has had no more than its limits.
LEMMA CrowdStep ==
  ASSUME SideIInv, App!SidecarConstants, NEW c \in Client, NEW s, Starts(c, s)',
         NEW r \in Request, requests' = Append(requests, r), r.client = c, r.at = wall, NEW n, n = Len(requests),
         r.reply # "limited" => /\ SessionLimit # None => Cardinality(ChargedSince(c, s)) < SessionLimit
                                /\ MinuteLimit # None => Cardinality(Recent(c, s)) < MinuteLimit
  PROVE  App!EvictionNeedsCrowd'
<1>1. SideTypeOK /\ wall \in Nat /\ requests \in Seq(Request)
  BY DEF SideIInv, SideTypeOK, Request
<1>2. /\ n \in Nat /\ Len(requests') = n + 1 /\ requests'[n + 1] = r /\ n + 1 \notin 1..n
      /\ \A i \in 1..n : requests'[i] = requests[i]
      /\ \A d : App!ChargedTo(d)' = App!ChargedTo(d) \cup (IF d = c /\ r.reply # "limited" THEN {n + 1} ELSE {})
      /\ \A d, i, j : i \in 1..n /\ j \in 1..(n + 1) => (App!Crowded(d, i, j)' <=> App!Crowded(d, i, j))
  BY <1>1, Requested
<1>3. \A d : App!ChargedTo(d) \subseteq 1..n
  BY DEF App!ChargedTo
<1>4. SUFFICES ASSUME NEW d \in Client, NEW first \in App!ChargedTo(d)', NEW last \in App!ChargedTo(d)',
                      first < last, App!Exceeds(d, first, last)'
               PROVE  \E i, j \in first..last : /\ requests'[i].client = d /\ requests'[j].client = d
                                                 /\ i < j /\ App!Crowded(d, i, j)'
  BY DEF App!EvictionNeedsCrowd
<1>5. first \in 1..n
  BY <1>2, <1>3, <1>4
<1>6. CASE last \in 1..n
  <2>1. first \in App!ChargedTo(d) /\ last \in App!ChargedTo(d)
    BY <1>2, <1>5, <1>6
  <2>2. n + 1 \notin first..last
    BY <1>2, <1>5, <1>6
  <2>3. App!ChargedTo(d)' \cap (first..last) = App!ChargedTo(d) \cap (first..last)
    BY <1>2, <2>2
  <2>4. App!Exceeds(d, first, last)
    BY <1>2, <1>4, <1>5, <1>6, <2>3, SideCounts DEF App!Exceeds
  <2>5. PICK i, j \in first..last : /\ requests[i].client = d /\ requests[j].client = d
                                    /\ i < j /\ App!Crowded(d, i, j)
    BY <1>4, <2>1, <2>4 DEF SideIInv, App!EvictionNeedsCrowd
  <2>6. i \in 1..n /\ j \in 1..n /\ j \in 1..(n + 1)
    BY <1>2, <1>5, <1>6
  <2> QED  BY <1>2, <2>5, <2>6
<1>7. CASE last \notin 1..n
  <2>1. last = n + 1 /\ d = c /\ r.reply # "limited"
    BY <1>2, <1>3, <1>7
  <2>2. s \in 1..(n + 1) /\ requests'[s].client = c
    BY <1>2 DEF Starts
  <2>3. CASE first < s
    <3>1. first \in 1..(s - 1) /\ requests'[first].client = c
      <4>1. requests'[first].client = c
        BY <2>1 DEF App!ChargedTo
      <4> QED  BY <1>5, <2>2, <2>3, <4>1
    <3>2. PICK k \in first..(s - 1) : requests'[k].client = c /\ App!Crowded(c, k, s)'
      BY <3>1 DEF Starts
    <3>3. k \in first..last /\ s \in first..last /\ k < s
      BY <1>2, <1>5, <2>1, <2>2, <2>3
    <3> QED  BY <2>1, <2>2, <3>2, <3>3
  <2>4. CASE ~(first < s)
    <3> DEFINE C == App!ChargedTo(c)' \cap (first..(n + 1))
    <3>1. IsFiniteSet(ChargedSince(c, s)) /\ IsFiniteSet(Recent(c, s))
          /\ ChargedSince(c, s) \subseteq 1..n
          /\ Cardinality(ChargedSince(c, s)) \in Nat /\ Cardinality(Recent(c, s)) \in Nat
      BY <1>1, ChargesFinite, FS_CardinalityType
    <3>2. C \subseteq ChargedSince(c, s) \cup {n + 1}
      <4>1. ASSUME NEW k \in C, k # n + 1 PROVE k \in App!ChargedTo(c) /\ k >= s
        BY <1>2, <1>3, <1>5, <2>2, <2>4, <4>1
      <4> QED  BY <4>1 DEF ChargedSince
    <3>3. ASSUME SessionLimit # None PROVE ~(Cardinality(C) > SessionLimit)
      <4>1. Cardinality(ChargedSince(c, s) \cup {n + 1}) <= Cardinality(ChargedSince(c, s)) + 1
            /\ IsFiniteSet(ChargedSince(c, s) \cup {n + 1})
        BY <3>1, OneMore
      <4>2. Cardinality(C) <= Cardinality(ChargedSince(c, s) \cup {n + 1}) /\ Cardinality(C) \in Nat
            /\ Cardinality(ChargedSince(c, s) \cup {n + 1}) \in Nat
        BY <3>2, <4>1, FS_Subset, FS_CardinalityType
      <4>3. Cardinality(ChargedSince(c, s)) < SessionLimit /\ SessionLimit \in Nat
        BY <2>1, <3>3 DEF App!SidecarConstants
      <4> QED  BY <3>1, <4>1, <4>2, <4>3
    <3>4. ASSUME MinuteLimit # None, requests'[n + 1].at - requests'[first].at < Minute
          PROVE  ~(Cardinality(C) > MinuteLimit)
      <4>1. C \subseteq Recent(c, s) \cup {n + 1}
        <5> SUFFICES ASSUME NEW k \in C, k # n + 1 PROVE k \in Recent(c, s)
          OBVIOUS
        <5>1. k \in ChargedSince(c, s) /\ k \in 1..n
          BY <3>1, <3>2
        <5>2. first <= k
          BY <1>5, <5>1
        <5>3. requests[first].at <= requests[k].at /\ requests[first].at \in Nat /\ requests[k].at \in Nat
          <6>1. requests[first].at \in Nat /\ requests[k].at \in Nat
            <7>1. requests[first] \in Request /\ requests[k] \in Request
              BY <1>1, <1>5, <5>1, ElementOfSeq
            <7> QED  BY <7>1 DEF Request
          <6>2. first \in 1..Len(requests) /\ k \in 1..Len(requests)
            BY <1>5, <5>1
          <6> QED  BY <5>2, <6>1, <6>2 DEF SideIInv, InTime
        <5>4. wall - requests[first].at < Minute
          BY <1>2, <1>5, <3>4
        <5>5. requests[k].at > wall - Minute
          BY <1>1, <5>3, <5>4 DEF App!SidecarConstants
        <5> QED  BY <5>1, <5>5 DEF Recent
      <4>2. Cardinality(Recent(c, s) \cup {n + 1}) <= Cardinality(Recent(c, s)) + 1
            /\ IsFiniteSet(Recent(c, s) \cup {n + 1})
        BY <3>1, OneMore
      <4>3. Cardinality(C) <= Cardinality(Recent(c, s) \cup {n + 1}) /\ Cardinality(C) \in Nat
            /\ Cardinality(Recent(c, s) \cup {n + 1}) \in Nat
        BY <4>1, <4>2, FS_Subset, FS_CardinalityType
      <4>4. Cardinality(Recent(c, s)) < MinuteLimit /\ MinuteLimit \in Nat
        BY <2>1, <3>4 DEF App!SidecarConstants
      <4> QED  BY <3>1, <4>2, <4>3, <4>4
    <3>5. ~App!Exceeds(d, first, last)'
      BY <2>1, <3>3, <3>4, SideCounts DEF App!Exceeds
    <3> QED  BY <1>4, <3>5
  <2> QED  BY <1>5, <2>2, <2>3, <2>4
<1> QED  BY <1>6, <1>7

\* A request leaves the limiters in the order in which their clients were seen, and one
\* of a client that is missing was crowded out.
LEMMA OrderStep ==
  ASSUME SideIInv, App!SidecarConstants, NEW c \in Client, NEW l \in SideLimiter, l.client = c,
         l = App!Checked(App!Limiter(c)), limiters' = App!Seen(c),
         NEW r \in Request, requests' = Append(requests, r), r.client = c
  PROVE  InOrder' /\ Forgotten'
<1> DEFINE n == Len(requests)
           old == Len(limiters)
<1>1. SideTypeOK /\ InOrder /\ limiters \in Seq(SideLimiter) /\ old \in Nat /\ Limiters \in Nat \ {0}
  BY DEF SideIInv, SideTypeOK, App!SidecarConstants
<1>2. /\ n \in Nat /\ Len(requests') = n + 1 /\ requests'[n + 1] = r
      /\ \A k \in 1..n : After(k)' = After(k) \cup {c}
      /\ \A d, k : Latest(d, k)' <=> IF d = c THEN k = n + 1 ELSE Latest(d, k)
  BY <1>1, Requested
<1>3. \A d, k : Latest(d, k) => k \in 1..n
  BY DEF Latest
<1> HIDE DEF n
<1>4. PICK m, e : /\ m \in Nat /\ limiters' \in Seq(SideLimiter) /\ Len(limiters') = m + 1 /\ m + 1 <= Limiters
                  /\ limiters'[m + 1] = l /\ Keeps(e, limiters', m, c)
  <2>1. /\ limiters' \in Seq(SideLimiter) /\ Len(limiters') \in 1..Limiters
        /\ limiters'[Len(limiters')] = l /\ \E e : Keeps(e, limiters', Len(limiters') - 1, c)
    BY SeenFacts
  <2>2. PICK e : Keeps(e, limiters', Len(limiters') - 1, c)
    BY <2>1
  <2>3. Len(limiters') - 1 \in Nat /\ (Len(limiters') - 1) + 1 = Len(limiters') /\ Len(limiters') <= Limiters
    BY <1>1, <2>1
  <2> QED  BY <2>1, <2>2, <2>3
<1>5. /\ e \in [1..m -> 1..old]
      /\ \A i \in 1..m : limiters'[i] = limiters[e[i]] /\ limiters[e[i]].client # c
      /\ \A i, j \in 1..m : i < j => e[i] < e[j]
      /\ \A q \in 1..old : limiters[q].client # c =>
            \/ \E i \in 1..m : e[i] = q
            \/ m + 1 = Limiters /\ \A i \in 1..m : q < e[i]
  BY <1>4 DEF Keeps
<1>6. 1..(m + 1) = 1..m \cup {m + 1} /\ m + 1 \notin 1..m /\ \A i \in 1..m : i < m + 1 /\ ~(m + 1 < i)
  BY <1>4
<1>7. /\ Len(limiters) <= Limiters
      /\ \A i, j \in 1..old : limiters[i].client = limiters[j].client => i = j
      /\ \A i, j \in 1..old : i < j => \A k : Latest(limiters[i].client, k) => limiters[j].client \in After(k)
  BY <1>1 DEF InOrder
<1> HIDE DEF old
<1>8. \A i, j \in 1..(m + 1) : limiters'[i].client = limiters'[j].client => i = j
  <2>1. ASSUME NEW i \in 1..m, NEW j \in 1..m, limiters'[i].client = limiters'[j].client PROVE i = j
    <3>1. e[i] = e[j]
      BY <1>5, <1>7, <2>1
    <3>2. ~(i < j) /\ ~(j < i)
      <4>1. e[i] \in Nat /\ e[j] \in Nat
        BY <1>5
      <4> QED  BY <1>5, <3>1, <4>1
    <3> QED  BY <3>2
  <2>2. \A i \in 1..m : limiters'[i].client # c /\ limiters'[m + 1].client = c
    BY <1>4, <1>5
  <2> QED  BY <1>6, <2>1, <2>2
<1>9. ASSUME NEW i \in 1..(m + 1), NEW j \in 1..(m + 1), i < j, NEW d, d = limiters'[i].client,
             NEW k, Latest(d, k)'
      PROVE  limiters'[j].client \in After(k)'
  <2>1. i \in 1..m
    BY <1>6, <1>9
  <2>2. limiters'[i].client # c /\ limiters'[i] = limiters[e[i]]
    BY <1>5, <2>1
  <2>3. Latest(limiters[e[i]].client, k) /\ k \in 1..n
    BY <1>2, <1>3, <1>9, <2>2
  <2>4. After(k)' = After(k) \cup {c}
    BY <1>2, <2>3
  <2>5. CASE j = m + 1
    BY <1>4, <2>4, <2>5
  <2>6. CASE j \in 1..m
    <3>1. e[i] < e[j] /\ e[i] \in 1..old /\ e[j] \in 1..old /\ limiters'[j] = limiters[e[j]]
      BY <1>5, <1>9, <2>1, <2>6
    <3>2. limiters[e[j]].client \in After(k)
      BY <1>7, <2>3, <3>1
    <3> QED  BY <2>4, <3>1, <3>2
  <2> QED  BY <1>6, <2>5, <2>6
<1>10. InOrder'
  <2>1. /\ Len(limiters') = m + 1 /\ m + 1 <= Limiters
        /\ \A i, j \in 1..(m + 1) : i < j => \A k : Latest(limiters[i].client, k)' => limiters'[j].client \in After(k)'
    BY <1>4, <1>9 DEF Latest
  <2> QED  BY <1>8, <2>1 DEF InOrder
<1>11. ASSUME NEW d \in Client, \A i \in 1..(m + 1) : limiters'[i].client # d, NEW k, Latest(d, k)'
       PROVE  Cardinality(After(k)') >= Limiters
  <2>1. d # c
    BY <1>4, <1>6, <1>11
  <2>2. Latest(d, k) /\ k \in 1..n /\ After(k)' = After(k) \cup {c}
    BY <1>2, <1>3, <1>11, <2>1
  <2>3. IsFiniteSet(After(k)) /\ IsFiniteSet(After(k)')
        /\ Cardinality(After(k)) \in Nat /\ Cardinality(After(k)') \in Nat
    <3>1. IsFiniteSet(After(k))
      BY <1>1, <1>2, <2>2, AfterFinite
    <3>2. IsFiniteSet(After(k) \cup {c})
      BY <3>1, OneMore
    <3> QED  BY <2>2, <3>1, <3>2, FS_CardinalityType
  <2>4. CASE \A q \in 1..old : limiters[q].client # d
    <3>1. Cardinality(After(k)) >= Limiters
      BY <2>2, <2>4 DEF SideIInv, Forgotten, old
    <3>2. Cardinality(After(k)) <= Cardinality(After(k)')
      BY <2>2, <2>3, FS_Subset
    <3> QED  BY <1>1, <2>3, <3>1, <3>2
  <2>5. ASSUME NEW q \in 1..old, limiters[q].client = d
        PROVE  Cardinality(After(k)') >= Limiters
    <3>1. ~ \E i \in 1..m : e[i] = q
      BY <1>5, <1>6, <1>11, <2>5
    <3>2. m + 1 = Limiters /\ \A i \in 1..m : q < e[i]
      BY <1>5, <2>1, <2>5, <3>1
    <3>3. \A i \in 1..m : limiters'[i].client \in After(k)
      BY <1>5, <1>7, <2>2, <2>5, <3>2
    <3> PICK f : f = [i \in 1..(m + 1) |-> limiters'[i].client]
      OBVIOUS
    <3>4. f \in Injection(1..(m + 1), After(k)')
      <4>1. \A i \in 1..(m + 1) : f[i] \in After(k)'
        BY <1>4, <1>6, <2>2, <3>3
      <4>2. f \in [1..(m + 1) -> After(k)']
        BY <4>1
      <4>3. \A i, j \in 1..(m + 1) : f[i] = f[j] => i = j
        BY <1>8
      <4> QED  BY <4>2, <4>3 DEF Injection, IsInjective
    <3>5. IsFiniteSet(1..(m + 1)) /\ Cardinality(1..(m + 1)) = m + 1
      <4>1. 1 \in Int /\ m + 1 \in Int /\ ~(1 > m + 1) /\ (m + 1) - 1 + 1 = m + 1
        BY <1>4
      <4>2. IsFiniteSet(1..(m + 1)) /\ Cardinality(1..(m + 1)) = IF 1 > m + 1 THEN 0 ELSE (m + 1) - 1 + 1
        BY <4>1, FS_Interval
      <4> QED  BY <4>1, <4>2
    <3>6. Cardinality(1..(m + 1)) <= Cardinality(After(k)')
      BY <2>3, <3>4, FS_Injection
    <3> QED  BY <1>1, <2>3, <3>2, <3>5, <3>6
  <2> QED  BY <2>4, <2>5
<1>12. Forgotten'
  BY <1>4, <1>11 DEF Forgotten
<1> QED  BY <1>10, <1>12

LEMMA DispatchIInv ==
  ASSUME App!SidecarConstants, SideIInv, NEW c \in Client, NEW flaw, App!Dispatch(c, flaw)
  PROVE  SideIInv'
<1> DEFINE l == App!Limiter(c)
<1>1. SideTypeOK /\ InTime /\ wall \in Nat /\ requests \in Seq(Request) /\ limiters \in Seq(SideLimiter)
  BY DEF SideIInv, SideTypeOK, Request
<1>2. limiters' = App!Seen(c) /\ wall' = wall
  BY DEF App!Dispatch
<1>3. PICK r \in Request : /\ requests' = Append(requests, r) /\ r.client = c /\ r.at = wall
                           /\ r.reply # "limited" <=> App!Allows(l)
  <2> DEFINE reply == IF ~App!Allows(l) THEN "limited" ELSE IF flaw \in App!Late THEN "refused" ELSE "ok"
             t == [client |-> c, at |-> wall, reply |-> reply]
  <2>1. requests' = Append(requests, t)
    BY DEF App!Dispatch
  <2>2. reply \in Reply /\ (reply # "limited" <=> App!Allows(l))
    BY DEF Reply
  <2> HIDE DEF reply
  <2>3. t \in Request /\ t.client = c /\ t.at = wall /\ t.reply = reply
    BY <1>1, <2>2 DEF Request
  <2> QED  BY <2>1, <2>2, <2>3
<1> PICK n : n = Len(requests)
  OBVIOUS
<1>4. /\ n \in Nat /\ requests' \in Seq(Request) /\ Len(requests') = n + 1
      /\ requests'[n + 1] = r /\ \A i \in 1..n : requests'[i] = requests[i]
      /\ \A d : App!ChargedTo(d)' = App!ChargedTo(d) \cup (IF d = c /\ r.reply # "limited" THEN {n + 1} ELSE {})
      /\ \A d, s : Starts(d, s) => Starts(d, s)'
  <2>1. requests' = Append(requests, r) /\ r.client = c /\ r \in Request
    BY <1>3
  <2> QED  BY <1>1, <2>1, Requested
<1>5. 1..(n + 1) = 1..n \cup {n + 1} /\ n + 1 \notin 1..n /\ \A i \in 1..n : ~(n + 1 <= i)
  BY <1>4
<1>6. PICK s \in 1..(n + 1) : Starts(c, s)' /\ Books(l, s) /\ l \in SideLimiter /\ l.client = c
  <2>1. requests' = Append(requests, r) /\ r.client = c /\ r \in Request
    BY <1>3
  <2> QED  BY <2>1, LimiterStarts
<1> HIDE DEF l
<1> PICK new : new = App!Checked(l)
  OBVIOUS
<1>7. /\ new \in SideLimiter /\ new.client = c /\ Books(new, s)'
      /\ r.reply # "limited" => /\ SessionLimit # None => Cardinality(ChargedSince(c, s)) < SessionLimit
                                /\ MinuteLimit # None => Cardinality(Recent(c, s)) < MinuteLimit
  BY <1>2, <1>3, <1>6, BooksStep
<1>8. InOrder' /\ Forgotten'
  BY <1>2, <1>3, <1>7, OrderStep DEF l
<1>9. App!EvictionNeedsCrowd'
  BY <1>3, <1>6, <1>7, CrowdStep
<1>10. InTime'
  <2>1. \A i \in 1..(n + 1) : requests'[i].at <= wall
    <3>1. \A i \in 1..n : requests[i].at <= wall
      BY <1>1 DEF InTime
    <3>2. r.at <= wall
      BY <1>1, <1>3
    <3> QED  BY <1>4, <1>5, <3>1, <3>2
  <2>2. \A i, j \in 1..(n + 1) : i <= j => requests'[i].at <= requests'[j].at
    <3>1. \A i, j \in 1..n : i <= j => requests'[i].at <= requests'[j].at
      BY <1>1, <1>4 DEF InTime
    <3>2. \A i \in 1..(n + 1) : requests'[i].at <= requests'[n + 1].at
      BY <1>3, <1>4, <2>1
    <3> QED  BY <1>5, <3>1, <3>2
  <2> QED  BY <1>2, <1>4, <2>1, <2>2 DEF InTime
<1>11. /\ limiters' \in Seq(SideLimiter) /\ Len(limiters') \in 1..Limiters /\ limiters'[Len(limiters')] = new
       /\ \E e : Keeps(e, limiters', Len(limiters') - 1, c)
  BY <1>2, <1>7, SeenFacts DEF l
<1>12. SideTypeOK'
  BY <1>1, <1>2, <1>4, <1>11 DEF SideTypeOK, Request
<1>13. Counted'
  <2> SUFFICES ASSUME NEW i \in 1..Len(limiters')
               PROVE  \E u : Starts(limiters[i].client, u)' /\ Books(limiters[i], u)'
    BY DEF Counted
  <2>1. CASE i = Len(limiters')
    BY <1>6, <1>7, <1>11, <2>1
  <2>2. CASE i # Len(limiters')
    <3>1. PICK e : Keeps(e, limiters', Len(limiters') - 1, c)
      BY <1>11
    <3>2. i \in 1..(Len(limiters') - 1)
      BY <1>11, <2>2
    <3>3. e[i] \in 1..Len(limiters) /\ limiters'[i] = limiters[e[i]] /\ limiters[e[i]].client # c
      BY <3>1, <3>2 DEF Keeps
    <3>4. PICK u : Starts(limiters[e[i]].client, u) /\ Books(limiters[e[i]], u)
      BY <3>3 DEF SideIInv, Counted
    <3> PICK k : k = limiters[e[i]]
      OBVIOUS
    <3>5. Starts(k.client, u)' /\ Books(k, u) /\ k.client # c
      BY <1>4, <3>3, <3>4
    <3>6. ChargedSince(k.client, u)' = ChargedSince(k.client, u) /\ ChargedSince(k.client, u) \subseteq 1..n
      BY <1>4, <3>5 DEF ChargedSince, App!ChargedTo
    <3>7. Recent(k.client, u)' \subseteq Recent(k.client, u)
      BY <1>2, <1>4, <3>6 DEF Recent
    <3>8. Books(k, u)'
      BY <1>4, <1>5, <3>5, <3>6, <3>7, BooksStay
    <3> QED  BY <3>3, <3>5, <3>8
  <2> QED  BY <2>1, <2>2
<1> QED  BY <1>8, <1>9, <1>10, <1>12, <1>13 DEF SideIInv

\* Without a new request what is said of the requests stays.
LEMMA Quiet ==
  ASSUME requests' = requests
  PROVE  /\ \A d, k : (Latest(d, k)' <=> Latest(d, k)) /\ After(k)' = After(k)
         /\ \A d, i, j : App!Crowded(d, i, j)' <=> App!Crowded(d, i, j)
         /\ \A d : App!ChargedTo(d)' = App!ChargedTo(d)
         /\ \A d, s : (Starts(d, s)' <=> Starts(d, s)) /\ ChargedSince(d, s)' = ChargedSince(d, s)
         /\ App!EvictionNeedsCrowd' <=> App!EvictionNeedsCrowd
<1>1. /\ \A d, k : (Latest(d, k)' <=> Latest(d, k)) /\ After(k)' = After(k)
      /\ \A d, i, j : App!Crowded(d, i, j)' <=> App!Crowded(d, i, j)
      /\ \A d : App!ChargedTo(d)' = App!ChargedTo(d)
  BY DEF Latest, After, App!Crowded, App!ChargedTo
<1>2. \A d, s : (Starts(d, s)' <=> Starts(d, s)) /\ ChargedSince(d, s)' = ChargedSince(d, s)
  BY <1>1 DEF Starts, ChargedSince
<1>3. \A d, i, j : App!Exceeds(d, i, j)' <=> App!Exceeds(d, i, j)
  BY <1>1 DEF App!Exceeds
<1>4. App!EvictionNeedsCrowd' <=> App!EvictionNeedsCrowd
  BY <1>1, <1>3 DEF App!EvictionNeedsCrowd
<1> QED  BY <1>1, <1>2, <1>4

LEMMA PassIInv == ASSUME App!SidecarConstants, SideIInv, App!Pass PROVE SideIInv'
<1>1. wall' = wall + 1 /\ requests' = requests /\ limiters' = limiters /\ wall \in Nat
  BY DEF App!Pass, SideIInv, SideTypeOK
<1>2. SideTypeOK' /\ \A k \in 1..Len(requests) : requests[k].at \in Nat
  <2>1. SideTypeOK /\ requests \in Seq(Request)
    BY DEF SideIInv, SideTypeOK, Request
  <2>2. \A k \in 1..Len(requests) : requests[k] \in Request
    BY <2>1, ElementOfSeq
  <2> QED  BY <1>1, <2>1, <2>2 DEF SideTypeOK, Request
<1>3. InTime'
  <2>1. \A i \in 1..Len(requests) : requests[i].at <= wall + 1
    <3>1. \A i \in 1..Len(requests) : requests[i].at \in Nat /\ requests[i].at <= wall
      BY <1>2 DEF SideIInv, InTime
    <3> QED  BY <1>1, <3>1
  <2> QED  BY <1>1, <2>1 DEF SideIInv, InTime
<1>4. InOrder' /\ Forgotten'
  BY <1>1, Quiet DEF SideIInv, InOrder, Forgotten
<1>5. Counted'
  <2> SUFFICES ASSUME NEW i \in 1..Len(limiters)
               PROVE  \E s : Starts(limiters[i].client, s)' /\ Books(limiters[i], s)'
    BY <1>1 DEF Counted
  <2>1. PICK s : Starts(limiters[i].client, s) /\ Books(limiters[i], s)
    BY DEF SideIInv, Counted
  <2>2. PICK l : l = limiters[i]
    OBVIOUS
  <2>3. ChargedSince(l.client, s)' = ChargedSince(l.client, s) /\ (Starts(l.client, s)' <=> Starts(l.client, s))
    BY <1>1, Quiet
  <2>4. Recent(l.client, s)' \subseteq Recent(l.client, s)
    <3>1. \A k \in ChargedSince(l.client, s) : requests[k].at \in Nat
      BY <1>2 DEF ChargedSince, App!ChargedTo
    <3>2. Minute \in Nat
      BY DEF App!SidecarConstants
    <3> QED  BY <1>1, <2>3, <3>1, <3>2 DEF Recent
  <2>5. Books(l, s)'
    BY <1>1, <2>1, <2>2, <2>3, <2>4, BooksStay
  <2>6. Starts(l.client, s)'
    BY <2>1, <2>2, <2>3
  <2> QED  BY <1>1, <2>2, <2>5, <2>6
<1> QED  BY <1>1, <1>2, <1>3, <1>4, <1>5, Quiet DEF SideIInv

LEMMA SideNextIInv == App!SidecarConstants /\ SideIInv /\ [App!Next]_App!vars => SideIInv'
<1> SUFFICES ASSUME App!SidecarConstants, SideIInv, [App!Next]_App!vars PROVE SideIInv'
  OBVIOUS
<1>1. CASE App!Next
  BY <1>1, DispatchIInv, PassIInv DEF App!Next
<1>2. CASE UNCHANGED App!vars
  <2>1. wall' = wall /\ requests' = requests /\ limiters' = limiters
    BY <1>2 DEF App!vars
  <2>2. SideTypeOK' /\ InTime' /\ InOrder' /\ Forgotten'
    <3>1. SideTypeOK' /\ InTime'
      BY <2>1 DEF SideIInv, SideTypeOK, InTime
    <3>2. InOrder' /\ Forgotten'
      BY <2>1, Quiet DEF SideIInv, InOrder, Forgotten
    <3> QED  BY <3>1, <3>2
  <2>3. Counted'
    <3>1. \A l, s : Books(l, s)' <=> Books(l, s)
      BY <2>1 DEF Books, ChargedSince, Recent, App!ChargedTo, Stamps
    <3> QED  BY <2>1, <3>1, Quiet DEF SideIInv, Counted
  <2> QED  BY <2>1, <2>2, <2>3, Quiet DEF SideIInv
<1> QED  BY <1>1, <1>2

LEMMA SidecarComponent == App!Spec => []App!EvictionNeedsCrowd
<1>1. App!Init => SideIInv
  BY SidecarAssumption, SideInitIInv
<1>2. SideIInv /\ [App!Next]_App!vars => SideIInv'
  BY SidecarAssumption, SideNextIInv
<1>3. SideIInv => App!EvictionNeedsCrowd
  BY DEF SideIInv
<1> QED  BY <1>1, <1>2, <1>3, PTL DEF App!Spec

\* For any number of clients and any limits: a client gets more than its limits from the
\* sidecar only after a crowd of others pushed its limiter out (EvictionNeedsCrowd).
THEOREM CrowdsEvict == SpecParts => []EvictionNeedsCrowd
<1>1. InitParts => App!Init
  BY DEF InitParts
<1>2. [NextPart]_allVars => [App!Next]_App!vars
  BY DEF NextPart, Rest, allVars, sidecarVars, App!vars
<1> QED  BY <1>1, <1>2, SidecarComponent, PTL DEF SpecParts, App!Spec, EvictionNeedsCrowd
--------------------------------------------------------------------------------
(* The response cache: GatewayRuntimeProofs under the constants of the run *)

Cache == INSTANCE GatewayRuntimeProofs WITH
    Name <- Names, Variant <- Variants, Id <- {id1, id2}, Arg <- {arg1, arg2}, Task <- {t1, t2},
    Refresher <- {r1}, Place <- [n \in Names |-> 1], ToolId <- IdOf, ReadOnly <- {v1, v3},
    Malformed <- {}, Broken <- {v4}, Denied <- {v3}, Accepts <- Arguments,
    RaiseInvalid <- FALSE, Admitted <- {id1, id2}, Ttl <- 1, MaxEntries <- 2,
    MaxAttempts <- 2, MaxClock <- CacheTime, MaxChanges <- 1

\* The constants of the run are those of a runtime.
LEMMA CacheConstants ==
    /\ Cache!NoneAssumption /\ Cache!PlaceAssumption /\ Cache!ToolIdAssumption
    /\ Cache!VariantAssumption /\ Cache!LimitAssumption /\ Cache!SwitchAssumption
<1>1. Cache!NoneAssumption
  BY RuntimeAssumption DEF Cache!NoneAssumption, Cache!Def
<1>2. Cache!PlaceAssumption
  BY DEF Cache!PlaceAssumption, Cache!IsInjective, Names
<1>3. Cache!ToolIdAssumption
  BY DEF Cache!ToolIdAssumption, Cache!Def, IdOf
<1>4. Cache!VariantAssumption
  BY DEF Cache!VariantAssumption, Variants, Arguments
<1>5. Cache!LimitAssumption
  BY RuntimeAssumption DEF Cache!LimitAssumption
<1>6. Cache!SwitchAssumption
  BY DEF Cache!SwitchAssumption
<1> QED  BY <1>1, <1>2, <1>3, <1>4, <1>5, <1>6

\* The runtime of the run is the one the proofs are about.
LEMMA SameRuntime ==
    /\ Runtime!Init <=> Cache!Init
    /\ Runtime!Next <=> Cache!Next
    /\ Runtime!vars = Cache!vars
    /\ Runtime!CacheSound <=> Cache!CacheSound
<1>1. (Runtime!Init <=> Cache!Init) /\ Runtime!vars = Cache!vars
  BY DEF Runtime!Init, Cache!Init, Runtime!vars, Cache!vars, Runtime!Idle, Cache!Idle
<1>2. Runtime!Next <=> Cache!Next
  BY DEF Runtime!RemoveAt, Cache!RemoveAt, Runtime!Def, Cache!Def, Runtime!view,
         Cache!view, Runtime!session, Cache!session, Runtime!world, Cache!world,
         Runtime!Idle, Cache!Idle, Runtime!Listed, Cache!Listed, Runtime!Definition,
         Cache!Definition, Runtime!IdIn, Cache!IdIn, Runtime!WellFormed,
         Cache!WellFormed, Runtime!ItemIds, Cache!ItemIds, Runtime!Clashes,
         Cache!Clashes, Runtime!Prefix, Cache!Prefix, Runtime!CatalogOf,
         Cache!CatalogOf, Runtime!IndexOf, Cache!IndexOf, Runtime!Invalidate,
         Cache!Invalidate, Runtime!Raises, Cache!Raises, Runtime!Rebuild, Cache!Rebuild,
         Runtime!ListTools, Cache!ListTools, Runtime!Register, Cache!Register,
         Runtime!Browse, Cache!Browse, Runtime!Hydrate, Cache!Hydrate, Runtime!Found,
         Cache!Found, Runtime!Fresh, Cache!Fresh, Runtime!Without, Cache!Without,
         Runtime!Put, Cache!Put, Runtime!Validator, Cache!Validator, Runtime!Valid,
         Cache!Valid, Runtime!Keyed, Cache!Keyed, Runtime!Hit, Cache!Hit,
         Runtime!Compile, Cache!Compile, Runtime!Compiles, Cache!Compiles,
         Runtime!Return, Cache!Return, Runtime!NotFound, Cache!NotFound,
         Runtime!SchemaInvalid, Cache!SchemaInvalid, Runtime!ArgsInvalid,
         Cache!ArgsInvalid, Runtime!Blocked, Cache!Blocked, Runtime!Refused,
         Cache!Refused, Runtime!Cleared, Cache!Cleared, Runtime!CacheHit,
         Cache!CacheHit, Runtime!Dispatch, Cache!Dispatch, Runtime!Reply, Cache!Reply,
         Runtime!Retries, Cache!Retries, Runtime!Backoff, Cache!Backoff, Runtime!Retry,
         Cache!Retry, Runtime!Fail, Cache!Fail, Runtime!Stores, Cache!Stores,
         Runtime!Finish, Cache!Finish, Runtime!Cancel, Cache!Cancel,
         Runtime!UpstreamChanges, Cache!UpstreamChanges, Runtime!Advance, Cache!Advance,
         Runtime!Execute, Cache!Execute, Runtime!Await, Cache!Await, Runtime!Resume,
         Cache!Resume, Runtime!Refresh, Cache!Refresh, Runtime!Next, Cache!Next
<1>3. Runtime!CacheSound <=> Cache!CacheSound
  BY DEF Runtime!CacheSound, Cache!CacheSound, Runtime!CachesOnlyReads, Cache!CachesOnlyReads,
         Runtime!OneEntryPerCall, Cache!OneEntryPerCall
<1> QED  BY <1>1, <1>2, <1>3

\* Whatever executes, refreshes and time interleave: the cache holds successes of
\* admitted, allowed reads, one per call and no more than max_entries
\* (ToolResultCache, ProxyRuntime.execute).
THEOREM CacheServesReads == SpecParts => []CacheSound
<1>1. InitParts => Cache!Init
  BY SameRuntime DEF InitParts
<1>2. [NextPart]_allVars => [Cache!Next]_Cache!vars
  <2>1. NextPart => Runtime!Next \/ UNCHANGED Runtime!vars
    BY DEF NextPart, Rest, allVars, cacheVars, Runtime!vars
  <2>2. UNCHANGED allVars => UNCHANGED Runtime!vars
    BY DEF allVars, cacheVars, Runtime!vars
  <2>3. UNCHANGED Runtime!vars <=> UNCHANGED Cache!vars
    BY DEF Runtime!vars, Cache!vars
  <2> QED  BY <2>1, <2>2, <2>3, SameRuntime
<1>3. Cache!Spec => []Cache!CacheSound
  BY CacheConstants, Cache!CacheIsSound
<1>4. Cache!CacheSound => CacheSound
  BY SameRuntime DEF CacheSound
<1> QED  BY <1>1, <1>2, <1>3, <1>4, PTL DEF SpecParts, Cache!Spec
================================================================================
