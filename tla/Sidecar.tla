-------------------------------- MODULE Sidecar --------------------------------
(***************************************************************************)
(* SidecarApp.dispatch (adapters/sidecar.py) behind the threading server of   *)
(* _sidecar_http.py: the refusals before and after the rate limit, and one     *)
(* RateLimiter per client, kept in an OrderedDict that forgets the client seen *)
(* least recently.  _rate_lock makes looking a limiter up and charging it one  *)
(* step; the engines run after it and share nothing that changes.             *)
(***************************************************************************)
EXTENDS Integers, Sequences, FiniteSets, SequencesExt

CONSTANTS Client, None,
          Limiters,      \* _MAX_LIMITERS
          MinuteLimit,   \* max_calls_per_minute, or None
          SessionLimit,  \* max_calls_per_session, or None
          Minute,        \* the 60 seconds of the window
          MaxTime,       \* bound: the clock stops here
          MaxRequests    \* bound: requests that reach the rate limit

VARIABLES time,          \* the injected clock
          limiters,      \* the OrderedDict, least recently seen client first
          requests       \* the requests that reached a limiter, in order (history)

vars == <<time, limiters, requests>>

Init == time = 0 /\ limiters = <<>> /\ requests = <<>>

\* What is found wrong with a request after it is charged.
Late == {"too_large", "bad_request"}

--------------------------------------------------------------------------------
(* _check_rate_limit *)

Of(c) == {i \in 1..Len(limiters) : limiters[i].client = c}
Known(c) == Of(c) # {}
New(c) == [client |-> c, window |-> <<>>, count |-> 0]
Place(c) == CHOOSE i \in Of(c) : TRUE
Limiter(c) == IF Known(c) THEN limiters[Place(c)] ELSE New(c)
Others(c) == IF Known(c) THEN RemoveAt(limiters, Place(c)) ELSE limiters

\* RateLimiter.check on the one bucket "sidecar"; _fresh_window pops timestamps from
\* the left while they are a minute old.
Stale(w) == CHOOSE n \in 0..Len(w) : /\ \A i \in 1..n : w[i] <= time - Minute
                                     /\ n < Len(w) => w[n + 1] > time - Minute
SessionFull(l) == SessionLimit # None /\ l.count >= SessionLimit
Pruned(l) == IF MinuteLimit = None \/ SessionFull(l) THEN l.window
             ELSE SubSeq(l.window, Stale(l.window) + 1, Len(l.window))
MinuteFull(l) == MinuteLimit # None /\ Len(Pruned(l)) >= MinuteLimit
Allows(l) == ~SessionFull(l) /\ ~MinuteFull(l)
Charged(l) == [l EXCEPT !.window = IF MinuteLimit = None THEN @ ELSE Append(Pruned(l), time),
                        !.count = IF SessionLimit = None THEN @ ELSE @ + 1]
Checked(l) == IF Allows(l) THEN Charged(l) ELSE [l EXCEPT !.window = Pruned(l)]

\* The client becomes the one seen last; a new one may push out the first.
Seen_Inserted(c) == IF Known(c)
                    THEN [i \in 1..Len(limiters) |-> IF i \in Of(c) THEN Checked(limiters[i])
                                                     ELSE limiters[i]]
                    ELSE LET all == Append(limiters, Checked(New(c)))
                         IN IF Len(all) > Limiters THEN Tail(all) ELSE all
Seen(c) == LET all == Append(Others(c), Checked(Limiter(c)))
           IN IF Len(all) > Limiters THEN Tail(all) ELSE all

--------------------------------------------------------------------------------
\* A request with a bad path, method or token, or that needs a router there is not,
\* is refused before this and changes nothing.  Any other is charged, also when its
\* body is refused afterwards, and the limiter's verdict comes first.
Dispatch(c, flaw) ==
    /\ Len(requests) < MaxRequests
    /\ limiters' = Seen(c)
    /\ requests' = Append(requests,
         [client |-> c, at |-> time,
          reply |-> IF ~Allows(Limiter(c)) THEN "limited"
                    ELSE IF flaw \in Late THEN "refused" ELSE "ok"])
    /\ UNCHANGED time

Pass == /\ time < MaxTime
        /\ time' = time + 1
        /\ UNCHANGED <<limiters, requests>>

Next == \/ \E c \in Client, flaw \in Late \cup {"none"} : Dispatch(c, flaw)
        \/ Pass

Spec == Init /\ [][Next]_vars

\* What the code needs of its limits: there is room for one limiter, and None is a
\* limit that was not set.
SidecarConstants == /\ Limiters \in Nat \ {0} /\ Minute \in Nat
                    /\ MinuteLimit \in Nat \cup {None} /\ SessionLimit \in Nat \cup {None}
                    /\ None \notin Nat

--------------------------------------------------------------------------------
ChargedTo(c) == {i \in 1..Len(requests) : requests[i].client = c /\ requests[i].reply # "limited"}

\* Over those requests a client gets more than one limiter's worth.
Exceeds(c, first, last) ==
    LET charged == ChargedTo(c) \cap (first..last)
    IN \/ SessionLimit # None /\ Cardinality(charged) > SessionLimit
       \/ MinuteLimit # None /\ Cardinality(charged) > MinuteLimit
             /\ requests[last].at - requests[first].at < Minute

\* Between two appearances of c, as many other clients came as there are limiters.
Crowded(c, i, j) ==
    /\ \A k \in (i + 1)..(j - 1) : requests[k].client # c
    /\ Cardinality({requests[k].client : k \in (i + 1)..(j - 1)}) >= Limiters

\* A client exceeds its minute or its session only after so many other clients
\* were seen between two of its requests that its limiter had to go, refused
\* requests counting as being seen (_check_rate_limit, move_to_end and popitem).
EvictionNeedsCrowd ==
    \A c \in Client : \A first, last \in ChargedTo(c) :
        first < last /\ Exceeds(c, first, last) =>
            \E i, j \in first..last : /\ requests[i].client = c /\ requests[j].client = c
                                      /\ i < j /\ Crowded(c, i, j)
================================================================================
