--------------------------- MODULE MCGatewayControls ---------------------------
(***************************************************************************)
(* What limits and saves calls, each checked in a part of its own: the        *)
(* buckets of the gateway (RateLimiter), its response cache under concurrent   *)
(* executes (GatewayRuntime), the sidecar's limiters per client (Sidecar) and  *)
(* the guard of model calls (LlmGuard).  A behaviour picks one of the four, so *)
(* that the state spaces add up.                                            *)
(***************************************************************************)
EXTENDS RateLimiter, TLC

CONSTANTS browse, execute, refund, search,
          n1, v1, v2, v3, v4, id1, id2, arg1, arg2, t1, t2, r1, CacheTime,
          Client, Limiters, MinuteLimit, SessionLimit, Minute, MaxTime, MaxRequests,
          Caller, CallCap, Threshold, Cooldown, MaxGuardTime,
          c1, c2, c3

VARIABLES part,
          upstream, catalog, index, routed, validators, browsed, cards, cache, call,
          served, listing, clock, changes,
          wall, limiters, requests,
          time, attempted, streak, open, openedAt, caller, outcomes, tripped, since

cacheVars == <<upstream, catalog, index, routed, validators, browsed, cards, cache,
               call, served, listing, clock, changes>>
sidecarVars == <<wall, limiters, requests>>
guardVars == <<time, attempted, streak, open, openedAt, caller, outcomes, tripped, since>>

allVars == <<part, vars, cacheVars, sidecarVars, guardVars>>

\* execute is limited on both axes, refund has a limit of its own, search none.
PerMinuteOf == browse :> 1 @@ execute :> 2 @@ refund :> 1 @@ search :> None
PerSessionOf == browse :> None @@ execute :> 4 @@ refund :> 2 @@ search :> None

\* browse names no tool; execute always names one.
Called == {<<browse, None>>, <<execute, refund>>, <<execute, search>>}

\* One name whose schema decides its id, and of v1 takes any argument, else one.
Names == {n1}
Variants == {v1, v2, v3, v4}
IdOf == [d \in [name : Names, variant : Variants] |-> IF d.variant = v1 THEN id2 ELSE id1]
Arguments == [v \in Variants |-> IF v = v1 THEN {arg1, arg2} ELSE {arg1}]

\* v1 and v3 only read, v3 is denied, the schema of v4 does not compile.
Runtime == INSTANCE GatewayRuntime WITH
    Name <- Names, Variant <- Variants, Id <- {id1, id2}, Arg <- {arg1, arg2}, Task <- {t1, t2},
    Refresher <- {r1}, Place <- [n \in Names |-> 1], ToolId <- IdOf, ReadOnly <- {v1, v3},
    Malformed <- {}, Broken <- {v4}, Denied <- {v3}, Accepts <- Arguments,
    RaiseInvalid <- FALSE, Admitted <- {id1, id2}, Ttl <- 1, MaxEntries <- 2,
    MaxAttempts <- 2, MaxClock <- CacheTime, MaxChanges <- 1
App == INSTANCE Sidecar WITH time <- wall
Guard == INSTANCE LlmGuard WITH MaxTime <- MaxGuardTime

InitParts == /\ part \in {"buckets", "cache", "sidecar", "guard"}
             /\ Init /\ App!Init /\ Guard!Init
             /\ Runtime!Init /\ (part = "cache" \/ upstream = [n \in Names |-> None])

\* Clocks and counters stop at their bounds in the last two parts.
Rest == part \in {"sidecar", "guard"}
        /\ UNCHANGED allVars

NextPart ==
    \/ part = "buckets" /\ Next /\ UNCHANGED <<part, cacheVars, sidecarVars, guardVars>>
    \/ part = "cache" /\ Runtime!Next /\ UNCHANGED <<part, vars, sidecarVars, guardVars>>
    \/ part = "sidecar" /\ App!Next /\ UNCHANGED <<part, vars, cacheVars, guardVars>>
    \/ part = "guard" /\ Guard!Next /\ UNCHANGED <<part, vars, cacheVars, sidecarVars>>
    \/ Rest

\* What the runtime asks of its constants, where they are not given above.
ASSUME RuntimeAssumption ==
    /\ CacheTime \in Nat
    /\ None \notin Names \cup Variants \cup {id1, id2, arg1, arg2}
    /\ None \notin [name : Names, variant : Variants]
ASSUME SidecarAssumption == App!SidecarConstants
ASSUME GuardAssumption == Guard!GuardConstants

SpecParts == InitParts /\ [][NextPart]_allVars

\* Tasks and clients stay apart only by name.
Symmetric == Permutations({t1, t2}) \cup Permutations(Client)

--------------------------------------------------------------------------------
\* The cache holds successes of reads, one entry per call (GatewayRuntime).
CacheSound == Runtime!CacheSound

\* Only a crowd of other clients gives a client a fresh limiter (Sidecar).
EvictionNeedsCrowd == App!EvictionNeedsCrowd

\* No thread overruns the cap by more than its own call, and the circuit is open
\* exactly while the last outcomes were failures (LlmGuard).
GuardHolds == Guard!GuardHolds
================================================================================
