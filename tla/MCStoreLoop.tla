------------------------------ MODULE MCStoreLoop ------------------------------
(***************************************************************************)
(* What runs beside a gateway's answers, each in a part of its own: the bridges *)
(* between threads and stores, with two threads and three calls (StoreLoop), and *)
(* the shutdown of a serve loop (ServeLifecycle).  A behaviour picks one part    *)
(* and leaves the other alone, in a state where none of its steps is owed.      *)
(***************************************************************************)
EXTENDS StoreLoop, TLC

CONSTANTS c1, c2, a

VARIABLES part, running, asked, phase, given, done, drained, cancelled, errors, at, method,
          calls, promised, owed, released

serveVars == <<running, asked, phase, given, done, drained, cancelled, errors, at, method,
               calls, promised, owed, released>>
allVars == <<part, vars, serveVars>>

Serve == INSTANCE ServeLifecycle WITH Task <- {"t1", "t2", "t3"}, Closeables <- 2, MaxCalls <- 2

InitParts == /\ part \in {"loop", "serve"} /\ Init /\ Serve!Init
NextPart == \/ part = "loop" /\ Next /\ UNCHANGED <<part, serveVars>>
            \/ part = "serve" /\ Serve!Next /\ UNCHANGED <<part, vars>>
SpecParts == InitParts /\ [][NextPart]_allVars

FairParts ==
    /\ SpecParts
    /\ \A c \in Caller : WF_vars(Return(c)) /\ WF_vars(TimeOut(c)) /\ WF_vars(LeaveBuild(c))
    /\ \A n \in 1..MaxOps : WF_vars(n \in Ops /\ Loop(n))
    /\ WF_serveVars(Serve!Await)
    /\ \A t \in {"t1", "t2", "t3"} : WF_serveVars(t \in asked /\ Serve!End(t))

--------------------------------------------------------------------------------
\* No task outlives a drain that returned, what it reports adds up, a flush that ended
\* has released every object, and a shutdown ends (ServeLifecycle).
ShutdownHolds == [](Serve!Quiet /\ Serve!AllReleased) /\ Serve!ShutdownEnds
================================================================================
