--------------------- MODULE JsonFileArtifactStoreProofs ---------------------
(***************************************************************************)
(* What the filesystem artifact store guarantees for any number of threads,  *)
(* handles and contents, with crashes and I/O errors at any step.           *)
(***************************************************************************)
EXTENDS JsonFileArtifactStore, FiniteSetTheorems, WellFoundedInduction, TLAPS

\* Between the two writes of a put its thread holds the lock and the data file
\* is there; between the two unlinks of a removal the metadata file is gone.
LockHeld == \A t \in Thread : job[t].at \in LockedPoints => lock = t
DataWritten == \A t \in Thread : job[t].at = "writeMeta" => data[job[t].handle] # None
MetaUnlinked == \A t \in Thread : job[t].at = "unlinkData" => meta[job[t].victim] = None

IInv == /\ TypeOK
        /\ LockHeld /\ DataWritten /\ MetaUnlinked
        /\ MetaHasData /\ IndexServable /\ MetaMatchesIndex

LEMMA IdleIsJob == JobOK(Idle)
  BY NoneAssumption DEF JobOK, Job, Idle, LockedPoints, UnlockedPoints,
       UnlinkPoints, WritePoints

LEMMA InitEstablishes == Init => IInv
<1> SUFFICES ASSUME Init PROVE IInv
  OBVIOUS
<1>1. TypeOK
  BY IdleIsJob DEF Init, TypeOK, JobOK
<1>2. LockHeld /\ DataWritten /\ MetaUnlinked
  BY DEF Init, LockHeld, DataWritten, MetaUnlinked, Idle, LockedPoints, UnlinkPoints,
     WritePoints
<1>3. MetaHasData /\ IndexServable /\ MetaMatchesIndex
  BY DEF Init, MetaHasData, IndexServable, MetaMatchesIndex
<1>4. QED
  BY <1>1, <1>2, <1>3 DEF IInv

\* Taking the lock with a well-formed job that stands at a sweep or at the first
\* unlink.
LEMMA AcquirePreserves ==
  ASSUME IInv, NEW t \in Thread, NEW j, Acquire(t, j), JobOK(j),
         j.at \in {"sweep", "unlinkMeta"}
  PROVE  IInv'
<1> USE DEF Acquire, disk, memory, faults
<1>1. TypeOK'
  BY DEF IInv, TypeOK, JobOK
<1>2. LockHeld'
  BY NoneAssumption DEF IInv, LockHeld, TypeOK, JobOK, Idle
<1>3. DataWritten' /\ MetaUnlinked'
  BY DEF IInv, DataWritten, MetaUnlinked, TypeOK, JobOK
<1>4. QED
  BY <1>1, <1>2, <1>3 DEF IInv, MetaHasData, IndexServable, MetaMatchesIndex

LEMMA CallPreserves ==
  ASSUME IInv, NEW t \in Thread, Call(t)
  PROVE  IInv'
<1> USE NoneAssumption, ScrubAssumption
    DEF Idle, JobOK, Job, LockedPoints, UnlockedPoints, UnlinkPoints, WritePoints,
        SweepSet, Indexed
<1>1. ASSUME NEW h \in Handle, NEW c \in Content, Put(t, h, c)
      PROVE  IInv'
  BY <1>1, AcquirePreserves DEF Put
<1>2. ASSUME NEW h \in Handle, Get(t, h)
      PROVE  IInv'
  BY <1>2, AcquirePreserves DEF Get
<1>3. ASSUME NEW h \in Handle, Lookup(t, h)
      PROVE  IInv'
  BY <1>3, AcquirePreserves DEF Lookup
<1>4. ASSUME NEW h \in Handle, Delete(t, h)
      PROVE  IInv'
  BY <1>4, AcquirePreserves DEF Delete
<1>5. CASE ListRefs(t)
  BY <1>5, AcquirePreserves DEF ListRefs
<1>6. QED
  BY <1>1, <1>2, <1>3, <1>4, <1>5 DEF Call

LEMMA JobUpdate ==
  ASSUME TypeOK, NEW t \in Thread, NEW j, JobOK(j), job' = [job EXCEPT ![t] = j]
  PROVE  job' \in [Thread -> Job] /\ \A u \in Thread : JobOK(job'[u])
<1>1. j \in Job
  BY DEF JobOK
<1>2. QED
  BY <1>1 DEF TypeOK

\* Where an eviction check, and the end of a removal, leave the threads.
LEMMA EvictMoves ==
  ASSUME TypeOK, NEW t \in Thread, NEW h \in Handle, EvictIfExpired(t, h)
  PROVE  /\ job'[t].at \in {"sweep", "unlinkMeta"}
         /\ \A u \in Thread : u # t => job'[u] = job[u]
<1>1. \A u \in Thread : u # t => job'[u] = job[u]
  BY DEF EvictIfExpired, TypeOK
<1>2. job[t] \in Job /\ job[t].at = "sweep" /\ job \in [Thread -> Job]
  BY DEF EvictIfExpired, TypeOK
<1>3. CASE job' = [job EXCEPT ![t] =
                     [job[t] EXCEPT !.at = "unlinkMeta", !.victim = h,
                                    !.todo = job[t].todo \ {h}]]
  BY <1>1, <1>2, <1>3 DEF Job
<1>4. CASE job' = [job EXCEPT ![t] = [job[t] EXCEPT !.todo = job[t].todo \ {h}]]
  BY <1>1, <1>2, <1>4 DEF Job
<1>5. QED
  BY <1>3, <1>4 DEF EvictIfExpired

LEMMA UnlinkDataMoves ==
  ASSUME TypeOK, NEW t \in Thread, UnlinkData(t)
  PROVE  /\ job'[t].at = "idle" \/ (job'[t].at = "sweep" /\ lock' = lock)
         /\ \A u \in Thread : u # t => job'[u] = job[u]
<1>1. job[t] \in Job /\ job \in [Thread -> Job]
  BY DEF TypeOK
<1>2. CASE job' = [job EXCEPT ![t] = Idle]
  BY <1>1, <1>2 DEF Idle
<1>3. CASE job' = [job EXCEPT ![t] = [job[t] EXCEPT !.at = "sweep", !.victim = None]]
           /\ lock' = lock
  BY <1>1, <1>3 DEF Job
<1>4. QED
  BY <1>2, <1>3 DEF UnlinkData, Release

\* Every step of an operation, one action at a time.
LEMMA StepPreserves ==
  ASSUME IInv, NEW t \in Thread, Step(t) \/ IoError(t)
  PROVE  IInv'
<1> USE NoneAssumption, IdleIsJob
    DEF IInv, TypeOK, JobOK, Job, LockHeld, DataWritten, MetaUnlinked, MetaHasData,
        IndexServable, MetaMatchesIndex, LockedPoints, UnlockedPoints, UnlinkPoints,
        WritePoints, disk, memory, faults
<1>1. ASSUME NEW h \in Handle, EvictIfExpired(t, h)
      PROVE  IInv'
  <2>1. TypeOK'
    <3> DEFINE rest == job[t].todo \ {h}
               evict == [job[t] EXCEPT !.at = "unlinkMeta", !.victim = h, !.todo = rest]
               skip == [job[t] EXCEPT !.todo = rest]
    <3>1. JobOK(evict) /\ JobOK(skip)
      BY <1>1 DEF EvictIfExpired, Idle
    <3>2. job' = [job EXCEPT ![t] = evict] \/ job' = [job EXCEPT ![t] = skip]
      BY <1>1 DEF EvictIfExpired
    <3>3. job' \in [Thread -> Job] /\ \A u \in Thread : JobOK(job'[u])
      <4> HIDE DEF evict, skip, JobOK, Job
      <4>1. QED
        BY <3>1, <3>2, JobUpdate DEF IInv
    <3>4. QED
      BY <1>1, <3>3 DEF EvictIfExpired
  <2>2. LockHeld' /\ DataWritten' /\ MetaUnlinked'
    <3>1. \A u \in Thread : u # t => job'[u] = job[u]
      BY <1>1, EvictMoves
    <3>2. job'[t].at \in {"sweep", "unlinkMeta"} /\ lock' = t
      BY <1>1, EvictMoves DEF EvictIfExpired
    <3>3. QED
      BY <1>1, <3>1, <3>2 DEF EvictIfExpired
  <2>3. MetaHasData' /\ IndexServable' /\ MetaMatchesIndex'
    BY <1>1 DEF EvictIfExpired
  <2>4. QED
    BY <2>1, <2>2, <2>3
<1>2. CASE UnlinkMeta(t)
  <2>1. TypeOK'
    BY <1>2 DEF UnlinkMeta, Idle
  <2>2. LockHeld' /\ DataWritten' /\ MetaUnlinked'
    BY <1>2 DEF UnlinkMeta, Idle
  <2>3. MetaHasData' /\ IndexServable' /\ MetaMatchesIndex'
    BY <1>2 DEF UnlinkMeta
  <2>4. QED
    BY <2>1, <2>2, <2>3
<1>3. CASE UnlinkData(t)
  <2> DEFINE back == [job[t] EXCEPT !.at = "sweep", !.victim = None]
  <2>a. \/ job' = [job EXCEPT ![t] = Idle] /\ lock' = None
        \/ job' = [job EXCEPT ![t] = back] /\ lock' = lock /\ job[t].op # "delete"
    BY <1>3 DEF UnlinkData, Release
  <2>b. job[t].op # "delete" => JobOK(back)
    BY <1>3 DEF UnlinkData, Idle
  <2>1. TypeOK'
    <3>1. job' \in [Thread -> Job] /\ \A u \in Thread : JobOK(job'[u])
      <4> HIDE DEF back, JobOK, Job
      <4>1. QED
        BY <2>a, <2>b, JobUpdate DEF IInv
    <3>2. data' \in [Handle -> Content \cup {None}] /\ index' \in [Handle -> Content \cup {None}]
          /\ expires' \in [Handle -> Nat \cup {None}]
      BY <1>3 DEF UnlinkData
    <3>3. lock' \in Thread \cup {None}
      BY <2>a
    <3>4. QED
      BY <1>3, <3>1, <3>2, <3>3 DEF UnlinkData
  <2>2. LockHeld' /\ DataWritten' /\ MetaUnlinked'
    <3>1. \A u \in Thread : u # t => job'[u] = job[u] /\ job[u].at \notin LockedPoints
      BY <1>3, <2>a DEF UnlinkData
    <3>2. job'[t].at \in {"idle", "sweep"} /\ (job'[t].at = "sweep" => lock' = t)
      BY <1>3, UnlinkDataMoves DEF UnlinkData
    <3>3. LockHeld' /\ DataWritten'
      BY <3>1, <3>2
    <3>4. MetaUnlinked'
      BY <1>3, <3>1, <3>2 DEF UnlinkData
    <3>5. QED
      BY <3>3, <3>4
  <2>3. MetaHasData' /\ IndexServable' /\ MetaMatchesIndex'
    BY <1>3 DEF UnlinkData, Release
  <2>4. QED
    BY <2>1, <2>2, <2>3
<1>4. CASE Answer(t)
  BY <1>4 DEF Answer, Swept, Release, Idle
<1>5. CASE CheckQuota(t)
  <2>1. TypeOK'
    <3>1. JobOK([job[t] EXCEPT !.at = "writeData"])
      BY <1>5 DEF CheckQuota, Swept, Idle
    <3>2. job' \in [Thread -> Job] /\ \A u \in Thread : JobOK(job'[u])
      BY <1>5, <3>1, JobUpdate DEF CheckQuota, Release, IInv
    <3>3. QED
      BY <1>5, <3>2 DEF CheckQuota, Release
  <2>2. LockHeld' /\ DataWritten' /\ MetaUnlinked'
    BY <1>5 DEF CheckQuota, Swept, Release, Idle
  <2>3. MetaHasData' /\ IndexServable' /\ MetaMatchesIndex'
    BY <1>5 DEF CheckQuota, Swept, Release
  <2>4. QED
    BY <2>1, <2>2, <2>3
<1>6. CASE WriteData(t)
  <2>1. TypeOK'
    BY <1>6 DEF WriteData, Idle
  <2>2. LockHeld' /\ DataWritten' /\ MetaUnlinked'
    BY <1>6 DEF WriteData, Idle
  <2>3. MetaHasData' /\ IndexServable' /\ MetaMatchesIndex'
    BY <1>6 DEF WriteData
  <2>4. QED
    BY <2>1, <2>2, <2>3
<1>7. CASE WriteMeta(t)
  BY <1>7, TtlAssumption DEF WriteMeta, Release, Idle
<1>8. CASE GetUnlock(t)
  BY <1>8 DEF GetUnlock, Swept, Idle
<1>9. CASE GetProbe(t)
  <2>1. TypeOK'
    <3> DEFINE found == [job[t] EXCEPT !.at = "read"]
    <3>1. JobOK(found)
      BY <1>9 DEF GetProbe, Idle
    <3>2. job' = [job EXCEPT ![t] = Idle] \/ job' = [job EXCEPT ![t] = found]
      BY <1>9 DEF GetProbe
    <3>3. job' \in [Thread -> Job] /\ \A u \in Thread : JobOK(job'[u])
      BY <3>1, <3>2, JobUpdate DEF IInv
    <3>4. QED
      BY <1>9, <3>3 DEF GetProbe
  <2>2. LockHeld' /\ DataWritten' /\ MetaUnlinked'
    BY <1>9 DEF GetProbe, Idle
  <2>3. MetaHasData' /\ IndexServable' /\ MetaMatchesIndex'
    BY <1>9 DEF GetProbe
  <2>4. QED
    BY <2>1, <2>2, <2>3
<1>10. CASE GetRead(t)
  BY <1>10 DEF GetRead, Idle
<1>11. CASE IoError(t)
  BY <1>11 DEF IoError, Release, Idle
<1>12. QED
  BY <1>1, <1>2, <1>3, <1>4, <1>5, <1>6, <1>7, <1>8, <1>9, <1>10, <1>11 DEF Step

LEMMA CrashPreserves ==
  ASSUME IInv, CrashRestart
  PROVE  IInv'
<1> USE DEF CrashRestart, LoadIndex, disk
<1>1. TypeOK'
  BY IdleIsJob, NoneAssumption DEF IInv, TypeOK, JobOK
<1>2. LockHeld' /\ DataWritten' /\ MetaUnlinked'
  BY DEF LockHeld, DataWritten, MetaUnlinked, Idle, LockedPoints, UnlinkPoints, WritePoints
<1>3. MetaHasData' /\ IndexServable' /\ MetaMatchesIndex'
  BY DEF IInv, MetaHasData, IndexServable, MetaMatchesIndex
<1>4. QED
  BY <1>1, <1>2, <1>3 DEF IInv

LEMMA NextPreserves == IInv /\ [Next]_vars => IInv'
<1> SUFFICES ASSUME IInv, [Next]_vars PROVE IInv'
  OBVIOUS
<1>1. ASSUME NEW t \in Thread, Call(t) \/ Step(t) \/ IoError(t)
      PROVE  IInv'
  BY <1>1, CallPreserves, StepPreserves
<1>2. CASE CrashRestart
  BY <1>2, CrashPreserves
<1>3. CASE Tick
  BY <1>3 DEF Tick, disk, memory, faults, IInv, TypeOK, LockHeld, DataWritten, MetaUnlinked,
              MetaHasData, IndexServable, MetaMatchesIndex
<1>4. CASE UNCHANGED vars
  BY <1>4 DEF vars, IInv, TypeOK, LockHeld, DataWritten, MetaUnlinked, MetaHasData,
              IndexServable, MetaMatchesIndex
<1>5. QED
  BY <1>1, <1>2, <1>3, <1>4 DEF Next

LEMMA Invariance == Spec => []IInv
  BY InitEstablishes, NextPreserves, PTL DEF Spec

\* Every variable keeps its type and every operation its shape.
THEOREM TypeCorrect == Spec => []TypeOK
  BY Invariance, PTL DEF IInv

\* A crash at any instant leaves no metadata file without its data file.
THEOREM NoDanglingMetadata == Spec => []MetaHasData
  BY Invariance, PTL DEF IInv

\* The index never advertises a handle that get cannot serve.
THEOREM IndexIsServable == Spec => []IndexServable
  BY Invariance, PTL DEF IInv

\* A restart recovers no ref other than the one the index held.
THEOREM MetadataIsIndexed == Spec => []MetaMatchesIndex
  BY Invariance, PTL DEF IInv

\* Files and index stay paired the safe way round whatever fails or crashes.
THEOREM PairsSurvive == Spec => []FilesPaired
  BY TypeCorrect, NoDanglingMetadata, IndexIsServable, MetadataIsIndexed, PTL DEF FilesPaired

-----------------------------------------------------------------------------
(* Refinement: what each step does to the abstract store. *)

Pending == [t \in Thread |-> IF job[t].op = "put"
                             THEN [handle |-> job[t].handle, content |-> job[t].content]
                             ELSE None]
Doubt == {h \in Handle : index[h] # None /\ meta[h] = None}

Stutters == index' = index /\ Doubt' = Doubt /\ Pending' = Pending

LEMMA PendingKept ==
  ASSUME TypeOK, NEW t \in Thread, NEW j, job' = [job EXCEPT ![t] = j],
         j.op = job[t].op \/ (j.op # "put" /\ job[t].op # "put"),
         j.handle = job[t].handle \/ j.op # "put",
         j.content = job[t].content \/ j.op # "put"
  PROVE  Pending' = Pending
BY DEF Pending, TypeOK

LEMMA StutterMaps ==
  ASSUME Stutters
  PROVE  [Abstract!Next]_(Abstract!avars)
BY DEF Stutters, Pending, Doubt, Abstract!avars

LEMMA SubmitMaps ==
  ASSUME IInv, NEW t \in Thread, NEW h \in Handle, NEW c \in Content, Put(t, h, c)
  PROVE  Abstract!Next
<1> DEFINE r == [handle |-> h, content |-> Scrub[c]]
<1>1. r \in Abstract!PutRequest
  BY ScrubAssumption DEF Abstract!PutRequest
<1>2. Pending[t] = None
  BY DEF Put, Acquire, Idle, Pending
<1>3. Pending' = [Pending EXCEPT ![t] = r]
  BY DEF Put, Acquire, Idle, Pending, IInv, TypeOK
<1>4. index' = index /\ Doubt' = Doubt
  BY DEF Put, Acquire, disk, memory, Doubt
<1>5. Abstract!Submit(t, r)
  BY <1>2, <1>3, <1>4 DEF Abstract!Submit, Pending, Doubt
<1>6. QED
  BY <1>1, <1>5 DEF Abstract!Next

LEMMA PendingDropped ==
  ASSUME TypeOK, NEW t \in Thread, job' = [job EXCEPT ![t] = Idle]
  PROVE  Pending' = [Pending EXCEPT ![t] = None]
BY DEF Pending, TypeOK, Idle

\* An operation that ends without touching the store: an abort if it was a put.
LEMMA ReleaseMaps ==
  ASSUME IInv, NEW t \in Thread, job' = [job EXCEPT ![t] = Idle], UNCHANGED <<disk, memory>>
  PROVE  [Abstract!Next]_(Abstract!avars)
<1>1. index' = index /\ Doubt' = Doubt
  BY DEF disk, memory, Doubt
<1>2. Pending' = [Pending EXCEPT ![t] = None]
  BY PendingDropped DEF IInv
<1>3. CASE Pending[t] = None
  BY <1>1, <1>2, <1>3, StutterMaps DEF Stutters, Pending
<1>4. CASE Pending[t] # None
  <2>1. Abstract!Abort(t)
    BY <1>1, <1>2, <1>4 DEF Abstract!Abort, Pending, Doubt
  <2>2. QED
    BY <2>1 DEF Abstract!Next
<1>5. QED
  BY <1>3, <1>4

LEMMA CallMaps ==
  ASSUME IInv, NEW t \in Thread, Call(t)
  PROVE  [Abstract!Next]_(Abstract!avars)
<1>1. ASSUME NEW j, Acquire(t, j), j.op # "put"
      PROVE  [Abstract!Next]_(Abstract!avars)
  <2>1. job[t].op # "put" /\ job' = [job EXCEPT ![t] = j]
    BY <1>1 DEF Acquire, Idle
  <2>2. Pending' = Pending
    BY <1>1, <2>1, PendingKept DEF IInv
  <2>3. QED
    BY <1>1, <2>2, StutterMaps DEF Stutters, Acquire, disk, memory, Doubt
<1>2. ASSUME NEW h \in Handle, Get(t, h) \/ Lookup(t, h) \/ Delete(t, h)
      PROVE  [Abstract!Next]_(Abstract!avars)
  BY <1>1, <1>2 DEF Get, Lookup, Delete, Idle
<1>3. CASE ListRefs(t)
  BY <1>1, <1>3 DEF ListRefs, Idle
<1>4. QED
  BY <1>2, <1>3, SubmitMaps DEF Call

\* The metadata file goes: the removal of an indexed handle is in doubt.
LEMMA UnlinkMetaMaps ==
  ASSUME IInv, NEW t \in Thread, UnlinkMeta(t)
  PROVE  [Abstract!Next]_(Abstract!avars)
<1>1. PICK v \in Handle : v = job[t].victim /\ index' = index
  BY DEF UnlinkMeta, memory, IInv, TypeOK, JobOK, UnlinkPoints
<1>2. Pending' = Pending
  BY DEF UnlinkMeta, Pending, IInv, TypeOK, Job
<1>3. CASE index[v] = None
  <2>1. Doubt' = Doubt
    BY <1>1, <1>3 DEF UnlinkMeta, Doubt, IInv, TypeOK
  <2>2. QED
    BY <1>1, <1>2, <2>1, StutterMaps DEF Stutters
<1>4. CASE index[v] # None
  <2>1. Doubt' = Doubt \cup {v}
    BY <1>1, <1>4 DEF UnlinkMeta, Doubt, IInv, TypeOK
  <2>2. Abstract!BeginRemove(v)
    BY <1>1, <1>2, <1>4, <2>1 DEF Abstract!BeginRemove, Pending, Doubt
  <2>3. QED
    BY <1>1, <2>2 DEF Abstract!Next
<1>5. QED
  BY <1>3, <1>4

\* The data file and the index entry go: the removal takes effect.
LEMMA UnlinkDataMaps ==
  ASSUME IInv, NEW t \in Thread, UnlinkData(t)
  PROVE  [Abstract!Next]_(Abstract!avars)
<1>1. PICK v \in Handle : v = job[t].victim /\ meta[v] = None
  BY DEF UnlinkData, IInv, TypeOK, JobOK, UnlinkPoints, MetaUnlinked
<1>2. Pending' = Pending
  <2>1. CASE job[t].op = "delete"
    BY <2>1, PendingKept DEF UnlinkData, Release, Idle, IInv
  <2>2. CASE job[t].op # "delete"
    <3> DEFINE back == [job[t] EXCEPT !.at = "sweep", !.victim = None]
    <3>1. job' = [job EXCEPT ![t] = back]
      BY <2>2 DEF UnlinkData, Release
    <3>2. back.op = job[t].op /\ back.handle = job[t].handle /\ back.content = job[t].content
      BY DEF IInv, TypeOK, Job
    <3> HIDE DEF back
    <3>3. QED
      BY <3>1, <3>2, PendingKept DEF IInv
  <2>3. QED
    BY <2>1, <2>2
<1>3. index' = [index EXCEPT ![v] = None] /\ meta' = meta
  BY <1>1 DEF UnlinkData
<1>4. CASE index[v] = None
  <2>1. index' = index
    BY <1>1, <1>3, <1>4 DEF IInv, TypeOK
  <2>2. QED
    BY <1>2, <1>3, <2>1, StutterMaps DEF Stutters, Doubt
<1>5. CASE index[v] # None
  <2>1. v \in Doubt
    BY <1>1, <1>5 DEF Doubt
  <2>2. Doubt' = Doubt \ {v}
    BY <1>1, <1>3 DEF Doubt, IInv, TypeOK
  <2>3. Abstract!Remove(v)
    BY <1>2, <1>3, <2>1, <2>2 DEF Abstract!Remove, Pending, Doubt
  <2>4. QED
    BY <1>1, <2>3 DEF Abstract!Next
<1>6. QED
  BY <1>4, <1>5

\* The metadata file is replaced: the put commits.
LEMMA WriteMetaMaps ==
  ASSUME IInv, NEW t \in Thread, WriteMeta(t)
  PROVE  [Abstract!Next]_(Abstract!avars)
<1> DEFINE h == job[t].handle  c == job[t].content
<1>1. job[t].op = "put" /\ h \in Handle /\ c \in Content
  BY DEF WriteMeta, IInv, TypeOK, JobOK, WritePoints
<1>2. Pending[t] = [handle |-> h, content |-> c] /\ Pending[t] # None
  <2>1. Pending[t] = [handle |-> h, content |-> c]
    BY <1>1 DEF Pending
  <2>2. QED
    BY <2>1, <1>1, NoneAssumption
<1>3. Pending' = [Pending EXCEPT ![t] = None]
  BY PendingDropped DEF WriteMeta, Release, IInv
<1>4. index' = [index EXCEPT ![h] = c]
  BY DEF WriteMeta
<1>5. Doubt' = Doubt \ {h}
  BY <1>1, <1>4, NoneAssumption DEF WriteMeta, Doubt, IInv, TypeOK
<1>6. Abstract!Commit(t)
  BY <1>2, <1>3, <1>4, <1>5 DEF Abstract!Commit, Pending, Doubt
<1>7. QED
  BY <1>6 DEF Abstract!Next

LEMMA StepMaps ==
  ASSUME IInv, NEW t \in Thread, Step(t) \/ IoError(t)
  PROVE  [Abstract!Next]_(Abstract!avars)
<1>1. ASSUME UNCHANGED <<disk, memory>>, NEW j, job' = [job EXCEPT ![t] = j],
             j.op = job[t].op, j.handle = job[t].handle, j.content = job[t].content
      PROVE  [Abstract!Next]_(Abstract!avars)
  BY <1>1, PendingKept, StutterMaps DEF Stutters, disk, memory, Doubt, IInv
<1>2. ASSUME NEW h \in Handle, EvictIfExpired(t, h)
      PROVE  [Abstract!Next]_(Abstract!avars)
  <2> DEFINE evict == [job[t] EXCEPT !.at = "unlinkMeta", !.victim = h,
                                     !.todo = job[t].todo \ {h}]
             skip == [job[t] EXCEPT !.todo = job[t].todo \ {h}]
  <2>1. /\ evict.op = job[t].op /\ evict.handle = job[t].handle
        /\ evict.content = job[t].content
        /\ skip.op = job[t].op /\ skip.handle = job[t].handle
        /\ skip.content = job[t].content
    BY DEF IInv, TypeOK, Job
  <2>2. Pending' = Pending
    <3>1. job' = [job EXCEPT ![t] = evict] \/ job' = [job EXCEPT ![t] = skip]
      BY <1>2 DEF EvictIfExpired
    <3> HIDE DEF evict, skip
    <3>2. QED
      BY <2>1, <3>1, PendingKept DEF IInv
  <2>3. QED
    BY <1>2, <2>2, StutterMaps DEF EvictIfExpired, Stutters, disk, memory, Doubt
<1>3. CASE Answer(t)
  BY <1>3, ReleaseMaps DEF Answer, Release
<1>4. CASE CheckQuota(t)
  BY <1>4, ReleaseMaps, PendingKept, StutterMaps
     DEF CheckQuota, Release, Stutters, Pending, Doubt, disk, memory, IInv, TypeOK, Job
<1>5. CASE WriteData(t)
  BY <1>5, StutterMaps DEF WriteData, Stutters, Pending, Doubt, memory, IInv, TypeOK, Job
<1>6. CASE GetUnlock(t)
  BY <1>6, StutterMaps DEF GetUnlock, Stutters, Pending, Doubt, disk, memory, IInv, TypeOK, Job
<1>7. CASE GetProbe(t)
  <2>1. CASE job' = [job EXCEPT ![t] = Idle]
    BY <1>7, <2>1, ReleaseMaps DEF GetProbe
  <2>2. CASE job' = [job EXCEPT ![t] = [job[t] EXCEPT !.at = "read"]]
    BY <1>7, <2>2, StutterMaps
       DEF GetProbe, Stutters, Pending, Doubt, disk, memory, IInv, TypeOK, Job
  <2>3. QED
    BY <1>7, <2>1, <2>2 DEF GetProbe
<1>8. CASE GetRead(t)
  BY <1>8, ReleaseMaps DEF GetRead
<1>9. CASE IoError(t)
  BY <1>9, ReleaseMaps DEF IoError, Release
<1>10. QED
  BY <1>2, <1>3, <1>4, <1>5, <1>6, <1>7, <1>8, <1>9, UnlinkMetaMaps, UnlinkDataMaps,
     WriteMetaMaps DEF Step

\* A crash and restart: what was committed and not in doubt is recovered.
LEMMA CrashMaps ==
  ASSUME IInv, CrashRestart
  PROVE  [Abstract!Next]_(Abstract!avars)
<1>1. index' = [h \in Handle |-> IF h \in Doubt THEN None ELSE index[h]]
  BY DEF CrashRestart, LoadIndex, Doubt, IInv, TypeOK, MetaHasData, IndexServable,
         MetaMatchesIndex
<1>2. Doubt' = {}
  BY DEF CrashRestart, LoadIndex, Doubt, disk
<1>3. Pending' = [t \in Thread |-> None]
  BY DEF CrashRestart, Pending, Idle
<1>4. Abstract!Restart
  BY <1>1, <1>2, <1>3 DEF Abstract!Restart, Pending, Doubt
<1>5. QED
  BY <1>4 DEF Abstract!Next

\* A put commits exactly its bytes or nothing; a restart loses no committed
\* content whose removal had not begun, and brings none back.
THEOREM Refinement == Spec => ImplementsArtifactStore
<1>1. Init => Abstract!Init
  BY DEF Init, Abstract!Init, Idle
<1>2. IInv /\ [Next]_vars => [Abstract!Next]_(Abstract!avars)
  <2> SUFFICES ASSUME IInv, [Next]_vars PROVE [Abstract!Next]_(Abstract!avars)
    OBVIOUS
  <2>1. CASE Tick \/ UNCHANGED vars
    BY <2>1, StutterMaps DEF Tick, vars, disk, memory, Stutters, Pending, Doubt
  <2>2. QED
    BY <2>1, CallMaps, StepMaps, CrashMaps DEF Next
<1>3. QED
  BY <1>1, <1>2, Invariance, PTL DEF Spec, ImplementsArtifactStore, Abstract!Spec

-----------------------------------------------------------------------------
(* The count quota: the slot a put found free stays free until it commits,   *)
(* because only the lock holder adds to the index.                           *)

SlotReserved == \A t \in Thread : job[t].at \in WritePoints =>
                  index[job[t].handle] # None \/ Cardinality(Indexed) < MaxArtifacts

QuotaInv == IsFiniteSet(Indexed) /\ CountWithinQuota /\ SlotReserved

LEMMA QuotaKept ==
  ASSUME IInv, QuotaInv, index' = index,
         \A t \in Thread : job'[t].at \in WritePoints =>
            \/ job[t].at \in WritePoints /\ job'[t].handle = job[t].handle
            \/ ~OverQuota(job[t].handle, job[t].content) /\ job'[t].handle = job[t].handle
  PROVE  QuotaInv'
<1>1. Indexed' = Indexed
  BY DEF Indexed
<1>2. Cardinality(Indexed) \in Nat
  BY FS_CardinalityType DEF QuotaInv
<1>3. SlotReserved'
  BY <1>1, <1>2, QuotaAssumption DEF SlotReserved, QuotaInv, OverQuota
<1>4. QED
  BY <1>1, <1>3 DEF QuotaInv, CountWithinQuota

\* When the index shrinks, or is emptied by a restart, no put is past its check.
LEMMA QuotaShrinks ==
  ASSUME QuotaInv, Indexed' \subseteq Indexed,
         \A t \in Thread : job'[t].at \notin WritePoints
  PROVE  QuotaInv'
<1>1. IsFiniteSet(Indexed') /\ Cardinality(Indexed') <= Cardinality(Indexed)
  BY FS_Subset DEF QuotaInv
<1>2. Cardinality(Indexed) \in Nat /\ Cardinality(Indexed') \in Nat
  BY <1>1, FS_CardinalityType DEF QuotaInv
<1>3. QED
  BY <1>1, <1>2, QuotaAssumption DEF QuotaInv, CountWithinQuota, SlotReserved

LEMMA QuotaStep ==
  ASSUME IInv, QuotaInv, NEW t \in Thread, Call(t) \/ Step(t) \/ IoError(t)
  PROVE  QuotaInv'
<1> USE DEF IInv, TypeOK, JobOK, Job, WritePoints, UnlinkPoints, LockedPoints, LockHeld
<1>1. ASSUME NEW j, Acquire(t, j), j.at \in {"sweep", "unlinkMeta"}
      PROVE  QuotaInv'
  BY <1>1, QuotaKept DEF Acquire, memory
<1>2. CASE Call(t)
  BY <1>1, <1>2 DEF Call, Put, Get, Lookup, Delete, ListRefs, Idle
<1>3. ASSUME NEW h \in Handle, EvictIfExpired(t, h)
      PROVE  QuotaInv'
  <2>1. \A u \in Thread : u # t => job'[u] = job[u]
    BY <1>3, EvictMoves
  <2>2. lock = t /\ index' = index
    BY <1>3 DEF EvictIfExpired, memory
  <2>3. \A u \in Thread : u # t => job'[u].at \notin WritePoints
    BY <2>1, <2>2
  <2>4. job'[t].at \in {"sweep", "unlinkMeta"}
    BY <1>3, EvictMoves
  <2>5. QED
    BY <2>2, <2>3, <2>4, QuotaKept
<1>4. CASE UnlinkMeta(t)
  BY <1>4, QuotaKept DEF UnlinkMeta, memory
<1>5. CASE UnlinkData(t)
  <2>1. Indexed' \subseteq Indexed
    BY <1>5 DEF UnlinkData, Indexed
  <2>2. \A u \in Thread : u # t => job'[u] = job[u] /\ job[u].at \notin WritePoints
    BY <1>5 DEF UnlinkData, Release
  <2>3. job'[t].at \notin WritePoints
    BY <1>5, UnlinkDataMoves
  <2>4. QED
    BY <2>1, <2>2, <2>3, QuotaShrinks
<1>6. CASE CheckQuota(t)
  BY <1>6, QuotaKept DEF CheckQuota, Release, Idle, memory
<1>7. CASE WriteData(t)
  BY <1>7, QuotaKept DEF WriteData, memory
<1>8. CASE WriteMeta(t)
  <2> DEFINE h == job[t].handle
  <2>1. h \in Handle /\ Indexed' = Indexed \cup {h}
    BY <1>8, NoneAssumption DEF WriteMeta, Indexed
  <2>2. \A u \in Thread : job'[u].at \notin WritePoints
    BY <1>8 DEF WriteMeta, Release, Idle
  <2>3. CASE h \in Indexed
    BY <2>1, <2>2, <2>3, QuotaShrinks
  <2>4. CASE h \notin Indexed
    <3>1. Cardinality(Indexed) < MaxArtifacts
      BY <1>8, <2>1, <2>4 DEF QuotaInv, SlotReserved, WriteMeta, Indexed
    <3>2. Cardinality(Indexed') = Cardinality(Indexed) + 1 /\ IsFiniteSet(Indexed')
      BY <2>1, <2>4, FS_AddElement DEF QuotaInv
    <3>3. Cardinality(Indexed) \in Nat
      BY FS_CardinalityType DEF QuotaInv
    <3>4. QED
      BY <2>2, <3>1, <3>2, <3>3, QuotaAssumption DEF QuotaInv, CountWithinQuota, SlotReserved
  <2>5. QED
    BY <2>3, <2>4
<1>9. CASE Answer(t) \/ GetUnlock(t) \/ GetRead(t) \/ IoError(t)
  BY <1>9, QuotaKept DEF Answer, GetUnlock, GetRead, IoError, Release, Idle, memory
<1>10. CASE GetProbe(t)
  BY <1>10, QuotaKept DEF GetProbe, Idle, memory
<1>11. QED
  BY <1>2, <1>3, <1>4, <1>5, <1>6, <1>7, <1>8, <1>9, <1>10 DEF Step

\* The store never lists more artifacts than max_artifacts, also after a crash
\* and restart.
THEOREM CountQuota == Spec => []CountWithinQuota
<1>1. Init => QuotaInv
  <2> SUFFICES ASSUME Init PROVE QuotaInv
    OBVIOUS
  <2>1. Indexed = {}
    BY DEF Init, Indexed
  <2>2. QED
    BY <2>1, FS_EmptySet, QuotaAssumption
       DEF Init, Idle, WritePoints, QuotaInv, CountWithinQuota, SlotReserved
<1>2. IInv /\ QuotaInv /\ [Next]_vars => QuotaInv'
  <2> SUFFICES ASSUME IInv, QuotaInv, [Next]_vars PROVE QuotaInv'
    OBVIOUS
  <2>1. CASE CrashRestart
    <3>1. Indexed' \subseteq Indexed
      BY <2>1 DEF CrashRestart, LoadIndex, Indexed, IInv, MetaMatchesIndex
    <3>2. QED
      BY <2>1, <3>1, QuotaShrinks DEF CrashRestart, Idle, WritePoints
  <2>2. CASE Tick \/ UNCHANGED vars
    BY <2>2, QuotaKept DEF Tick, vars, memory
  <2>3. QED
    BY <2>1, <2>2, QuotaStep DEF Next
<1>3. QED
  BY <1>1, <1>2, Invariance, PTL DEF Spec, QuotaInv
-----------------------------------------------------------------------------
(* Sums of sizes *)

\* Of finite sets there is a smallest one.
LEMMA Smallest ==
    ASSUME NEW Bad, Bad # {}, \A S \in Bad : IsFiniteSet(S)
    PROVE  \E S \in Bad : \A T \in Bad : ~(Cardinality(T) < Cardinality(S))
<1> DEFINE Sizes == {Cardinality(S) : S \in Bad}
<1>1. Sizes \subseteq Nat /\ Sizes # {}
  BY FS_CardinalityType
<1>2. PICK m \in Sizes : \A k \in Sizes : ~(<<k, m>> \in OpToRel(<, Nat))
  BY <1>1, NatLessThanWellFounded, WFMin
<1>3. PICK S \in Bad : Cardinality(S) = m
  OBVIOUS
<1>4. ASSUME NEW T \in Bad PROVE ~(Cardinality(T) < Cardinality(S))
  <2>1. Cardinality(T) \in Sizes /\ Cardinality(T) \in Nat /\ m \in Nat
    BY <1>1
  <2> QED  BY <1>2, <1>3, <2>1 DEF OpToRel
<1> QED  BY <1>4

\* The sum over a set, as the library computes it: some element, and then the rest.
One(s) == CHOOSE x \in s : TRUE
Summand(f, s, it) == IF s = {} THEN 0 ELSE SizeOf[f[One(s)]] + it[s \ {One(s)}]
Adds(f, S, it) == it = [s \in SUBSET S |-> Summand(f, s, it)]
Bytes(f, S) == (CHOOSE it : Adds(f, S, it))[S]

\* The sums of the model are these.
LEMMA SumIsBytes ==
    ASSUME NEW f
    PROVE  SumSizes(f) = Bytes(f, {h \in Handle : f[h] # None})
  BY DEF SumSizes, MapThenSumSet, MapThenFoldSet, Bytes, Adds, Summand, One

\* Taking an element leaves a smaller set.
LEMMA OneOf ==
    ASSUME NEW s, s # {}, IsFiniteSet(s)
    PROVE  /\ One(s) \in s /\ IsFiniteSet(s \ {One(s)})
           /\ Cardinality(s) \in Nat
           /\ Cardinality(s \ {One(s)}) \in Nat
           /\ Cardinality(s \ {One(s)}) < Cardinality(s)
<1>1. One(s) \in s
  BY DEF One
<1> HIDE DEF One
<1> QED  BY <1>1, FS_RemoveElement, FS_CardinalityType

\* The recursion of a sum is well founded.
LEMMA AddsExists ==
    ASSUME NEW f, NEW S, IsFiniteSet(S)
    PROVE  \E it : Adds(f, S, it)
<1> DEFINE Upto(n) == \E it : /\ it = [s \in SUBSET S |-> it[s]]
                              /\ \A s \in SUBSET S : Cardinality(s) <= n => it[s] = Summand(f, s, it)
           Bad == {n \in Nat : ~Upto(n)}
<1>0. \A s \in SUBSET S : IsFiniteSet(s) /\ Cardinality(s) \in Nat /\ Cardinality(s) <= Cardinality(S)
  BY FS_Subset, FS_CardinalityType
<1>1. Upto(0)
  <2> DEFINE it == [s \in SUBSET S |-> 0]
  <2>1. \A s \in SUBSET S : Cardinality(s) <= 0 => s = {}
    BY <1>0, FS_EmptySet
  <2>2. it = [s \in SUBSET S |-> it[s]]
    OBVIOUS
  <2>3. \A s \in SUBSET S : Cardinality(s) <= 0 => it[s] = Summand(f, s, it)
    BY <2>1 DEF Summand
  <2> QED  BY <2>2, <2>3
<1>2. ASSUME NEW n \in Nat, Upto(n) PROVE Upto(n + 1)
  <2>1. PICK it : /\ it = [s \in SUBSET S |-> it[s]]
                  /\ \A s \in SUBSET S : Cardinality(s) <= n => it[s] = Summand(f, s, it)
    BY <1>2
  <2> DEFINE jt == [s \in SUBSET S |-> Summand(f, s, it)]
  <2>2. \A s \in SUBSET S : Cardinality(s) <= n => jt[s] = it[s]
    BY <2>1
  <2>3. ASSUME NEW s \in SUBSET S, Cardinality(s) <= n + 1
        PROVE  jt[s] = Summand(f, s, jt)
    <3>1. CASE s = {}
      BY <3>1 DEF Summand
    <3>2. CASE s # {}
      <4>1. s \ {One(s)} \in SUBSET S /\ Cardinality(s \ {One(s)}) <= n
        BY <1>0, <2>3, <3>2, OneOf
      <4>2. jt[s \ {One(s)}] = it[s \ {One(s)}]
        BY <2>2, <4>1
      <4>3. jt[s] = Summand(f, s, it)
        OBVIOUS
      <4> HIDE DEF jt
      <4> QED  BY <4>2, <4>3 DEF Summand
    <3> QED  BY <3>1, <3>2
  <2>4. jt = [s \in SUBSET S |-> jt[s]]
    OBVIOUS
  <2> HIDE DEF jt
  <2> QED  BY <2>3, <2>4
<1>3. Bad = {}
  <2> SUFFICES ASSUME Bad # {} PROVE FALSE
    OBVIOUS
  <2>0. Bad \subseteq Nat
    OBVIOUS
  <2>1. PICK m \in Bad : \A k \in Bad : ~(<<k, m>> \in OpToRel(<, Nat))
    BY <2>0, NatLessThanWellFounded, WFMin
  <2>2. m \in Nat /\ ~Upto(m) /\ m # 0
    BY <1>1
  <2>3. m - 1 \in Nat /\ m - 1 < m
    BY <2>2
  <2> HIDE DEF Upto
  <2>4. m - 1 \notin Bad
    BY <2>1, <2>2, <2>3 DEF OpToRel
  <2>5. Upto(m - 1)
    BY <2>3, <2>4
  <2>6. Upto((m - 1) + 1)
    BY <1>2, <2>3, <2>5
  <2> QED  BY <2>2, <2>3, <2>6
<1>4. Upto(Cardinality(S))
  <2> HIDE DEF Upto
  <2> QED  BY <1>3, FS_CardinalityType
<1>5. PICK it : /\ it = [s \in SUBSET S |-> it[s]]
                /\ \A s \in SUBSET S : Cardinality(s) <= Cardinality(S) => it[s] = Summand(f, s, it)
  BY <1>4
<1>6. \A s \in SUBSET S : it[s] = Summand(f, s, it)
  BY <1>0, <1>5
<1>7. it = [s \in SUBSET S |-> Summand(f, s, it)]
  BY <1>5, <1>6
<1> QED  BY <1>7 DEF Adds

\* What a subset adds up to does not depend on the set it is taken from.
LEMMA AddsUnique ==
    ASSUME NEW f, NEW S, NEW T, IsFiniteSet(S), T \subseteq S, NEW a, NEW b, Adds(f, S, a), Adds(f, T, b)
    PROVE  \A s \in SUBSET T : a[s] = b[s]
<1> DEFINE Bad == {s \in SUBSET T : a[s] # b[s]}
<1> SUFFICES ASSUME Bad # {} PROVE FALSE
  OBVIOUS
<1>0. \A s \in Bad : IsFiniteSet(s)
  BY FS_Subset
<1>1. PICK s \in Bad : \A t \in Bad : ~(Cardinality(t) < Cardinality(s))
  BY <1>0, Smallest
<1>2. a[s] = Summand(f, s, a) /\ b[s] = Summand(f, s, b)
  BY DEF Adds
<1>3. s # {}
  BY <1>2 DEF Summand
<1>4. s \ {One(s)} \in SUBSET T /\ s \ {One(s)} \notin Bad
  BY <1>0, <1>1, <1>3, OneOf
<1>5. a[s \ {One(s)}] = b[s \ {One(s)}]
  BY <1>4
<1> QED  BY <1>2, <1>5 DEF Summand

\* The equation of the sum.
LEMMA BytesStep ==
    ASSUME NEW f, NEW S, IsFiniteSet(S)
    PROVE  Bytes(f, S) = IF S = {} THEN 0 ELSE SizeOf[f[One(S)]] + Bytes(f, S \ {One(S)})
<1>1. PICK a : a = (CHOOSE it : Adds(f, S, it))
  OBVIOUS
<1>2. Adds(f, S, a)
  BY <1>1, AddsExists
<1>3. a[S] = Summand(f, S, a)
  BY <1>2 DEF Adds
<1>4. CASE S # {}
  <2> DEFINE T == S \ {One(S)}
  <2>1. T \subseteq S /\ IsFiniteSet(T)
    BY FS_Subset
  <2>2. PICK b : b = (CHOOSE it : Adds(f, T, it))
    OBVIOUS
  <2>3. Adds(f, T, b)
    BY <2>1, <2>2, AddsExists
  <2>4. a[T] = b[T]
    <3> HIDE DEF T
    <3> QED  BY <1>2, <2>1, <2>3, AddsUnique
  <2> QED  BY <1>1, <1>3, <1>4, <2>2, <2>4 DEF Bytes, Summand
<1> QED  BY <1>1, <1>3, <1>4 DEF Bytes, Summand

SizesKnown(f, S) == \A x \in S : SizeOf[f[x]] \in Nat

\* A sum of sizes is a number.
LEMMA BytesType ==
    ASSUME NEW f, NEW S, IsFiniteSet(S), SizesKnown(f, S)
    PROVE  Bytes(f, S) \in Nat
<1> DEFINE Bad == {s \in SUBSET S : Bytes(f, s) \notin Nat}
<1> SUFFICES ASSUME Bad # {} PROVE FALSE
  OBVIOUS
<1>0. \A s \in Bad : IsFiniteSet(s)
  BY FS_Subset
<1>1. PICK s \in Bad : \A t \in Bad : ~(Cardinality(t) < Cardinality(s))
  BY <1>0, Smallest
<1>2. Bytes(f, s) = IF s = {} THEN 0 ELSE SizeOf[f[One(s)]] + Bytes(f, s \ {One(s)})
  BY <1>0, BytesStep
<1>3. s # {}
  BY <1>2
<1>4. One(s) \in S /\ s \ {One(s)} \in SUBSET S /\ s \ {One(s)} \notin Bad
  BY <1>0, <1>1, <1>3, OneOf
<1> QED  BY <1>2, <1>3, <1>4 DEF SizesKnown

\* It depends on what the map holds for the set only.
LEMMA BytesSame ==
    ASSUME NEW f, NEW g, NEW S, IsFiniteSet(S), \A x \in S : f[x] = g[x]
    PROVE  Bytes(f, S) = Bytes(g, S)
<1> DEFINE Bad == {s \in SUBSET S : Bytes(f, s) # Bytes(g, s)}
<1> SUFFICES ASSUME Bad # {} PROVE FALSE
  OBVIOUS
<1>0. \A s \in Bad : IsFiniteSet(s)
  BY FS_Subset
<1>1. PICK s \in Bad : \A t \in Bad : ~(Cardinality(t) < Cardinality(s))
  BY <1>0, Smallest
<1>2. /\ Bytes(f, s) = IF s = {} THEN 0 ELSE SizeOf[f[One(s)]] + Bytes(f, s \ {One(s)})
      /\ Bytes(g, s) = IF s = {} THEN 0 ELSE SizeOf[g[One(s)]] + Bytes(g, s \ {One(s)})
  BY <1>0, BytesStep
<1>3. s # {}
  BY <1>2
<1>4. One(s) \in S /\ s \ {One(s)} \in SUBSET S /\ s \ {One(s)} \notin Bad
  BY <1>0, <1>1, <1>3, OneOf
<1> QED  BY <1>2, <1>3, <1>4

\* Any element may be counted first.
LEMMA BytesRemove ==
    ASSUME NEW f, NEW S, IsFiniteSet(S), SizesKnown(f, S), NEW x \in S
    PROVE  Bytes(f, S) = SizeOf[f[x]] + Bytes(f, S \ {x})
<1> DEFINE Bad == {s \in SUBSET S : \E y \in s : Bytes(f, s) # SizeOf[f[y]] + Bytes(f, s \ {y})}
<1> SUFFICES ASSUME Bad # {} PROVE FALSE
  OBVIOUS
<1>0. \A s \in SUBSET S : IsFiniteSet(s) /\ SizesKnown(f, s)
  BY FS_Subset DEF SizesKnown
<1>1. PICK s \in Bad : \A t \in Bad : ~(Cardinality(t) < Cardinality(s))
  BY <1>0, Smallest
<1>2. PICK y \in s : Bytes(f, s) # SizeOf[f[y]] + Bytes(f, s \ {y})
  OBVIOUS
<1>3. PICK c : c = One(s)
  OBVIOUS
<1>4. c \in s /\ Bytes(f, s) = SizeOf[f[c]] + Bytes(f, s \ {c})
  BY <1>0, <1>2, <1>3, BytesStep, OneOf
<1>5. c # y
  BY <1>2, <1>4
<1>6. /\ IsFiniteSet(s) /\ s \subseteq S /\ Cardinality(s) \in Nat
      /\ Cardinality(s \ {c}) = Cardinality(s) - 1 /\ Cardinality(s \ {y}) = Cardinality(s) - 1
  BY <1>0, <1>4, FS_RemoveElement, FS_CardinalityType
<1>7. s \ {c} \in SUBSET S /\ s \ {c} \notin Bad /\ s \ {y} \in SUBSET S /\ s \ {y} \notin Bad
  <2>1. Cardinality(s \ {c}) < Cardinality(s) /\ Cardinality(s \ {y}) < Cardinality(s)
    BY <1>6
  <2> QED  BY <1>1, <1>6, <2>1
<1>8. /\ Bytes(f, s \ {c}) = SizeOf[f[y]] + Bytes(f, (s \ {c}) \ {y})
      /\ Bytes(f, s \ {y}) = SizeOf[f[c]] + Bytes(f, (s \ {y}) \ {c})
  BY <1>4, <1>5, <1>7
<1>9. (s \ {c}) \ {y} = (s \ {y}) \ {c}
  OBVIOUS
<1>10. /\ SizeOf[f[c]] \in Nat /\ SizeOf[f[y]] \in Nat /\ Bytes(f, (s \ {y}) \ {c}) \in Nat
  <2>1. (s \ {y}) \ {c} \in SUBSET S
    BY <1>6
  <2> QED  BY <1>0, <1>4, <1>6, <2>1, BytesType DEF SizesKnown
<1> QED  BY <1>2, <1>4, <1>8, <1>9, <1>10

-----------------------------------------------------------------------------
(* The sum of the sizes of what a map of handles holds *)

Held(f) == {h \in Handle : f[h] # None}
Maps == {f \in [Handle -> Content \cup {None}] : IsFiniteSet(Held(f))}

\* The sizes of a map that holds finitely many contents add up.
LEMMA SumSizesIs ==
    ASSUME NEW f \in Maps
    PROVE  SumSizes(f) = Bytes(f, Held(f)) /\ SumSizes(f) \in Nat /\ SizesKnown(f, Held(f))
<1>1. SizesKnown(f, Held(f))
  BY SizeAssumption DEF SizesKnown, Held, Maps
<1> QED  BY <1>1, SumIsBytes, BytesType DEF Held, Maps

\* One entry of a map is removed, or replaced.
LEMMA SumSizesMoves ==
    ASSUME NEW f \in Maps, NEW h \in Handle, NEW c \in Content \cup {None}
    PROVE  LET g == [f EXCEPT ![h] = c]
               size(v) == IF v = None THEN 0 ELSE SizeOf[v]
           IN g \in Maps /\ SumSizes(g) = SumSizes(f) - size(f[h]) + size(c)
<1> DEFINE g == [f EXCEPT ![h] = c]
           size(v) == IF v = None THEN 0 ELSE SizeOf[v]
           R == Held(f) \ {h}
<1>1. g \in [Handle -> Content \cup {None}] /\ g[h] = c /\ \A k \in Handle \ {h} : g[k] = f[k]
  BY DEF Maps
<1> HIDE DEF g
<1>2. Held(g) \ {h} = R /\ \A k \in R : g[k] = f[k]
  BY <1>1 DEF Held
<1>3. Held(g) \subseteq R \cup {h} /\ IsFiniteSet(R)
  BY <1>2, FS_RemoveElement DEF Maps
<1>4. IsFiniteSet(Held(g))
  BY <1>3, FS_AddElement, FS_Subset
<1>5. g \in Maps
  BY <1>1, <1>4 DEF Maps
<1>6. Bytes(g, R) = Bytes(f, R)
  BY <1>2, <1>3, BytesSame
<1>7. SumSizes(f) = size(f[h]) + Bytes(f, R)
  <2>1. CASE h \in Held(f)
    BY <2>1, SumSizesIs, BytesRemove DEF Held, Maps
  <2>2. CASE h \notin Held(f)
    <3>1. R = Held(f) /\ f[h] = None
      BY <2>2 DEF Held
    <3>2. size(f[h]) = 0
      BY <3>1
    <3>3. SumSizes(f) = Bytes(f, R) /\ SumSizes(f) \in Nat
      BY <3>1, SumSizesIs
    <3> HIDE DEF size, R
    <3> QED  BY <3>2, <3>3
  <2> QED  BY <2>1, <2>2
<1>8. SumSizes(g) = size(c) + Bytes(g, R)
  <2>1. CASE h \in Held(g)
    BY <1>1, <1>2, <1>5, <2>1, SumSizesIs, BytesRemove DEF Held, Maps
  <2>2. CASE h \notin Held(g)
    <3>1. R = Held(g) /\ c = None
      BY <1>1, <1>2, <2>2 DEF Held
    <3>2. size(c) = 0
      BY <3>1
    <3>3. SumSizes(g) = Bytes(g, R) /\ SumSizes(g) \in Nat
      BY <1>5, <3>1, SumSizesIs
    <3> HIDE DEF size, R
    <3> QED  BY <3>2, <3>3
  <2> QED  BY <2>1, <2>2
<1>9. size(c) \in Nat /\ size(f[h]) \in Nat /\ Bytes(f, R) \in Nat
  <2>1. size(c) \in Nat /\ size(f[h]) \in Nat
    BY SizeAssumption DEF Maps
  <2>2. SizesKnown(f, R)
    BY SumSizesIs DEF SizesKnown
  <2> QED  BY <1>3, <2>1, <2>2, BytesType
<1>10. SumSizes(g) = SumSizes(f) - size(f[h]) + size(c)
  <2> HIDE DEF size, R
  <2> QED  BY <1>6, <1>7, <1>8, <1>9
<1> QED  BY <1>5, <1>10 DEF g

-----------------------------------------------------------------------------
(* The byte quota.  The counter follows the index; a put between its writes    *)
(* has room reserved, and only its handle differs on disk and in memory.       *)

CounterInv == index \in Maps /\ CounterExact

\* Only the removal of an entry and the end of a put change index and counter.
LEMMA CounterStep ==
  ASSUME MaxCrashes = 0, IInv, CounterInv, [Next]_vars
  PROVE  CounterInv'
<1>0. ASSUME index' = index, total' = total
      PROVE  CounterInv'
  BY <1>0 DEF CounterInv, CounterExact
<1>1. ASSUME NEW h \in Handle, NEW c \in Content \cup {None}, index' = [index EXCEPT ![h] = c],
             total' = total - RefSize(h) + (IF c = None THEN 0 ELSE SizeOf[c])
      PROVE  CounterInv'
  <2>1. index' \in Maps /\ SumSizes(index') = SumSizes(index) - RefSize(h) + (IF c = None THEN 0 ELSE SizeOf[c])
    BY <1>1, SumSizesMoves DEF CounterInv, RefSize
  <2> QED  BY <1>1, <2>1 DEF CounterInv, CounterExact
<1>2. ASSUME NEW t \in Thread, UnlinkData(t)
      PROVE  CounterInv'
  <2>1. job[t].victim \in Handle
    BY <1>2 DEF UnlinkData, IInv, TypeOK, JobOK, UnlinkPoints
  <2>2. total \in Nat /\ RefSize(job[t].victim) \in Nat
    BY <2>1, SumSizesIs, SizeAssumption DEF CounterInv, CounterExact, RefSize, IInv, TypeOK
  <2>3. /\ index' = [index EXCEPT ![job[t].victim] = None]
        /\ total' = total - RefSize(job[t].victim) + (IF None = None THEN 0 ELSE SizeOf[None])
    BY <1>2, <2>2 DEF UnlinkData
  <2> QED  BY <1>1, <2>1, <2>3
<1>3. ASSUME NEW t \in Thread, WriteMeta(t)
      PROVE  CounterInv'
  <2>1. job[t].handle \in Handle /\ job[t].content \in Content
    BY <1>3 DEF WriteMeta, IInv, TypeOK, JobOK, WritePoints
  <2>2. total \in Nat /\ RefSize(job[t].handle) \in Nat /\ SizeOf[job[t].content] \in Nat
    BY <2>1, SumSizesIs, SizeAssumption DEF CounterInv, CounterExact, RefSize, IInv, TypeOK
  <2>3. job[t].content # None
    BY <2>1, NoneAssumption
  <2>4. /\ index' = [index EXCEPT ![job[t].handle] = job[t].content]
        /\ total' = total - RefSize(job[t].handle)
                      + (IF job[t].content = None THEN 0 ELSE SizeOf[job[t].content])
    BY <1>3, <2>2, <2>3 DEF WriteMeta
  <2> QED  BY <1>1, <2>1, <2>4
<1>4. ASSUME NEW t \in Thread, Call(t) \/ IoError(t) \/ Answer(t) \/ CheckQuota(t) \/ WriteData(t)
                               \/ GetUnlock(t) \/ GetProbe(t) \/ GetRead(t) \/ UnlinkMeta(t)
      PROVE  CounterInv'
  BY <1>0, <1>4 DEF Call, Put, Get, Lookup, Delete, ListRefs, Acquire, IoError, Answer, CheckQuota,
       WriteData, GetUnlock, GetProbe, GetRead, UnlinkMeta, memory
<1>5. ASSUME NEW t \in Thread, NEW h \in Handle, EvictIfExpired(t, h)
      PROVE  CounterInv'
  BY <1>0, <1>5 DEF EvictIfExpired, memory
<1>6. CASE CrashRestart
  BY <1>6 DEF CrashRestart, IInv, TypeOK
<1>7. CASE Tick \/ UNCHANGED vars
  BY <1>0, <1>7 DEF Tick, vars, memory
<1> QED  BY <1>2, <1>3, <1>4, <1>5, <1>6, <1>7 DEF Next, Step

LEMMA CounterInit == Init => CounterInv
<1> SUFFICES ASSUME Init PROVE CounterInv
  OBVIOUS
<1>1. Held(index) = {} /\ index \in [Handle -> Content \cup {None}]
  BY DEF Init, Held
<1>2. index \in Maps
  BY <1>1, FS_EmptySet DEF Maps
<1>3. SumSizes(index) = 0
  BY <1>1, <1>2, SumSizesIs, BytesStep, FS_EmptySet
<1> QED  BY <1>2, <1>3 DEF CounterInv, CounterExact, Init

\* While the process lives, whatever overwrites, deletes, evictions and failing writes
\* interleave: the byte counter is the size of what the index lists (_total_bytes).
THEOREM CounterIsExact == MaxCrashes = 0 => (Spec => []CounterExact)
<1> SUFFICES ASSUME MaxCrashes = 0 PROVE Spec => []CounterExact
  OBVIOUS
<1>1. Init => IInv /\ CounterInv
  BY InitEstablishes, CounterInit
<1>2. IInv /\ CounterInv /\ [Next]_vars => IInv' /\ CounterInv'
  BY NextPreserves, CounterStep
<1>3. CounterInv => CounterExact
  BY DEF CounterInv
<1> QED  BY <1>1, <1>2, <1>3, PTL DEF Spec

\* What a thread that is about to write was promised.
Reserved == \A t \in Thread : job[t].at \in WritePoints =>
              total - RefSize(job[t].handle) + SizeOf[job[t].content] <= MaxBytes
Paired == \/ data = index /\ \A t \in Thread : job[t].at # "writeMeta"
          \/ \E t \in Thread : /\ job[t].at = "writeMeta"
                               /\ data = [index EXCEPT ![job[t].handle] = job[t].content]
BytesInv == total <= MaxBytes /\ Reserved /\ Paired

\* Steps of a thread that is not writing and leave files and memory alone.
LEMMA BytesAside ==
  ASSUME BytesInv, NEW t \in Thread, UNCHANGED <<data, index, total>>,
         job[t].at # "writeMeta", job'[t].at \notin WritePoints,
         \A u \in Thread : u # t => job'[u] = job[u]
  PROVE  BytesInv'
<1>1. Reserved'
  BY DEF BytesInv, Reserved, RefSize
<1>2. Paired'
  <2>1. job'[t].at # "writeMeta"
    BY DEF WritePoints
  <2> QED  BY <2>1 DEF BytesInv, Paired
<1> QED  BY <1>1, <1>2 DEF BytesInv

LEMMA BytesCall ==
  ASSUME IInv, BytesInv, NEW t \in Thread, Call(t)
  PROVE  BytesInv'
<1>1. ASSUME NEW j, Acquire(t, j), j.at \in {"sweep", "unlinkMeta"}
      PROVE  BytesInv'
  <2>1. UNCHANGED <<data, index, total>> /\ job[t] = Idle /\ job' = [job EXCEPT ![t] = j]
    BY <1>1 DEF Acquire, disk, memory
  <2>2. job[t].at # "writeMeta" /\ job'[t] = j /\ \A u \in Thread : u # t => job'[u] = job[u]
    BY <2>1 DEF Idle, IInv, TypeOK
  <2>3. job'[t].at \notin WritePoints
    BY <1>1, <2>2 DEF WritePoints
  <2> QED  BY <2>1, <2>2, <2>3, BytesAside
<1> QED  BY <1>1 DEF Call, Put, Get, Lookup, Delete, ListRefs, Idle

\* No other thread than the holder of the lock is about to write.
LEMMA LoneWriter ==
  ASSUME IInv, NEW t \in Thread, lock = t
  PROVE  \A u \in Thread : u # t => job[u].at \notin WritePoints
  BY DEF IInv, LockHeld, LockedPoints

LEMMA NumbersKnown ==
  ASSUME IInv, CounterInv
  PROVE  /\ total \in Nat
         /\ \A h : RefSize(h) \in Nat \/ h \notin Handle
         /\ \A t \in Thread : job[t].at \in WritePoints =>
               /\ job[t].handle \in Handle /\ job[t].content \in Content
               /\ SizeOf[job[t].content] \in Nat
<1>1. total \in Nat
  BY SumSizesIs DEF CounterInv, CounterExact
<1>2. \A h \in Handle : RefSize(h) \in Nat
  BY SizeAssumption DEF RefSize, IInv, TypeOK
<1>3. \A t \in Thread : job[t].at \in WritePoints => job[t].handle \in Handle /\ job[t].content \in Content
  BY DEF IInv, TypeOK, JobOK
<1> QED  BY <1>1, <1>2, <1>3, SizeAssumption

\* A put that passes its check, or stops there.
LEMMA BytesCheck ==
  ASSUME IInv, CounterInv, BytesInv, NEW t \in Thread, CheckQuota(t)
  PROVE  BytesInv'
<1>1. /\ UNCHANGED <<data, index, total>> /\ lock = t
      /\ job[t].at = "sweep" /\ job[t].handle \in Handle /\ job[t].content \in Content
  BY DEF CheckQuota, Swept, disk, memory, IInv, TypeOK, JobOK, LockHeld, LockedPoints
<1>2. SizeOf[job[t].content] \in Nat /\ RefSize(job[t].handle) \in Nat /\ total \in Nat
  BY <1>1, NumbersKnown, SizeAssumption
<1>3. \A u \in Thread : job'[u].at \in WritePoints => u = t
  BY <1>1, LoneWriter DEF CheckQuota, Release, Idle, WritePoints, IInv, TypeOK
<1>4. Reserved'
  <2> SUFFICES ASSUME job'[t].at \in WritePoints
               PROVE  total - RefSize(job'[t].handle) + SizeOf[job'[t].content] <= MaxBytes
    BY <1>1, <1>3 DEF Reserved, RefSize
  <2>1. ~OverQuota(job[t].handle, job[t].content)
    BY DEF CheckQuota, Release, Idle, WritePoints, IInv, TypeOK
  <2>2. job'[t].handle = job[t].handle /\ job'[t].content = job[t].content
    BY <2>1 DEF CheckQuota, IInv, TypeOK, Job
  <2> QED  BY <1>2, <2>1, <2>2, QuotaAssumption DEF OverQuota
<1>5. Paired'
  <2>1. \A u \in Thread : job[u].at # "writeMeta" /\ job'[u].at # "writeMeta"
    <3>1. job'[t].at # "writeMeta"
      BY DEF CheckQuota, Release, Idle, IInv, TypeOK, Job
    <3>2. \A u \in Thread : u # t => job[u].at \notin WritePoints /\ job'[u].at \notin WritePoints
      BY <1>1, <1>3, LoneWriter
    <3> QED  BY <1>1, <3>1, <3>2 DEF WritePoints
  <2> QED  BY <1>1, <2>1 DEF BytesInv, Paired
<1> QED  BY <1>1, <1>4, <1>5 DEF BytesInv

LEMMA BytesUnlink ==
  ASSUME IInv, CounterInv, BytesInv, NEW t \in Thread, UnlinkData(t)
  PROVE  BytesInv'
<1> DEFINE v == job[t].victim
<1>1. /\ v \in Handle /\ lock = t /\ job[t].at = "unlinkData"
      /\ data' = [data EXCEPT ![v] = None] /\ index' = [index EXCEPT ![v] = None]
      /\ total' = total - RefSize(v)
  BY DEF UnlinkData, IInv, TypeOK, JobOK, LockHeld, LockedPoints, UnlinkPoints
<1>2. \A u \in Thread : job[u].at \notin WritePoints /\ job'[u].at \notin WritePoints
  <2>1. \A u \in Thread : u # t => job'[u] = job[u]
    BY DEF UnlinkData, Release, IInv, TypeOK
  <2>2. job'[t].at \notin WritePoints
    BY UnlinkDataMoves DEF IInv, WritePoints
  <2> QED  BY <1>1, <2>1, <2>2, LoneWriter DEF WritePoints
<1>3. data' = index'
  BY <1>1, <1>2 DEF BytesInv, Paired, WritePoints
<1>4. total' <= MaxBytes
  BY <1>1, NumbersKnown, QuotaAssumption DEF BytesInv
<1> QED  BY <1>2, <1>3, <1>4 DEF BytesInv, Reserved, Paired, WritePoints

LEMMA BytesWrite ==
  ASSUME IInv, CounterInv, BytesInv, NEW t \in Thread, WriteData(t) \/ WriteMeta(t)
  PROVE  BytesInv'
<1> DEFINE h == job[t].handle
           c == job[t].content
<1>1. job[t].at \in WritePoints /\ lock = t /\ h \in Handle /\ c \in Content
  BY DEF WriteData, WriteMeta, IInv, TypeOK, JobOK, LockHeld, LockedPoints, WritePoints
<1>2. /\ total \in Nat /\ RefSize(h) \in Nat /\ SizeOf[c] \in Nat
      /\ total - RefSize(h) + SizeOf[c] <= MaxBytes
  BY <1>1, NumbersKnown DEF BytesInv, Reserved
<1>3. CASE WriteData(t)
  <2>1. /\ job' = [job EXCEPT ![t].at = "writeMeta"] /\ data' = [data EXCEPT ![h] = c]
        /\ index' = index /\ total' = total /\ job[t].at = "writeData"
    BY <1>3 DEF WriteData, memory
  <2>2. data = index
    BY <1>1, <2>1, LoneWriter DEF BytesInv, Paired, WritePoints
  <2>3. /\ job'[t].at = "writeMeta" /\ job'[t].handle = h /\ job'[t].content = c
        /\ \A u \in Thread : u # t => job'[u] = job[u]
    BY <2>1 DEF IInv, TypeOK, Job
  <2>4. Paired'
    BY <2>1, <2>2, <2>3 DEF Paired
  <2>5. Reserved'
    BY <1>2, <2>1, <2>3 DEF BytesInv, Reserved, RefSize
  <2> QED  BY <2>1, <2>4, <2>5 DEF BytesInv
<1>4. CASE WriteMeta(t)
  <2>1. /\ index' = [index EXCEPT ![h] = c] /\ total' = total + SizeOf[c] - RefSize(h)
        /\ data' = data /\ job' = [job EXCEPT ![t] = Idle] /\ job[t].at = "writeMeta"
    BY <1>4 DEF WriteMeta, Release
  <2>2. data = index'
    BY <1>1, <2>1, LoneWriter DEF BytesInv, Paired, WritePoints
  <2>3. \A u \in Thread : job'[u].at \notin WritePoints
    BY <1>1, <2>1, LoneWriter DEF WritePoints, Idle, IInv, TypeOK
  <2>4. total' <= MaxBytes
    BY <1>2, <2>1
  <2> QED  BY <2>1, <2>2, <2>3, <2>4 DEF BytesInv, Reserved, Paired, WritePoints
<1> QED  BY <1>3, <1>4

LEMMA DiskStep ==
  ASSUME MaxCrashes = 0, MaxIoErrors = 0, IInv, CounterInv, BytesInv, [Next]_vars
  PROVE  BytesInv'
<1>1. ASSUME NEW t \in Thread, NEW h \in Handle, EvictIfExpired(t, h)
      PROVE  BytesInv'
  <2>1. \A u \in Thread : u # t => job'[u] = job[u]
    BY <1>1, EvictMoves DEF IInv
  <2>2. job'[t].at \in {"sweep", "unlinkMeta"}
    BY <1>1, EvictMoves DEF IInv
  <2>3. UNCHANGED <<data, index, total>> /\ job[t].at # "writeMeta"
    BY <1>1 DEF EvictIfExpired, disk, memory
  <2> QED  BY <2>1, <2>2, <2>3, BytesAside DEF WritePoints
<1>2. ASSUME NEW t \in Thread, UnlinkMeta(t) \/ Answer(t) \/ GetUnlock(t) \/ GetProbe(t) \/ GetRead(t)
      PROVE  BytesInv'
  <2>1. /\ UNCHANGED <<data, index, total>> /\ job[t].at # "writeMeta"
        /\ \A u \in Thread : u # t => job'[u] = job[u]
    BY <1>2 DEF UnlinkMeta, Answer, GetUnlock, GetProbe, GetRead, Swept, Release, disk, memory, IInv, TypeOK
  <2>2. job'[t].at \notin WritePoints
    BY <1>2 DEF UnlinkMeta, Answer, GetUnlock, GetProbe, GetRead, Release, Idle, WritePoints, IInv, TypeOK, Job
  <2> QED  BY <2>1, <2>2, BytesAside
<1>3. ASSUME NEW t \in Thread PROVE ~IoError(t)
  BY DEF IoError, IInv, TypeOK
<1>4. ~CrashRestart
  BY DEF CrashRestart, IInv, TypeOK
<1>5. CASE Tick \/ UNCHANGED vars
  BY <1>5 DEF Tick, vars, disk, memory, BytesInv, Reserved, Paired, RefSize
<1> QED  BY <1>1, <1>2, <1>3, <1>4, <1>5, BytesCall, BytesCheck, BytesUnlink, BytesWrite DEF Next, Step

LEMMA BytesInit == Init => BytesInv
  BY QuotaAssumption DEF Init, BytesInv, Reserved, Paired, Idle, WritePoints

\* Without faults: the bytes in memory and on disk stay within max_bytes, also half way
\* through a put, and where no operation holds the lock the files hold what the index
\* says (_check_quota, put, get).
THEOREM BytesKept ==
  MaxCrashes = 0 /\ MaxIoErrors = 0 => (Spec => [](BytesWithinQuota /\ RefDescribesBytes))
<1> SUFFICES ASSUME MaxCrashes = 0, MaxIoErrors = 0
             PROVE  Spec => [](BytesWithinQuota /\ RefDescribesBytes)
  OBVIOUS
<1>1. Init => IInv /\ CounterInv /\ BytesInv
  BY InitEstablishes, CounterInit, BytesInit
<1>2. IInv /\ CounterInv /\ BytesInv /\ [Next]_vars => IInv' /\ CounterInv' /\ BytesInv'
  BY NextPreserves, CounterStep, DiskStep
<1>3. IInv /\ CounterInv /\ BytesInv => BytesWithinQuota /\ RefDescribesBytes
  <2> SUFFICES ASSUME IInv, CounterInv, BytesInv PROVE BytesWithinQuota /\ RefDescribesBytes
    OBVIOUS
  <2>1. CASE data = index
    BY <2>1 DEF CounterInv, CounterExact, BytesInv, BytesWithinQuota, DiskWithinQuota, RefDescribesBytes
  <2>2. ASSUME NEW t \in Thread, job[t].at = "writeMeta",
               data = [index EXCEPT ![job[t].handle] = job[t].content]
        PROVE  BytesWithinQuota /\ RefDescribesBytes
    <3>1. lock = t /\ job[t].at \in WritePoints
      BY <2>2 DEF IInv, LockHeld, LockedPoints, WritePoints
    <3>2. job[t].content # None
      BY <3>1, NumbersKnown, NoneAssumption
    <3>3. SumSizes(data) = SumSizes(index) - RefSize(job[t].handle) + SizeOf[job[t].content]
      BY <2>2, <3>1, <3>2, NumbersKnown, SumSizesMoves DEF CounterInv, RefSize
    <3>4. SumSizes(data) <= MaxBytes
      BY <3>1, <3>3 DEF BytesInv, Reserved, CounterInv, CounterExact
    <3> QED  BY <3>1, <3>4, NoneAssumption
             DEF CounterInv, BytesWithinQuota, DiskWithinQuota, RefDescribesBytes
  <2> QED  BY <2>1, <2>2 DEF BytesInv, Paired
<1> QED  BY <1>1, <1>2, <1>3, PTL DEF Spec
=============================================================================
