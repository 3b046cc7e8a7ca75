------------------------ MODULE JsonFileArtifactStore ------------------------
(***************************************************************************)
(* The filesystem artifact store (store/json_file_artifacts.py, with        *)
(* _json_file_io.py and _json_file_ttl.py).  An artifact is a pair of files, *)
(* written one after the other; an index, a byte counter and the expiry     *)
(* times are kept in memory and rebuilt from the files by a restart.        *)
(* Every operation that touches the index holds one lock; get reads the     *)
(* data file after it has released it.                                      *)
(*                                                                         *)
(* A thread runs one operation at a time.  Each access to the file system   *)
(* is a step of its own, because a crash, an I/O error or an unlocked reader *)
(* can fall between two of them; what happens in memory under the lock is    *)
(* part of the step that precedes the release.                              *)
(***************************************************************************)
EXTENDS Integers, FiniteSets, FiniteSetsExt

CONSTANTS Thread, Handle, Content, None,
          SizeOf,           \* Content -> bytes
          Scrub,            \* Content -> Content: what redact_secrets stores
          MaxBytes,         \* max_bytes
          MaxArtifacts,     \* max_artifacts
          Ttl,              \* ttl_seconds, or None
          MaxClock,         \* bound: the clock stops here
          MaxCrashes,       \* bound: crashes with restart
          MaxIoErrors       \* bound: failing writes and unlinks

ASSUME NoneAssumption == /\ None \notin Handle \cup Content \cup Thread
                         /\ None \notin [handle : Handle, content : Content]
ASSUME SizeAssumption == SizeOf \in [Content -> Nat]
ASSUME ScrubAssumption == Scrub \in [Content -> Content]
ASSUME QuotaAssumption == MaxBytes \in Nat /\ MaxArtifacts \in Nat
ASSUME TtlAssumption == Ttl \in Nat \cup {None} /\ None \notin Nat
ASSUME BoundAssumption == {MaxClock, MaxCrashes, MaxIoErrors} \subseteq Nat

VARIABLES data,      \* Handle -> Content or None: the .data files
          meta,      \* Handle -> Content or None: the .json files, by content_hash
          index,     \* Handle -> Content or None: the refs in memory
          total,     \* the byte counter
          expires,   \* Handle -> expiry time or None
          clock,     \* the injected monotonic clock
          lock,      \* the thread holding the RLock, or None
          job,       \* Thread -> the operation it runs and where it stands
          crashes, ioErrors

disk == <<data, meta>>
memory == <<index, total, expires>>
faults == <<crashes, ioErrors>>
vars == <<data, meta, index, total, expires, clock, lock, job, crashes, ioErrors>>

Idle == [at |-> "idle", op |-> "none", handle |-> None, content |-> None,
         todo |-> {}, victim |-> None]

Indexed == {h \in Handle : index[h] # None}
RefSize(h) == IF index[h] = None THEN 0 ELSE SizeOf[index[h]]
SumSizes(f) == MapThenSumSet(LAMBDA h : SizeOf[f[h]], {h \in Handle : f[h] # None})

Init == /\ data = [h \in Handle |-> None]
        /\ meta = [h \in Handle |-> None]
        /\ index = [h \in Handle |-> None]
        /\ total = 0
        /\ expires = [h \in Handle |-> None]
        /\ clock = 0
        /\ lock = None
        /\ job = [t \in Thread |-> Idle]
        /\ crashes = 0
        /\ ioErrors = 0

-----------------------------------------------------------------------------
\* Taking the lock.  The first thing each operation does under it is to evict
\* what has expired: put and list_refs sweep a snapshot of the index when a ttl
\* is configured, get, ref and exists look at their own handle.

Acquire(t, j) == /\ job[t] = Idle
                 /\ lock = None
                 /\ lock' = t
                 /\ job' = [job EXCEPT ![t] = j]
                 /\ UNCHANGED <<disk, memory, clock, faults>>

SweepSet == IF Ttl = None THEN {} ELSE Indexed

Put(t, h, c) == Acquire(t, [Idle EXCEPT !.at = "sweep", !.op = "put", !.handle = h,
                                        !.content = Scrub[c], !.todo = SweepSet])

Get(t, h) == Acquire(t, [Idle EXCEPT !.at = "sweep", !.op = "get", !.handle = h,
                                     !.todo = {h}])

\* ref, metadata and exists: they answer from the index under the lock.
Lookup(t, h) == Acquire(t, [Idle EXCEPT !.at = "sweep", !.op = "lookup", !.handle = h,
                                        !.todo = {h}])

ListRefs(t) == Acquire(t, [Idle EXCEPT !.at = "sweep", !.op = "list", !.todo = SweepSet])

\* delete raises at once when it finds neither an index entry nor a file.
Delete(t, h) == /\ index[h] # None \/ meta[h] # None \/ data[h] # None
                /\ Acquire(t, [Idle EXCEPT !.at = "unlinkMeta", !.op = "delete",
                                           !.handle = h, !.victim = h])

-----------------------------------------------------------------------------
\* Lazy eviction, and the removal both it and delete perform.

IsExpired(h) == expires[h] # None /\ clock >= expires[h]

\* Mutant: the sweep iterates over the live index again and again.
EvictIfExpired_Rescans(t, h) ==
  /\ job[t].at = "sweep"
  /\ h \in job[t].todo
  /\ \/ /\ index[h] # None /\ IsExpired(h)
        /\ job' = [job EXCEPT ![t] = [@ EXCEPT !.at = "unlinkMeta", !.victim = h]]
     \/ /\ index[h] = None \/ ~IsExpired(h)
        /\ UNCHANGED job
  /\ UNCHANGED <<disk, memory, clock, lock, faults>>

EvictIfExpired(t, h) ==
  LET j == job[t]  rest == j.todo \ {h} IN
  /\ job[t].at = "sweep"
  /\ h \in job[t].todo
  /\ \/ /\ index[h] # None /\ IsExpired(h)
        /\ job' = [job EXCEPT ![t] = [j EXCEPT !.at = "unlinkMeta", !.victim = h,
                                               !.todo = rest]]
     \/ /\ index[h] = None \/ ~IsExpired(h)
        /\ job' = [job EXCEPT ![t] = [j EXCEPT !.todo = rest]]
  /\ UNCHANGED <<disk, memory, clock, lock, faults>>

\* Mutant: the two unlinks in the other order.
UnlinkMeta_DataFirst(t) == /\ job[t].at = "unlinkMeta"
                           /\ data' = [data EXCEPT ![job[t].victim] = None]
                           /\ job' = [job EXCEPT ![t].at = "unlinkData"]
                           /\ UNCHANGED <<meta, memory, clock, lock, faults>>

UnlinkMeta(t) == /\ job[t].at = "unlinkMeta"
                 /\ meta' = [meta EXCEPT ![job[t].victim] = None]
                 /\ job' = [job EXCEPT ![t].at = "unlinkData"]
                 /\ UNCHANGED <<data, memory, clock, lock, faults>>

Release(t) == lock' = None /\ job' = [job EXCEPT ![t] = Idle]

UnlinkData(t) ==
  LET v == job[t].victim IN
  /\ job[t].at = "unlinkData"
  /\ data' = [data EXCEPT ![v] = None]
  /\ index' = [index EXCEPT ![v] = None]
  /\ expires' = [expires EXCEPT ![v] = None]
  /\ total' = total - RefSize(v)
  /\ \/ /\ job[t].op = "delete"
        /\ Release(t)
     \/ /\ job[t].op # "delete"
        /\ job' = [job EXCEPT ![t] = [@ EXCEPT !.at = "sweep", !.victim = None]]
        /\ UNCHANGED lock
  /\ UNCHANGED <<meta, clock, faults>>

Swept(t, op) == job[t].at = "sweep" /\ job[t].op = op /\ job[t].todo = {}

\* ref, exists and list_refs read the index and return.
Answer(t) == /\ Swept(t, "lookup") \/ Swept(t, "list")
             /\ Release(t)
             /\ UNCHANGED <<disk, memory, clock, faults>>

-----------------------------------------------------------------------------
\* put, after the sweep.

\* Mutants: an off-by-one in the count limit; a byte limit checked without the new bytes.
OverQuota_OffByOne(h, c) ==
  \/ index[h] = None /\ Cardinality(Indexed) > MaxArtifacts
  \/ total - RefSize(h) + SizeOf[c] > MaxBytes

OverQuota_OldTotal(h, c) ==
  \/ index[h] = None /\ Cardinality(Indexed) >= MaxArtifacts
  \/ total > MaxBytes

OverQuota(h, c) ==
  \/ index[h] = None /\ Cardinality(Indexed) >= MaxArtifacts
  \/ total - RefSize(h) + SizeOf[c] > MaxBytes

CheckQuota(t) ==
  /\ Swept(t, "put")
  /\ \/ /\ OverQuota(job[t].handle, job[t].content)
        /\ Release(t)
     \/ /\ ~OverQuota(job[t].handle, job[t].content)
        /\ job' = [job EXCEPT ![t].at = "writeData"]
        /\ UNCHANGED lock
  /\ UNCHANGED <<disk, memory, clock, faults>>

\* Mutant: the lock covers the data file only.
WriteData_Unlocks(t) == /\ job[t].at = "writeData"
                        /\ data' = [data EXCEPT ![job[t].handle] = job[t].content]
                        /\ job' = [job EXCEPT ![t].at = "writeMeta"]
                        /\ lock' = None
                        /\ UNCHANGED <<meta, memory, clock, faults>>

WriteData(t) == /\ job[t].at = "writeData"
                /\ data' = [data EXCEPT ![job[t].handle] = job[t].content]
                /\ job' = [job EXCEPT ![t].at = "writeMeta"]
                /\ UNCHANGED <<meta, memory, clock, lock, faults>>

WriteMeta(t) ==
  LET h == job[t].handle  c == job[t].content IN
  /\ job[t].at = "writeMeta"
  /\ meta' = [meta EXCEPT ![h] = c]
  /\ index' = [index EXCEPT ![h] = c]
  /\ total' = total + SizeOf[c] - RefSize(h)
  /\ expires' = [expires EXCEPT ![h] = IF Ttl = None THEN None ELSE clock + Ttl]
  /\ Release(t)
  /\ UNCHANGED <<data, clock, faults>>

-----------------------------------------------------------------------------
\* get, after the eviction check: the lock is released, then the data file is
\* probed and read.  The index is not consulted.

GetUnlock(t) == /\ Swept(t, "get")
                /\ lock' = None
                /\ job' = [job EXCEPT ![t].at = "probe"]
                /\ UNCHANGED <<disk, memory, clock, faults>>

\* Without a data file the operation ends in ArtifactNotFoundError.
GetProbe(t) == /\ job[t].at = "probe"
               /\ job' = [job EXCEPT ![t] = IF data[@.handle] = None THEN Idle
                                            ELSE [@ EXCEPT !.at = "read"]]
               /\ UNCHANGED <<disk, memory, clock, lock, faults>>

\* The bytes are those of the file now; a file gone meanwhile is an OSError.
GetRead(t) == /\ job[t].at = "read"
              /\ job' = [job EXCEPT ![t] = Idle]
              /\ UNCHANGED <<disk, memory, clock, lock, faults>>

-----------------------------------------------------------------------------
\* A write that fails leaves the file as it was (the temporary file is removed)
\* and an unlink that fails leaves it too; the exception leaves the operation.
IoError(t) == /\ ioErrors < MaxIoErrors
              /\ job[t].at \in {"writeData", "writeMeta", "unlinkMeta", "unlinkData"}
              /\ ioErrors' = ioErrors + 1
              /\ Release(t)
              /\ UNCHANGED <<disk, memory, clock, crashes>>

\* A crash, and the store the next process builds over the same directory.
\* Mutant: the index is left for put to fill.
LoadIndex_Empty == /\ index' = [h \in Handle |-> None]
                   /\ total' = 0
                   /\ expires' = [h \in Handle |-> None]

LoadIndex ==
  /\ index' = [h \in Handle |-> IF data[h] # None THEN meta[h] ELSE None]
  /\ total' = MapThenSumSet(LAMBDA h : SizeOf[data[h]],
                            {h \in Handle : meta[h] # None /\ data[h] # None})
  /\ expires' = [h \in Handle |-> None]

CrashRestart == /\ crashes < MaxCrashes
                /\ crashes' = crashes + 1
                /\ LoadIndex
                /\ lock' = None
                /\ job' = [t \in Thread |-> Idle]
                /\ UNCHANGED <<disk, clock, ioErrors>>

Tick == /\ clock < MaxClock
        /\ clock' = clock + 1
        /\ UNCHANGED <<disk, memory, lock, job, faults>>

\* The steps of an operation once it has begun.
Step(t) == \/ \E h \in Handle : EvictIfExpired(t, h)
           \/ UnlinkMeta(t) \/ UnlinkData(t) \/ Answer(t)
           \/ CheckQuota(t) \/ WriteData(t) \/ WriteMeta(t)
           \/ GetUnlock(t) \/ GetProbe(t) \/ GetRead(t)

Call(t) == \/ \E h \in Handle : \/ \E c \in Content : Put(t, h, c)
                                \/ Get(t, h) \/ Lookup(t, h) \/ Delete(t, h)
           \/ ListRefs(t)

Next == \/ \E t \in Thread : Call(t) \/ Step(t) \/ IoError(t)
        \/ CrashRestart
        \/ Tick

Spec == Init /\ [][Next]_vars

\* An operation that has begun runs on: nothing it does waits for another.
FairSpec == Spec /\ \A t \in Thread : WF_vars(Step(t))
-----------------------------------------------------------------------------
UnlinkPoints == {"unlinkMeta", "unlinkData"}
WritePoints == {"writeData", "writeMeta"}
LockedPoints == {"sweep"} \cup UnlinkPoints \cup WritePoints
UnlockedPoints == {"probe", "read"}

Job == [at : {"idle"} \cup LockedPoints \cup UnlockedPoints,
        op : {"none", "put", "get", "lookup", "list", "delete"},
        handle : Handle \cup {None}, content : Content \cup {None},
        todo : SUBSET Handle, victim : Handle \cup {None}]

JobOK(j) == /\ j \in Job
            /\ j.at = "idle" <=> j = Idle
            /\ j.op = "put" => j.handle \in Handle /\ j.content \in Content
            /\ j.op \in {"get", "lookup", "delete"} => j.handle \in Handle
            /\ j.op = "delete" => j.at \in UnlinkPoints
            /\ j.at \in WritePoints => j.op = "put"
            /\ j.at \in UnlockedPoints => j.op = "get"
            /\ j.at \in UnlinkPoints => j.victim \in Handle

\* Types, and the shape of an operation: where it can stand and what it carries.
\* (That the byte counter is a number is left to CounterExact.)
TypeOK == /\ data \in [Handle -> Content \cup {None}]
          /\ meta \in [Handle -> Content \cup {None}]
          /\ index \in [Handle -> Content \cup {None}]
          /\ expires \in [Handle -> Nat \cup {None}]
          /\ clock \in Nat
          /\ lock \in Thread \cup {None}
          /\ job \in [Thread -> Job]
          /\ \A t \in Thread : JobOK(job[t])
          /\ crashes \in Nat /\ ioErrors \in Nat

\* At every instant, and so after a crash at any of them, a metadata file has
\* its data file beside it: put writes the data first, delete unlinks it last.
MetaHasData == \A h \in Handle : meta[h] # None => data[h] # None

\* The index never advertises a handle that get cannot serve.
IndexServable == \A h \in Handle : index[h] # None => data[h] # None

\* The metadata on disk is that of the index: a restart recovers no other ref.
MetaMatchesIndex == \A h \in Handle : meta[h] # None => meta[h] = index[h]

\* The files and the index are paired the safe way round, also after a removal
\* that stopped half way.
FilesPaired == TypeOK /\ MetaHasData /\ IndexServable /\ MetaMatchesIndex

\* Neither racing puts, nor a crash, nor an eviction that fails half way lets the
\* store list more artifacts than max_artifacts.
CountWithinQuota == Cardinality(Indexed) <= MaxArtifacts

\* While the process lives and no write fails, the byte counter is the size of
\* what the index lists, whatever overwrites, deletes and evictions interleave.
CounterExact == total = SumSizes(index)

\* ... and the bytes on disk stay within max_bytes, also half way through a put.
DiskWithinQuota == SumSizes(data) <= MaxBytes

\* The byte limit, in memory and on disk.
BytesWithinQuota == CounterExact /\ DiskWithinQuota

\* ... and when no operation holds the lock, get, which reads the file, and ref
\* and exists, which read the index, speak of the same bytes: the stored ref's
\* content_hash is that of the stored bytes.
RefDescribesBytes == lock = None => data = index

\* Every operation ends, however the threads are scheduled.
OperationsEnd == \A t \in Thread : job[t].at # "idle" ~> job[t].at = "idle"

\* The store implements the abstract one: a removal is in doubt from the time the
\* metadata file is gone until the index entry is.
Abstract ==
  INSTANCE ArtifactStore WITH
    store <- index,
    doubt <- {h \in Handle : index[h] # None /\ meta[h] = None},
    pending <- [t \in Thread |->
                  IF job[t].op = "put"
                  THEN [handle |-> job[t].handle, content |-> job[t].content]
                  ELSE None]

\* A put commits exactly its bytes or nothing; a crash loses no committed content
\* whose removal had not begun, and brings none back.
ImplementsArtifactStore == Abstract!Spec
=============================================================================
