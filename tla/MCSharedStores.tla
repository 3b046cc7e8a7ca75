----------------------------- MODULE MCSharedStores -----------------------------
(***************************************************************************)
(* The stores that outlive a process or are shared by several, each checked   *)
(* in a part of its own: artifacts and event log (RemoteStores), facts kept    *)
(* by a memory service (FactStores), the schema of a SQLite file               *)
(* (SqliteMigrations), episodic memory with the facts distilled from it        *)
(* (Consolidation), the artifact files under a byte quota                      *)
(* (JsonFileArtifactStore, without faults here) and the directories of           *)
(* compiled bundles (Bundles).  A behaviour picks one part and leaves the        *)
(* others alone, so that the state spaces add up.                             *)
(***************************************************************************)
EXTENDS RemoteStores, TLC

CONSTANTS Writer, ScanLimit, Given, FactOps, MaxCrashes,
          Opener, Store, StoreOf, Migrations,
          Episode, Num, Den, MinOccurrences, MinSessions, Runner,
          MaxEpisodes, MaxWrites, MaxRuns,
          Stored, Sized, Redacted, MaxBytes, MaxArtifacts, Ttl, MaxClock,
          Lists, Emptied, MaxActs, MaxMishaps

\* The values of the instance.
CONSTANTS p3, s1, s2, day, night, small, large, secret

VARIABLES part,
          service, records, writer, seq, factOps, crashes, latest, muddled, minted,
          tables, recorded, writing, opener, beside,
          episodes, facts, run, writes, runs, unique, applied,
          bytes, refs, index, total, expires, clock, lock, job, restarts, ioErrors,
          disk, actor, acts, mishaps, unsure

factVars == <<service, records, writer, seq, factOps, crashes, latest, muddled, minted>>
schemaVars == <<tables, recorded, writing, opener, beside>>
memoryVars == <<episodes, facts, run, writes, runs, unique, applied>>
fileVars == <<bytes, refs, index, total, expires, clock, lock, job, restarts, ioErrors>>
bundleVars == <<disk, actor, acts, mishaps, unsure>>
allVars == <<part, vars, factVars, schemaVars, memoryVars, fileVars, bundleVars>>

\* Two connections open one store, the third one another store of the file.
MCStoreOf == [p \in Opener |-> IF p = p3 THEN s2 ELSE s1]

\* The second summary resembles the first and the third, which share nothing.
Lived(i, summary, session, sensitivity) ==
    [id |-> i, summary |-> summary, session |-> session, sensitivity |-> sensitivity]
MCEpisode == {Lived(1, {1, 2}, day, 1), Lived(1, {2, 3, 4}, night, 0),
              Lived(2, {1, 2}, night, 0), Lived(2, {2, 3, 4}, day, 1), Lived(2, {4, 5}, day, 0),
              Lived(3, {2, 3, 4}, night, 1), Lived(3, {4, 5}, night, 0)}

\* What is kept of a secret is as small as a small artifact.
MCStored == {small, large, secret}
MCSized == [c \in MCStored |-> IF c = small THEN 1 ELSE 2]
MCRedacted == [c \in MCStored |-> IF c = secret THEN small ELSE c]

\* Snapshots that go together, in both orders, and two that disagree about a tool.
Offers(version) == [k \in {"tool"} |-> version]
Plain == [source |-> 1, capabilities |-> Offers(1), resources |-> <<>>,
          warned |-> FALSE, lossy |-> FALSE, coverage |-> "none"]
Keyed == [Plain EXCEPT !.source = 2, !.warned = TRUE, !.coverage = "missing_optional",
              !.resources = [r \in {"key"} |->
                                [digest |-> FALSE, required |-> TRUE, serves |-> {"tool"}]]]
Newer == [Plain EXCEPT !.source = 2, !.capabilities = Offers(2)]
MCLists == <<<<Plain>>, <<Plain, Keyed>>, <<Keyed, Plain>>, <<Plain, Newer>>>>

Facts == INSTANCE FactStores WITH ops <- factOps, MaxOps <- FactOps
Schema == INSTANCE SqliteMigrations
Memory == INSTANCE Consolidation

\* The threads and handles of the files are named like clients and ids.
Files == INSTANCE JsonFileArtifactStore
           WITH Thread <- Client, Handle <- Id, Content <- Stored, SizeOf <- Sized,
                Scrub <- Redacted, MaxCrashes <- 0, MaxIoErrors <- 0,
                data <- bytes, meta <- refs, crashes <- restarts
Compiles == INSTANCE Bundles WITH Input <- Lists, Actor <- Runner, Torn <- Emptied

InitParts == /\ part \in {"remote", "facts", "schema", "memory", "files", "bundles"}
             /\ Init /\ (part = "remote" \/ backend = "s3")
             /\ Facts!Init /\ (part = "facts" \/ service = "zep")
             /\ Schema!Init
             /\ Memory!Init
             /\ Files!Init
             /\ Compiles!Init

\* The operations of these parts are bounded, and may all be done.
Rest == /\ part \in {"remote", "facts", "memory", "bundles"}
        /\ UNCHANGED allVars

Rests(tuple) == UNCHANGED <<part, tuple>>

NextPart ==
    \/ part = "remote" /\ Next /\ Rests(<<factVars, schemaVars, memoryVars, fileVars, bundleVars>>)
    \/ part = "facts" /\ Facts!Next /\ Rests(<<vars, schemaVars, memoryVars, fileVars, bundleVars>>)
    \/ part = "schema" /\ Schema!Next /\ Rests(<<vars, factVars, memoryVars, fileVars, bundleVars>>)
    \/ part = "memory" /\ Memory!Next /\ Rests(<<vars, factVars, schemaVars, fileVars, bundleVars>>)
    \/ part = "files" /\ Files!Next /\ Rests(<<vars, factVars, schemaVars, memoryVars, bundleVars>>)
    \/ part = "bundles" /\ Compiles!Next /\ Rests(<<vars, factVars, schemaVars, memoryVars, fileVars>>)
    \/ Rest

ASSUME FactAssumption == Facts!FactConstants
ASSUME SchemaAssumption == Schema!SchemaConstants
ASSUME MemoryAssumption == Memory!MemoryConstants
ASSUME BundleAssumption == Compiles!BundleConstants
\* What the file store asks of its constants.
ASSUME FileAssumption ==
    /\ None \notin Id \cup Stored \cup Client /\ None \notin [handle : Id, content : Stored]
    /\ Sized \in [Stored -> Nat] /\ Redacted \in [Stored -> Stored]
    /\ {MaxBytes, MaxArtifacts, MaxClock} \subseteq Nat
    /\ None \notin Nat /\ Ttl \in Nat \cup {None}

SpecParts == InitParts /\ [][NextPart]_allVars

\* Clients, ids, contents and processes stay apart only by name (StoreOf gives both
\* runners the same store).
Symmetric == Permutations(Client) \cup Permutations(Id) \cup Permutations(Content)
             \cup Permutations(Runner)

--------------------------------------------------------------------------------
\* Facts at a service without upsert are what the callers were told (FactStores).
FactsKept == Facts!FactsKept

\* The version table tells which migrations were applied (SqliteMigrations).
SchemaWhole == Schema!SchemaWhole

\* Facts have the evidence and the sensitivity of their episodes, and consolidating
\* again makes good a consolidation cut short (Consolidation).
MemoryWhole == Memory!MemoryWhole

\* The files keep to the byte limit, in memory and on disk, what the index says of an
\* artifact is what its file holds, and a directory of a bundle that was verified holds
\* what its name stands for (JsonFileArtifactStore, Bundles).
FilesHold == /\ part = "files" => Files!BytesWithinQuota /\ Files!RefDescribesBytes
             /\ part = "bundles" => Compiles!BundlesHold
================================================================================
