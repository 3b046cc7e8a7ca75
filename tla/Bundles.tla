--------------------------------- MODULE Bundles --------------------------------
(***************************************************************************)
(* Compiled bundles (compiler/bundle.py and its helpers): snapshots of sources  *)
(* become a bundle, the bundle five files in a directory named after its digest, *)
(* and a directory is verified and loaded again.                            *)
(*                                                                         *)
(* Files are written in place, one after the other, by processes that may die    *)
(* half-way and may write the same directory at once; a file may be replaced by   *)
(* that of another bundle.  A bundle and its digest are known by the first list   *)
(* that compiles to it, and a file by the bundle it belongs to.  Identity and      *)
(* version of the agent, enrichments and the texts of warnings are left out.     *)
(***************************************************************************)
EXTENDS Integers, Sequences, SequencesExt, FiniteSets

CONSTANTS Input,            \* a sequence of the lists of snapshots that are compiled
          Actor,            \* processes that write and load
          None, Torn,       \* no file, and one that has been emptied for writing
          MaxActs,
          MaxMishaps        \* bound: deaths and replaced files

\* Lists of snapshots with numbered sources; bundles, known by number, are no marks of files.
Snapshot == UNION {Range(Input[i]) : i \in 1..Len(Input)}
BundleConstants == /\ Input \in Seq(Seq(Snapshot)) /\ \A s \in Snapshot : s.source \in Int
                   /\ None # Torn /\ {None, Torn} \cap Nat = {}

VARIABLES disk, actor, acts, mishaps,
          unsure            \* history: directories somebody left half-way or changed

vars == <<disk, actor, acts, mishaps, unsure>>

--------------------------------------------------------------------------------
(* Compiling *)

\* dedupe_capabilities, dedupe_resources: sources may repeat a definition, not change it.
Conflict(input) ==
    \E i, j \in 1..Len(input) : \E field \in {"capabilities", "resources"} :
        \E k \in DOMAIN input[i][field] \cap DOMAIN input[j][field] :
            input[i][field][k] # input[j][field][k]
Merged(input, field) ==
    [k \in UNION {DOMAIN input[i][field] : i \in 1..Len(input)} |->
        input[CHOOSE i \in 1..Len(input) : k \in DOMAIN input[i][field]][field][k]]
Sources_AsGiven(input) == input
\* Sorted by source; what comes k-th has k - 1 before it.
Before(input, i, j) == \/ input[i].source < input[j].source
                       \/ input[i].source = input[j].source /\ i < j
Sources(input) ==
    LET behind(i) == Cardinality({j \in 1..Len(input) : Before(input, j, i)})
    IN [k \in 1..Len(input) |-> input[CHOOSE i \in 1..Len(input) : behind(i) = k - 1]]

\* component_payloads
Component == {"agent", "capabilities", "resources", "lock"}
Compiled(input) == [agent |-> "agent", capabilities |-> Merged(input, "capabilities"),
                    resources |-> Merged(input, "resources"), lock |-> Sources(input)]
Payload(i) == Compiled(Input[i])
Accepted == {i \in 1..Len(Input) : ~Conflict(Input[i])}
Named(i) == Min({j \in Accepted : Payload(j) = Payload(i)})
Bundle == {Named(i) : i \in Accepted}

Status == <<"verified", "verified_with_warnings", "degraded", "unverified", "invalid">>
Worst(S) == Status[CHOOSE i \in 1..Len(Status) :
                      /\ Status[i] \in S \cup {"verified"}
                      /\ \A j \in (i + 1)..Len(Status) : Status[j] \notin S]
Undigested(resources) == {r \in DOMAIN resources : ~resources[r].digest}

\* summarize_trust_inputs
OfSource(s) ==
    (IF s.warned THEN {"verified_with_warnings"} ELSE {})
    \cup (IF s.lossy THEN {"degraded"} ELSE {})
    \cup (CASE s.coverage = "missing_required" -> {"invalid"}
            [] s.coverage \in {"degraded", "missing_optional"} -> {"degraded"}
            [] OTHER -> {})
OfResource(resource) == IF resource.required THEN "unverified" ELSE "verified_with_warnings"
Trust(sources, resources) ==
    [status |-> Worst((UNION {OfSource(sources[i]) : i \in 1..Len(sources)})
                       \cup {OfResource(resources[r]) : r \in Undigested(resources)}),
     warnings |-> <<{sources[i].source : i \in {i \in 1..Len(sources) : sources[i].warned}},
                    Undigested(resources)>>]

Manifest(b) == [components |-> Payload(b), digest |-> b,
                trust |-> Trust(Payload(b).lock, Payload(b).resources)]

File == Component \cup {"manifest"}
TextOf(b, f) == IF f = "manifest" THEN Manifest(b) ELSE Payload(b)[f]

--------------------------------------------------------------------------------
(* Writing *)

Whole(content) == content \notin {None, Torn}

Idle == [doing |-> "nothing", dir |-> None, at |-> 0, seen |-> <<>>, sure |-> FALSE]

Init == /\ disk = [b \in Bundle |-> [f \in File |-> None]]
        /\ actor = [a \in Actor |-> Idle]
        /\ acts = 0 /\ mishaps = 0
        /\ unsure = {}

Become(a, doing, dir) ==
    /\ acts < MaxActs /\ actor[a].doing \notin {"writing", "verifying", "loading"}
    /\ actor' = [actor EXCEPT ![a] = [Idle EXCEPT !.doing = doing, !.dir = dir, !.sure = TRUE]]
    /\ acts' = acts + 1
    /\ UNCHANGED <<disk, mishaps, unsure>>

\* build_bundle_from_snapshots, then write_bundle: a conflict refuses the bundle.
Compile(a) == \E i \in 1..Len(Input) :
    IF i \in Accepted THEN Become(a, "writing", Named(i)) ELSE Become(a, "refused", None)

\* write_text empties a file and then fills it.
WriteOrder == <<"agent", "capabilities", "resources", "lock", "manifest">>
Write(a) ==
    /\ actor[a].doing = "writing"
    /\ LET b == actor[a].dir
           f == WriteOrder[actor[a].at \div 2 + 1]
           done == actor[a].at = 2 * Len(WriteOrder) - 1
       IN /\ disk' = [disk EXCEPT ![b][f] = IF actor[a].at % 2 = 0 THEN Torn ELSE b]
          /\ actor' = [actor EXCEPT ![a] = IF done THEN [@ EXCEPT !.doing = "written"]
                                           ELSE [@ EXCEPT !.at = actor[a].at + 1]]
          /\ unsure' = IF done /\ actor[a].sure THEN unsure \ {b} ELSE unsure
    /\ UNCHANGED <<acts, mishaps>>

\* Those at work in a directory somebody disturbs can no longer be sure of it.
Disturbed(b) == [a \in Actor |-> IF actor[a].dir = b THEN [actor[a] EXCEPT !.sure = FALSE]
                                 ELSE actor[a]]

Die(a) == /\ mishaps < MaxMishaps /\ actor[a].doing = "writing" /\ actor[a].at > 0
          /\ mishaps' = mishaps + 1
          /\ actor' = [Disturbed(actor[a].dir) EXCEPT ![a] = Idle]
          /\ unsure' = unsure \cup {actor[a].dir}
          /\ UNCHANGED <<disk, acts>>

Swap(b, f) == /\ mishaps < MaxMishaps /\ Whole(disk[b][f])
              /\ \E c \in DOMAIN disk : /\ TextOf(c, f) # TextOf(disk[b][f], f)
                                  /\ disk' = [disk EXCEPT ![b][f] = c]
              /\ mishaps' = mishaps + 1
              /\ actor' = Disturbed(b)
              /\ unsure' = unsure \cup {b}
              /\ UNCHANGED acts

--------------------------------------------------------------------------------
(* Loading *)

\* verify_bundle reads the manifest and the components, recomputed_trust_findings two of
\* them again; load_bundle reads all five once more.
VerifyOrder == <<"manifest", "agent", "capabilities", "resources", "lock", "resources", "lock">>
LoadOrder == <<"agent", "capabilities", "resources", "lock", "manifest">>

Verifies(b, seen) ==
    LET manifest == Manifest(seen[1])
        read(i) == TextOf(seen[i], VerifyOrder[i])
    IN /\ \A i \in 1..Len(seen) : Whole(seen[i])
       /\ \A i \in 2..5 : /\ read(i) = manifest.components[VerifyOrder[i]]
                          /\ read(i) = Payload(manifest.digest)[VerifyOrder[i]]
       /\ b = manifest.digest
       /\ manifest.trust = Trust(read(7), read(6))

Load(a, verify) == \E b \in DOMAIN disk : Become(a, IF verify THEN "verifying" ELSE "loading", b)

Verify(a) ==
    /\ actor[a].doing = "verifying"
    /\ LET b == actor[a].dir
           seen == Append(actor[a].seen, disk[b][VerifyOrder[Len(actor[a].seen) + 1]])
       IN actor' = [actor EXCEPT ![a] =
            CASE Len(seen) < Len(VerifyOrder) /\ Whole(seen[1]) -> [@ EXCEPT !.seen = seen]
              [] Len(seen) = Len(VerifyOrder) /\ Verifies(b, seen) ->
                   [@ EXCEPT !.doing = "loading", !.seen = <<>>, !.at = 1]
              [] OTHER -> [@ EXCEPT !.doing = "failed", !.seen = <<>>]]
    /\ UNCHANGED <<disk, acts, mishaps, unsure>>

\* at is 1 for a bundle that was verified.
Read(a) ==
    /\ actor[a].doing = "loading"
    /\ LET seen == Append(actor[a].seen,
                          disk[actor[a].dir][LoadOrder[Len(actor[a].seen) + 1]])
       IN actor' = [actor EXCEPT ![a] =
            IF ~Whole(seen[Len(seen)]) THEN [@ EXCEPT !.doing = "failed", !.seen = <<>>]
            ELSE [@ EXCEPT !.seen = seen,
                           !.doing = IF Len(seen) < Len(LoadOrder) THEN "loading"
                                    ELSE "loaded"]]
    /\ UNCHANGED <<disk, acts, mishaps, unsure>>

Next == \/ \E a \in Actor : \/ Compile(a) \/ Write(a) \/ Die(a) \/ Verify(a) \/ Read(a)
                            \/ \E verify \in BOOLEAN : Load(a, verify)
        \/ \E b \in DOMAIN disk, f \in File : Swap(b, f)

Spec == Init /\ [][Next]_vars

--------------------------------------------------------------------------------
(* Running *)

\* CompiledAgent.assess_runtime: what an agent of the bundle does not offer.
Blocked(capabilities, resources, status) ==
    {c \in DOMAIN capabilities :
        \/ status = "invalid"
        \/ \E r \in Undigested(resources) : resources[r].required /\ c \in resources[r].serves}

--------------------------------------------------------------------------------
(* Properties *)

\* The lists a bundle is compiled of may come in any order, if no source comes twice,
\* and a definition two sources disagree about is in no bundle (dedupe_capabilities).
OrderFree ==
    \A input \in {Input[i] : i \in 1..Len(Input)} :
        /\ (\A i, j \in 1..Len(input) : i # j => input[i].source # input[j].source) =>
              Compiled(Reverse(input)) = Compiled(input) \/ Conflict(input)
        /\ ~Conflict(input) => \A i \in 1..Len(input) :
              \A c \in DOMAIN input[i].capabilities :
                  Compiled(input).capabilities[c] = input[i].capabilities[c]

\* A directory verifies once it has been written whole and left alone since, whoever
\* wrote there before (write_bundle, verify_bundle).
Quiet(b) == \A a \in Actor : actor[a].dir = b => actor[a].doing # "writing"
Started(b) == \E f \in File : disk[b][f] # None
Stands ==
    \A b \in DOMAIN disk : Started(b) /\ Quiet(b) /\ b \notin unsure =>
        Verifies(b, [i \in 1..Len(VerifyOrder) |-> disk[b][VerifyOrder[i]]])

\* What a load hands over after verifying is the bundle the directory is named after,
\* with the trust its sources earn, unless a file was replaced between the two; and an
\* agent of it blocks capabilities only of a bundle whose trust says so
\* (load_bundle, assess_runtime).
Trusted ==
    \A a \in Actor :
        LET seen(i) == TextOf(actor[a].seen[i], LoadOrder[i])
            status == seen(5).trust.status
        IN actor[a].doing = "loaded" /\ actor[a].at = 1 /\ actor[a].sure =>
             /\ \A i \in 1..Len(LoadOrder) : seen(i) = TextOf(actor[a].dir, LoadOrder[i])
             /\ Blocked(seen(2), seen(3), status) # {} => status \in {"unverified", "invalid"}

BundlesHold == (acts = 0 => OrderFree) /\ Stands /\ Trusted
================================================================================
