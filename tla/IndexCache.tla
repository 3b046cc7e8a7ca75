------------------------------ MODULE IndexCache ------------------------------
(***************************************************************************)
(* Fitted retrieval indices kept for the next router (RoutingIndexCache and   *)
(* CachedRetriever, routing/index_cache.py): an LRU map in each process over   *)
(* a directory that several processes share, whose files are replaced as a      *)
(* whole and may be damaged, of another version, or lost.                      *)
(*                                                                         *)
(* A fingerprint is a hash of engine and corpus; it is taken to be the pair.   *)
(***************************************************************************)
EXTENDS Integers, Sequences, SequencesExt

CONSTANTS Process,
          Corpus,      \* what routers are fitted to
          Version,     \* codec versions, of which each process has one
          MaxEntries,  \* capacity of the map of a process
          MaxFits,     \* bound on the fits
          None

VARIABLES version,  \* version[p]: the codec of process p
          mem,      \* mem[p]: fingerprints from the least to the most recent one
          held,     \* held[p][f]: what the map has under a fingerprint in mem[p]
          disk,     \* disk[f]: the envelope in a file; None if there is none, or no JSON
          base,     \* base[p]: the index that the retriever of p has, and its codec
          asked,    \* asked[p]: the corpus it was last fitted to
          saving,   \* saving[p]: the fingerprint whose file is still to be replaced
          fits

vars == <<version, mem, held, disk, base, asked, saving, fits>>

\* The index of a corpus in its envelope; that of None is a dict that does not load.
Envelope(v, c) == [version |-> v, of |-> c]

Fingerprint_Coarse(c) == CHOOSE d \in Corpus : TRUE
Fingerprint(c) == c

Init == /\ version \in [Process -> Version]
        /\ mem = [p \in Process |-> << >>]
        /\ held = [p \in Process |-> [f \in Corpus |-> None]]
        /\ disk = [f \in Corpus |-> None]
        /\ base = [p \in Process |-> None]
        /\ asked = [p \in Process |-> None]
        /\ saving = [p \in Process |-> None]
        /\ fits = 0

--------------------------------------------------------------------------------
(* get and put *)

Touched(s, f) == Append(RemoveFirst(s, f), f)
Trimmed(s) == IF Len(s) > MaxEntries THEN SubSeq(s, Len(s) - MaxEntries + 1, Len(s)) ELSE s

\* _remember: the entry is the most recent one, and the oldest ones go.
Remember(p, f, e) ==
    LET kept == Trimmed(Touched(mem[p], f))
    IN  /\ mem' = [mem EXCEPT ![p] = kept]
        /\ held' = [held EXCEPT ![p] = [g \in Corpus |->
                       IF ~Contains(kept, g) THEN None ELSE IF g = f THEN e ELSE held[p][g]]]

\* The map first, then the file.
Found(p, f) == IF Contains(mem[p], f) THEN held[p][f] ELSE disk[f]

Matches_AnyVersion(p, e) == TRUE
Matches(p, e) == e.version = version[p]

Loads(e) == e.of # None

--------------------------------------------------------------------------------
(* CachedRetriever.fit *)

Ask(p, c) == /\ saving[p] = None
             /\ fits < MaxFits /\ fits' = fits + 1
             /\ asked' = [asked EXCEPT ![p] = c]
             /\ UNCHANGED <<version, disk>>

\* Served from the cache
Hit(p, c) == LET e == Found(p, Fingerprint(c))
             IN  /\ Ask(p, c)
                 /\ e # None
                 /\ Matches(p, e) /\ Loads(e)
                 /\ base' = [base EXCEPT ![p] = e]
                 /\ Remember(p, Fingerprint(c), e)
                 /\ UNCHANGED saving

\* A codec that cannot dump the index: what was found stays in the map.
Forgo(p, f, e) == IF e = None THEN UNCHANGED <<mem, held>> ELSE Remember(p, f, e)

\* Fitted anew, and put in the map; the file follows.
Miss(p, c) == LET e == Found(p, Fingerprint(c))
              IN  /\ Ask(p, c)
                  /\ e # None => ~(Matches(p, e) /\ Loads(e))
                  /\ base' = [base EXCEPT ![p] = Envelope(version[p], c)]
                  /\ \/ /\ Remember(p, Fingerprint(c), Envelope(version[p], c))
                        /\ saving' = [saving EXCEPT ![p] = Fingerprint(c)]
                     \/ /\ Forgo(p, Fingerprint(c), e)
                        /\ UNCHANGED saving

\* os.replace, unless the disk is full, or the process dies before it
Replace(p) == /\ saving[p] # None
              /\ disk' = [disk EXCEPT ![saving[p]] = held[p][saving[p]]]
              /\ saving' = [saving EXCEPT ![p] = None]
              /\ UNCHANGED <<version, mem, held, base, asked, fits>>

Skip(p) == /\ saving[p] # None
           /\ saving' = [saving EXCEPT ![p] = None]
           /\ UNCHANGED <<version, mem, held, disk, base, asked, fits>>

\* A process ends, and another one takes its place, perhaps of another release.
Restart(p) == /\ version' \in {[version EXCEPT ![p] = v] : v \in Version}
              /\ mem' = [mem EXCEPT ![p] = << >>]
              /\ held' = [held EXCEPT ![p] = [f \in Corpus |-> None]]
              /\ base' = [base EXCEPT ![p] = None]
              /\ asked' = [asked EXCEPT ![p] = None]
              /\ saving' = [saving EXCEPT ![p] = None]
              /\ UNCHANGED <<disk, fits>>

\* A file is deleted or cut short, or spoilt inside its envelope.
Damage(f) == /\ disk[f] # None
             /\ disk' \in {[disk EXCEPT ![f] = None], [disk EXCEPT ![f].of = None]}
             /\ UNCHANGED <<version, mem, held, base, asked, saving, fits>>

Next == \/ \E p \in Process : \/ \E c \in Corpus : Hit(p, c) \/ Miss(p, c)
                              \/ Replace(p) \/ Skip(p) \/ Restart(p)
        \/ \E f \in Corpus : Damage(f)

Spec == Init /\ [][Next]_vars

CacheConstants == /\ MaxEntries \in Nat
                  /\ None \notin {Envelope(v, c) : v \in Version, c \in Corpus \cup {None}}

--------------------------------------------------------------------------------
\* The map of a process is as long as it may be, and holds what it lists.
Bounded == \A p \in Process : /\ Len(mem[p]) <= MaxEntries
                              /\ \A f \in Corpus : held[p][f] # None <=> Contains(mem[p], f)

\* "Scoring is identical to using base directly": whatever the map and the files
\* hold, a retriever has the index that fitting it to its corpus would give, in
\* the codec of its process (CachedRetriever.fit).
FitsFresh == /\ Bounded
             /\ \A p \in Process : asked[p] # None =>
                    base[p] = Envelope(version[p], asked[p])
================================================================================
