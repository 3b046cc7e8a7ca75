---------------------------- MODULE SqliteMigrations ----------------------------
(***************************************************************************)
(* Opening the SQLite stores of one database file (store/_sqlite_base.py).    *)
(* Each store has a version table and a list of migrations of its own; the    *)
(* recorded version is read before any transaction begins, and a migration is *)
(* one transaction: it creates tables that must not exist, and records its    *)
(* version.  SQLite lets one connection write at a time, and what a           *)
(* transaction wrote is seen by the others when it commits.                  *)
(***************************************************************************)
EXTENDS Integers, FiniteSets, FiniteSetsExt

CONSTANTS Opener,    \* connections, each of a thread or a process
          Store,     \* event log, facts, episodes
          StoreOf,   \* Opener -> Store
          Migrations, \* the number of migrations of a store
          None

VARIABLES tables,    \* store -> the migrations whose tables exist
          recorded,  \* store -> the versions in its version table, or None without one
          writing,   \* the connection in a write transaction, or None
          opener,    \* opener -> where apply_migrations stands, and the next migration
          beside     \* history: openers that were not alone on the file

vars == <<tables, recorded, writing, opener, beside>>

Init == /\ tables = [s \in Store |-> {}]
        /\ recorded = [s \in Store |-> None]
        /\ writing = None
        /\ opener = [p \in Opener |-> [at |-> "closed", next |-> 0]]
        /\ beside = {}

At(p, a) == opener[p].at = a
Goes(p, a, n) == opener' = [opener EXCEPT ![p] = [at |-> a, next |-> n]]
Busy == {p \in Opener : opener[p].at \in {"create", "read", "migrate", "commit"}}

Open(p) == /\ At(p, "closed")
           /\ Goes(p, "create", 0)
           /\ beside' = IF Busy = {} THEN beside ELSE beside \cup Busy \cup {p}
           /\ UNCHANGED <<tables, recorded, writing>>

\* CREATE TABLE IF NOT EXISTS writes only when there is none.
CreateVersionTable(p) ==
    LET s == StoreOf[p]
    IN /\ At(p, "create")
       /\ writing = None \/ recorded[s] # None
       /\ recorded' = IF recorded[s] = None THEN [recorded EXCEPT ![s] = {}] ELSE recorded
       /\ Goes(p, "read", 0)
       /\ UNCHANGED <<tables, writing, beside>>

\* Missing: the migrations above the highest version recorded.
ReadVersion_NullIsZero(p) ==
    /\ At(p, "read")
    /\ LET n == Max(recorded[StoreOf[p]] \cup {0}) + 1
       IN Goes(p, IF n = Migrations THEN "open" ELSE "migrate", n)
    /\ UNCHANGED <<tables, recorded, writing, beside>>
ReadVersion(p) ==
    /\ At(p, "read")
    /\ LET n == Max(recorded[StoreOf[p]] \cup {-1}) + 1
       IN Goes(p, IF n = Migrations THEN "open" ELSE "migrate", n)
    /\ UNCHANGED <<tables, recorded, writing, beside>>

\* BEGIN and the migration: it fails on tables that exist.
Migrate(p) ==
    LET s == StoreOf[p]
    IN /\ At(p, "migrate") /\ writing = None
       /\ IF opener[p].next \in tables[s]
          THEN Goes(p, "failed", 0) /\ UNCHANGED writing
          ELSE Goes(p, "commit", opener[p].next) /\ writing' = p
       /\ UNCHANGED <<tables, recorded, beside>>

\* The INSERT of the version, and COMMIT.
Commit(p) ==
    LET s == StoreOf[p]
        n == opener[p].next
    IN /\ At(p, "commit")
       /\ tables' = [tables EXCEPT ![s] = @ \cup {n}]
       /\ recorded' = [recorded EXCEPT ![s] = @ \cup {n}]
       /\ writing' = None
       /\ Goes(p, IF n + 1 = Migrations THEN "open" ELSE "migrate", n + 1)
       /\ UNCHANGED beside

\* Another connection held the file for longer than the busy timeout.
LockedOut(p) == /\ At(p, "create") \/ At(p, "migrate")
                /\ writing # None
                /\ Goes(p, "failed", 0)
                /\ UNCHANGED <<tables, recorded, writing, beside>>

\* A crash rolls back; a failed open may be tried again, an open store closed.
Leave(p) == /\ ~At(p, "closed")
            /\ Goes(p, "closed", 0)
            /\ writing' = IF writing = p THEN None ELSE writing
            /\ beside' = beside \ {p}
            /\ UNCHANGED <<tables, recorded>>

Next == \E p \in Opener : \/ Open(p) \/ CreateVersionTable(p) \/ ReadVersion(p)
                          \/ Migrate(p) \/ Commit(p) \/ LockedOut(p) \/ Leave(p)

Spec == Init /\ [][Next]_vars

\* A connection is of one store; no version table is no set of versions.
SchemaConstants == /\ Migrations \in Nat
                   /\ StoreOf \in [Opener -> Store]
                   /\ None \notin Opener \cup {0..(n - 1) : n \in 0..Migrations}

--------------------------------------------------------------------------------
\* Whatever opens race and die: the version table tells exactly which migrations
\* were applied, none is skipped, a store that opens has them all, and an open
\* fails only because of another one beside it (apply_migrations).
SchemaWhole ==
    /\ \A s \in Store : \E n \in 0..Migrations :
          /\ tables[s] = 0..(n - 1)
          /\ recorded[s] = tables[s] \/ (recorded[s] = None /\ n = 0)
    /\ \A p \in Opener : At(p, "open") => recorded[StoreOf[p]] = 0..(Migrations - 1)
    /\ \A p \in Opener : At(p, "failed") => p \in beside
================================================================================
