------------------------- MODULE PostgresMigrations -------------------------
(***************************************************************************)
(* The schema migrations every replica runs when it starts                 *)
(* (runPostgresMigrations): under an advisory lock of its session, each    *)
(* migration and its row in one transaction.                               *)
(*                                                                         *)
(* A release brings a sequence of migrations; the table holds, in the      *)
(* order of their versions, the checksums of those that have been applied. *)
(* A session whose client has gone, or whose connection was discarded, is  *)
(* "lost" until the database ends it: it may still hold the lock.          *)
(***************************************************************************)
EXTENDS Integers, Sequences

CONSTANTS
    Replica,        \* Processes of the API.
    Releases,       \* Releases that may run.
    Files,          \* The checksums of every release's migrations.
    Nobody

Checksum == UNION {{Files[rel][v] : v \in 1..Len(Files[rel])} : rel \in Releases}

ASSUME MigrationAssumption ==
    /\ \A rel \in Releases : Files[rel] \in Seq(Checksum) /\ Len(Files[rel]) > 0
    /\ Nobody \notin Replica /\ "lost" \notin Replica

VARIABLES
    applied,        \* The table: checksums in the order of their versions.
    lock,           \* The session that holds the advisory lock.
    release,        \* The release every replica runs.
    migrator,       \* Where every replica is with its migrations.
    faults          \* How many calls may still fail.

databaseVars == <<applied, lock>>
migrationVars == <<applied, lock, release, migrator>>

(* seen: how many rows it read. running: the version of its transaction.   *)
(* result: what the run ends with, once the lock is back.                  *)
NoMigrator == [at |-> "idle", seen |-> 0, running |-> 0, result |-> "none"]

MigrationTypeOK ==
    /\ applied \in Seq(Checksum)
    /\ lock \in Replica \cup {Nobody, "lost"}
    /\ release \in [Replica -> Releases]
    /\ migrator \in [Replica -> [
          at: {"idle", "locking", "reading", "running", "committing", "unlocking", "ended"},
          seen: Nat, running: Nat,
          result: {"none", "applied", "failed"}]]
    /\ faults \in Nat

MigrationInit ==
    /\ applied = <<>> /\ lock = Nobody
    /\ migrator = [n \in Replica |-> NoMigrator]

files(n) == Files[release[n]]
goesTo(n, step) == migrator' = [migrator EXCEPT ![n].at = step]
fault == faults > 0 /\ faults' = faults - 1

\* The error is thrown once the lock is back.
throws(n) == migrator' = [migrator EXCEPT ![n].at = "unlocking", ![n].result = "failed"]

-----------------------------------------------------------------------------
\* Mutant: the answer that somebody else holds the lock is ignored.
LockAnsweredAtOnce(n) ==
    /\ migrator[n].at = "locking"
    /\ lock' = (IF lock = Nobody THEN n ELSE lock)
    /\ goesTo(n, "reading")
    /\ UNCHANGED <<applied, release, faults>>

LockAnswered(n) ==
    /\ migrator[n].at = "locking"
    /\ \/ /\ lock = Nobody /\ lock' = n
          /\ goesTo(n, "reading") /\ UNCHANGED faults
       \/ /\ fault /\ lock' \in {lock, IF lock = Nobody THEN "lost" ELSE lock}
          /\ migrator' = [migrator EXCEPT ![n].at = "ended", ![n].result = "failed"]
    /\ UNCHANGED <<applied, release>>

(* A row this release has no file for, or another file, is an error.       *)
foreign(n) ==
    ~ \A v \in 1..Len(applied) : v <= Len(files(n)) /\ files(n)[v] = applied[v]

ReadRows(n) ==
    /\ migrator[n].at = "reading"
    /\ \/ foreign(n) /\ throws(n) /\ UNCHANGED faults
       \/ /\ ~foreign(n) /\ UNCHANGED faults
          /\ migrator' = [migrator EXCEPT ![n].at = "running", ![n].seen = Len(applied),
                                          ![n].running = Len(applied) + 1]
       \/ fault /\ throws(n)
    /\ UNCHANGED <<applied, lock, release>>

(* The statements of the next migration run in its transaction.            *)
RunNext(n) ==
    /\ migrator[n].at = "running"
    /\ \/ /\ migrator[n].running > Len(files(n)) /\ UNCHANGED faults
          /\ migrator' = [migrator EXCEPT ![n].at = "unlocking", ![n].result = "applied"]
       \/ /\ migrator[n].running <= Len(files(n)) /\ UNCHANGED faults
          /\ goesTo(n, "committing")
       \/ /\ migrator[n].running <= Len(files(n)) /\ fault
          /\ throws(n)
    /\ UNCHANGED <<applied, lock, release>>

commits(n) == applied' = Append(applied, files(n)[migrator[n].running])

\* Mutant: the connection returns to the pool with its session and its lock.
discardedToPool(n) == lock' = lock

\* The connection is discarded, and with it the lock of its session.
discarded(n) == lock' = IF lock = n THEN "lost" ELSE lock

(* The key of the table refuses a version that is already there. When the  *)
(* answer is lost nobody knows whether the transaction took effect.        *)
CommitAnswered(n) ==
    LET free == Len(applied) = migrator[n].running - 1
    IN  /\ migrator[n].at = "committing"
        /\ \/ /\ IF free
                 THEN /\ commits(n)
                      /\ migrator' = [migrator EXCEPT ![n].at = "running", ![n].running = @ + 1]
                 ELSE throws(n) /\ UNCHANGED applied
              /\ UNCHANGED <<lock, faults>>
           \/ /\ fault /\ ((free /\ commits(n)) \/ UNCHANGED applied)
              /\ discarded(n)
              /\ migrator' = [migrator EXCEPT ![n].at = "ended", ![n].result = "failed"]
    /\ UNCHANGED release

(* A connection that could not unlock is not given back to the pool.       *)
Unlock(n) ==
    /\ migrator[n].at = "unlocking"
    /\ goesTo(n, "ended")
    /\ \/ lock' = (IF lock = n THEN Nobody ELSE lock) /\ UNCHANGED faults
       \/ fault /\ discarded(n)
    /\ UNCHANGED <<applied, release>>

(* The database notices that the client of a session has gone.             *)
LostSessionEnds ==
    /\ lock = "lost" /\ lock' = Nobody
    /\ UNCHANGED <<applied, release, migrator, faults>>

(* The process dies: a transaction being committed may yet take effect.    *)
migratorDies(n) ==
    /\ discarded(n)
    /\ \/ UNCHANGED applied
       \/ /\ migrator[n].at = "committing" /\ Len(applied) = migrator[n].running - 1
          /\ commits(n)

MigrationStep(n) == LockAnswered(n) \/ ReadRows(n) \/ RunNext(n) \/ CommitAnswered(n) \/ Unlock(n)
=============================================================================
