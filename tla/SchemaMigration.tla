--------------------------- MODULE SchemaMigration --------------------------
(***************************************************************************)
(* Processes that start on one database and bring its schema up to date,   *)
(* under one of the three migration managers:                              *)
(*   "versioned"  src/aodsl/schema.py: history read before the lock, one   *)
(*                transaction per migration                                *)
(*   "exclusive"  src/aodsl/exclusive_migration.py: one BEGIN IMMEDIATE    *)
(*                transaction around everything                            *)
(*   "advisory"   src/investment_domain/postgres_migrations.py: one        *)
(*                transaction under an advisory lock, the physical schema  *)
(*                attested before it commits                               *)
(*                                                                         *)
(* Each start is of some release, which knows the migrations up to its own *)
(* version, and of one of two lineages: the canonical one, and one whose   *)
(* checksums differ from AlteredFrom on.  A crash rolls the transaction    *)
(* back.  Programs that are up store edges meanwhile.                      *)
(***************************************************************************)
EXTENDS DomainSchema, FiniteSets

CONSTANTS
  Procs,
  NoProc,
  Managers,      \* the managers that are considered
  Releases,      \* per manager, the versions of the releases in use
  AlteredFrom,   \* the first version whose checksum the altered lineage changes
  MaxCrashes,    \* bound on crashes
  MaxEdges       \* bound on the rows of domain_edges

ASSUME ProcAssumption  == NoProc \notin Procs
ASSUME ReleaseAssumption ==
  \A m \in Managers :
    Releases[m] \subseteq IF m = "advisory" THEN 0 .. CurrentVersion ELSE Nat
ASSUME BoundAssumption == MaxCrashes \in Nat /\ MaxEdges \in Nat

VARIABLES
  manager,   \* the manager class every process uses (never changes)
  history,   \* schema_migrations: the checksums, by version
  physical,  \* the migrations whose statements have taken effect, in order
  drifted,   \* the schema was changed by hand, outside the lineage
  edges,     \* the typed rows of domain_edges
  lock,      \* the process that holds the write or advisory lock
  pc,        \* per process: "down" "reading" "waiting" "migrating" "up" "failed"
  release,   \* per process, max_supported_version = target
  lineage,   \* per process, whether its migrations are the canonical ones
  next,      \* per process, the next migration it will execute
  work,      \* per process, history and physical as its transaction sees them
  error,     \* per process, why its last start failed
  crashes

db      == <<history, physical, drifted, edges>>
process == <<pc, release, lineage, next, work, error>>
vars    == <<manager, db, lock, process, crashes>>

Checksum(p, v) == IF lineage[p] = "altered" /\ v >= AlteredFrom
                  THEN <<v, "altered">> ELSE <<v, "canonical">>
Canonical(p) == lineage[p] = "canonical"

Statuses == {"down", "reading", "waiting", "migrating", "up", "failed"}
Errors   == {"", "newer", "checksum", "locked", "exists",
             "physical", "rows"}

Init ==
  /\ manager \in Managers
  /\ history = <<>> /\ physical = <<>> /\ drifted = FALSE /\ edges = {}
  /\ lock = NoProc /\ crashes = 0
  /\ pc = [p \in Procs |-> "down"]
  /\ release = [p \in Procs |-> 0]
  /\ lineage = [p \in Procs |-> "canonical"]
  /\ next = [p \in Procs |-> 0]
  /\ work = [p \in Procs |-> [history |-> <<>>, physical |-> <<>>]]
  /\ error = [p \in Procs |-> ""]

-----------------------------------------------------------------------------
Idle == [history |-> <<>>, physical |-> <<>>]

\* p stops running, as status says: its transaction, if any, rolls back and
\* its lock is released.
Leaves(p, status) ==
  /\ pc' = [pc EXCEPT ![p] = status]
  /\ release' = [release EXCEPT ![p] = 0]
  /\ lineage' = [lineage EXCEPT ![p] = "canonical"]
  /\ next' = [next EXCEPT ![p] = 0]
  /\ work' = [work EXCEPT ![p] = Idle]
  /\ lock' = IF lock = p THEN NoProc ELSE lock

\* An exception leaves migrate.
Fails(p, why) ==
  /\ Leaves(p, "failed")
  /\ error' = [error EXCEPT ![p] = why]
  /\ UNCHANGED <<manager, db, crashes>>

\* A plausible bug: only the number of migrations is compared.
FaultyVerdict(p, h) == IF Len(h) > release[p] THEN "newer" ELSE ""

\* What validating the history h says: "" lets the process go on.
Verdict(p, h) ==
  IF Len(h) > release[p] THEN "newer"
  ELSE IF \E v \in 1 .. Len(h) : h[v] # Checksum(p, v) THEN "checksum"
  ELSE ""

Start(p) ==
  /\ pc[p] \in {"down", "failed"}
  /\ \E r \in Releases[manager], l \in {"canonical", "altered"} :
       /\ release' = [release EXCEPT ![p] = r]
       /\ lineage' = [lineage EXCEPT ![p] = l]
  /\ pc' = [pc EXCEPT ![p] = IF manager = "versioned" THEN "reading"
                             ELSE "waiting"]
  /\ error' = [error EXCEPT ![p] = ""]
  /\ UNCHANGED <<manager, db, lock, next, work, crashes>>

Stop(p) ==
  /\ pc[p] = "up"
  /\ Leaves(p, "down")
  /\ UNCHANGED <<manager, db, error, crashes>>

\* VersionedMigrationManager: the history, read and validated with no lock.
ReadHistory(p) ==
  /\ pc[p] = "reading"
  /\ IF Verdict(p, history) # ""
     THEN Fails(p, Verdict(p, history))
     ELSE /\ next' = [next EXCEPT ![p] = Len(history) + 1]
          /\ pc' = [pc EXCEPT ![p] = IF Len(history) < release[p]
                                     THEN "waiting" ELSE "up"]
          /\ UNCHANGED <<manager, db, lock, release, lineage, work, error,
                         crashes>>

\* A plausible bug: the history is validated and the pending migrations are
\* chosen before the lock is waited for.
FaultyAcquire(p) ==
  /\ pc[p] = "waiting"
  /\ IF next[p] = 0
     THEN /\ next' = [next EXCEPT ![p] = Len(history) + 1]
          /\ UNCHANGED <<manager, db, lock, pc, release, lineage, work, error,
                         crashes>>
     ELSE /\ lock = NoProc
          /\ lock' = p
          /\ pc' = [pc EXCEPT ![p] = "migrating"]
          /\ work' = [work EXCEPT ![p] = [history |-> history,
                                          physical |-> physical]]
          /\ UNCHANGED <<manager, db, release, lineage, next, error, crashes>>

\* The write or the advisory lock is granted.  The versioned manager goes by
\* the history it read before; the others read and validate it now.
Acquire(p) ==
  /\ pc[p] = "waiting" /\ lock = NoProc
  /\ IF manager # "versioned" /\ Verdict(p, history) # ""
     THEN Fails(p, Verdict(p, history))
     ELSE /\ lock' = p
          /\ pc' = [pc EXCEPT ![p] = "migrating"]
          /\ work' = [work EXCEPT ![p] = [history |-> history,
                                          physical |-> physical]]
          /\ next' = [next EXCEPT ![p] = IF manager = "versioned" THEN @
                                         ELSE Len(history) + 1]
          /\ UNCHANGED <<manager, db, release, lineage, error, crashes>>

\* busy_timeout or lock_timeout ends the wait.
LockTimeout(p) ==
  /\ pc[p] = "waiting" /\ lock # NoProc
  /\ Fails(p, "locked")

\* The migrations one transaction applies.
Pending(p) == IF manager = "versioned" THEN {next[p]} ELSE next[p] .. release[p]

\* Whether migration v cannot run on what is there: its statements, or at the
\* latest the primary key of schema_migrations, refuse a second execution.
Collides(p, v) == \E i \in DOMAIN work[p].physical : work[p].physical[i][1] = v
RowsRefuse(v) == /\ manager = "advisory"
                 /\ \E e \in edges : ~Fits(Surface[v], e)

\* What the pending migrations append to a log.
Applied(p, log) ==
  log \o [i \in 1 .. Cardinality(Pending(p)) |-> Checksum(p, next[p] + i - 1)]

\* A plausible bug: the DDL is not part of the transaction.
FaultyExecute(p) ==
  /\ pc[p] = "migrating" /\ work[p].history = history
  /\ IF \E v \in Pending(p) : Collides(p, v) THEN Fails(p, "exists")
     ELSE /\ work' = [work EXCEPT ![p].physical = Applied(p, @),
                                  ![p].history = Applied(p, @)]
          /\ physical' = Applied(p, physical)
          /\ next' = [next EXCEPT ![p] = @ + Cardinality(Pending(p))]
          /\ Pending(p) # {}
          /\ UNCHANGED <<manager, history, drifted, edges, lock, pc, release,
                         lineage, error, crashes>>

\* The statements of the pending migrations and their rows of
\* schema_migrations, inside the transaction.
Execute(p) ==
  /\ pc[p] = "migrating" /\ work[p].history = history
  /\ IF \E v \in Pending(p) : Collides(p, v) THEN Fails(p, "exists")
     ELSE IF \E v \in Pending(p) : RowsRefuse(v) THEN Fails(p, "rows")
     ELSE /\ work' = [work EXCEPT ![p].physical = Applied(p, @),
                                  ![p].history = Applied(p, @)]
          /\ next' = [next EXCEPT ![p] = @ + Cardinality(Pending(p))]
          /\ Pending(p) # {}
          /\ UNCHANGED <<manager, db, lock, pc, release, lineage, error,
                         crashes>>

\* _validate_physical_schema, for the canonical lineage at its last version.
Attested(p) ==
  \/ manager # "advisory" \/ ~Canonical(p) \/ release[p] # CurrentVersion
  \/ ~drifted /\ AsExpected(Surface[Len(work[p].physical)])

\* The transaction commits: after each migration of the versioned manager,
\* which then goes on to the next one; after all of them otherwise.
Commit(p) ==
  /\ pc[p] = "migrating"
  /\ IF manager = "versioned" THEN work[p].history # history
     ELSE next[p] > release[p]
  /\ IF ~Attested(p) THEN Fails(p, "physical")
     ELSE /\ history' = work[p].history
          /\ physical' = work[p].physical
          /\ lock' = NoProc
          /\ work' = [work EXCEPT ![p] = Idle]
          /\ pc' = [pc EXCEPT ![p] = IF next[p] > release[p] THEN "up"
                                     ELSE "waiting"]
          /\ UNCHANGED <<manager, drifted, edges, release, lineage, next,
                         error, crashes>>

Crash(p) ==
  /\ pc[p] \notin {"down", "failed"} /\ crashes < MaxCrashes
  /\ crashes' = crashes + 1
  /\ Leaves(p, "down")
  /\ UNCHANGED <<manager, db, error>>

\* A program that is up stores an edge: one the programs of its release write,
\* if the schema takes it.
StoreEdge(p) ==
  /\ manager = "advisory" /\ pc[p] = "up" /\ Canonical(p)
  /\ Cardinality(edges) < MaxEdges
  /\ lock = NoProc
  /\ \E e \in Writes[release[p]] :
       /\ Accepts(Surface[Len(physical)], release[p], e)
       /\ edges' = edges \cup {e}
  /\ UNCHANGED <<manager, history, physical, drifted, lock, process, crashes>>

\* Someone alters the schema by hand.
Drift ==
  /\ manager = "advisory" /\ ~drifted /\ lock = NoProc
  /\ Len(physical) = CurrentVersion
  /\ drifted' = TRUE
  /\ UNCHANGED <<manager, history, physical, edges, lock, process, crashes>>

Step(p) == ReadHistory(p) \/ Acquire(p) \/ LockTimeout(p) \/ Execute(p)
           \/ Commit(p)
Next == \/ Drift
        \/ \E p \in Procs : Start(p) \/ Stop(p) \/ Crash(p) \/ StoreEdge(p)
                            \/ Step(p)

Spec == Init /\ [][Next]_vars

-----------------------------------------------------------------------------
\* The recorded history is exactly what has been executed, each migration
\* once and in order, whatever crashes in between (INV-038, INV-039).
HistoryIsSchema ==
  /\ history = physical
  /\ \A i \in DOMAIN physical : physical[i][1] = i

\* No database mixes the migrations of two lineages, although the versioned
\* manager validates a history that others extend before it writes (INV-040).
OneLineage ==
  \E l \in {"canonical", "altered"} : \A v \in DOMAIN history :
    history[v] = IF l = "altered" /\ v >= AlteredFrom THEN <<v, "altered">>
                 ELSE <<v, "canonical">>

\* Under the managers that own the migration exclusively, a start that loses
\* the race never runs what the winner has committed: it fails only because
\* it waited too long or does not fit the database (INV-044).
LosersOnlyValidate ==
  manager # "versioned" =>
    \A p \in Procs : /\ error[p] # "exists"
                     /\ pc[p] = "migrating" => next[p] > Len(history)

\* No stored row ever makes a migration fail: whatever a program of any
\* release has stored, every CHECK list still to come accepts it.
RowsFitEveryLaterSchema ==
  /\ \A e \in edges : \A v \in Len(physical) .. CurrentVersion :
       Fits(Surface[v], e)
  /\ \A p \in Procs : error[p] # "rows"

\* A program that is up and of release 3 or later can still store, after a
\* newer one has migrated the database under it, all it could before.  Those of
\* releases 1 and 2 can store nothing any more, and never an edge without its
\* time or its types: migrations 2 and 3 add columns that they do not name.
TypedEdges == 3
OldReleasesKeepWriting ==
  manager = "advisory" =>
    \A p \in Procs : pc[p] = "up" =>
      \A e \in Writes[release[p]] :
        Accepts(Surface[Len(physical)], release[p], e)
        <=> (release[p] >= TypedEdges \/ release[p] = Len(physical))

=============================================================================
