---------------------------- MODULE ServiceStart ----------------------------
(***************************************************************************)
(* How a process comes up, as far as the database is concerned: main.ts's  *)
(* bootstrap creates AppModule, whose DatabaseModule first creates the     *)
(* database if DB_AUTO_CREATE says so, then connects and runs the pending  *)
(* migrations. Nothing is locked, and two pods may come up at once.        *)
(*                                                                         *)
(* What rejects ends the process, save that TypeOrmModule tries to connect *)
(* and migrate again after a while.                                        *)
(***************************************************************************)
CONSTANTS
    Pods,
    AutoCreate  \* DB_AUTO_CREATE = 'true'

VARIABLES
    pod,        \* each pod's process: down, one of Starting, or as its user says
    database    \* absent, empty or migrated

Starting == {"creating", "connecting", "migrating", "ready"}

Init ==
    /\ pod = [p \in Pods |-> "down"]
    /\ database \in {"empty", "migrated"} \cup {d \in {"absent"} : AutoCreate}

Goes(p, stage) == pod' = [pod EXCEPT ![p] = stage]

\* ensureDatabaseExistsFromEnv looks into pg_database.
Launch(p) ==
    /\ pod[p] = "down"
    /\ Goes(p, IF AutoCreate /\ database = "absent" THEN "creating" ELSE "connecting")
    /\ UNCHANGED database

\* CREATE DATABASE fails if another pod was faster, and with it the bootstrap.
CreateDatabase(p) ==
    /\ pod[p] = "creating"
    /\ \/ database = "absent" /\ database' = "empty" /\ Goes(p, "connecting")
       \/ database # "absent" /\ UNCHANGED database /\ Goes(p, "down")

\* The table of executed migrations tells whether CreateInvoicesTables is one.
Connect(p) ==
    /\ pod[p] = "connecting"
    /\ Goes(p, IF database = "migrated" THEN "ready" ELSE "migrating")
    /\ UNCHANGED database

\* Deviation: a pod waits while another one migrates.
MigrateAlone(p) ==
    /\ pod[p] = "migrating"
    /\ \A q \in Pods \ {p} : pod[q] # "migrating"
    /\ database' = "migrated"
    /\ Goes(p, "ready")

\* `up` runs in one transaction. If another pod's has committed meanwhile, its
\* statements find everything there, or they clashed and are tried again.
Migrate(p) ==
    /\ pod[p] = "migrating"
    /\ \/ database' = "migrated" /\ Goes(p, "ready")
       \/ database = "migrated" /\ UNCHANGED database /\ Goes(p, "connecting")

Boot(p) == Launch(p) \/ CreateDatabase(p) \/ Connect(p) \/ Migrate(p)

=============================================================================
