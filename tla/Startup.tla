------------------------------- MODULE Startup -------------------------------
(***************************************************************************)
(* How containers start (docker/entrypoint.sh, scripts/migrate.py,         *)
(* api/main.py:40-62, worker/main.py:25-29): an API container migrates the *)
(* schema and then boots several processes, each of which looks for the    *)
(* bucket and the two collections and creates what it does not find; a     *)
(* worker container only looks for the collections.  Several containers    *)
(* start at once, one that fails is started again.                         *)
(*                                                                         *)
(* Alembic, gunicorn and Docker are external: a migration is one           *)
(* transaction and takes no lock of its own, a process that fails to boot  *)
(* stops its container, and Docker restarts it.                            *)
(***************************************************************************)
EXTENDS Integers, FiniteSets

CONSTANTS
  ApiContainers,     \* replicas of the api service
  WorkerContainers,  \* replicas of the worker service
  Boots,             \* <<container, n>>: its processes, WEB_CONCURRENCY of an API
                     \* container, one of a worker
  MaxStartFaults     \* bound: containers that die, calls that raise

ASSUME StartupAssumption ==
  /\ MaxStartFaults \in Nat
  /\ ApiContainers \cap WorkerContainers = {}
  /\ Boots \subseteq (ApiContainers \cup WorkerContainers) \X Nat

Containers == ApiContainers \cup WorkerContainers

\* ensure_collections goes through the collections in this order.
Collections == <<"documents", "memory">>

VARIABLES
  schema,      \* the tables and alembic_version are committed
  applied,     \* migrations committed so far (history)
  bucket,      \* the bucket exists
  collections, \* collections that exist
  indexes,     \* collections that have their payload indexes
  cpc,         \* where each container is
  ppc,         \* where each process is
  nth,         \* the collection it is at
  swallowed,   \* an index was not created and the error was swallowed
  startFaults  \* faults so far (bounded by MaxStartFaults)

stores == <<schema, applied, bucket, collections, indexes>>
startupVars == <<stores, cpc, ppc, nth, swallowed, startFaults>>

StartupTypeOK ==
  /\ schema \in BOOLEAN /\ applied \in Nat /\ bucket \in BOOLEAN
  /\ collections \in SUBSET {"documents", "memory"}
  /\ indexes \in SUBSET {"documents", "memory"}
  /\ cpc \in [Containers -> {"start", "upgrade", "commit", "booted", "down"}]
  /\ ppc \in [Boots -> {"off", "bucket", "make", "look", "create", "index", "serving"}]
  /\ nth \in [Boots -> 1 .. 2]
  /\ swallowed \in BOOLEAN
  /\ startFaults \in 0 .. MaxStartFaults

StartupInit ==
  /\ schema = FALSE /\ applied = 0 /\ bucket = FALSE
  /\ collections = {} /\ indexes = {}
  /\ cpc = [c \in Containers |-> "start"]
  /\ ppc = [p \in Boots |-> "off"]
  /\ nth = [p \in Boots |-> 1]
  /\ swallowed = FALSE /\ startFaults = 0

To(c, place) == cpc' = [cpc EXCEPT ![c] = place]

\* The processes of c begin to boot, or all stop.
AllOf(c, place) == ppc' = [p \in Boots |-> IF p[1] = c THEN place ELSE ppc[p]]
FirstOf(c) == nth' = [p \in Boots |-> IF p[1] = c THEN 1 ELSE nth[p]]

Boot(c) ==
  /\ To(c, "booted") /\ AllOf(c, IF c \in ApiContainers THEN "bucket" ELSE "look")
  /\ UNCHANGED nth

Down(c) == To(c, "down") /\ AllOf(c, "off") /\ FirstOf(c)

\* An API container reads alembic_version; at head there is nothing to do.
ReadVersion(c) ==
  /\ cpc[c] = "start" /\ c \in ApiContainers
  /\ \/ schema /\ Boot(c)
     \/ ~schema /\ To(c, "upgrade") /\ UNCHANGED <<ppc, nth>>
  /\ UNCHANGED <<stores, swallowed, startFaults>>

StartWorker(c) ==
  /\ cpc[c] = "start" /\ c \in WorkerContainers
  /\ Boot(c)
  /\ UNCHANGED <<stores, swallowed, startFaults>>

\* CREATE TABLE waits for an open transaction that creates the same table.
NobodyUpgrades == \A d \in ApiContainers : cpc[d] # "commit"

\* Mutant of Upgrade: what exists is not created again and raises no error.
UpgradeAgain(c) ==
  /\ cpc[c] = "upgrade" /\ NobodyUpgrades
  /\ To(c, "commit")
  /\ UNCHANGED <<stores, ppc, nth, swallowed, startFaults>>

Upgrade(c) ==
  /\ cpc[c] = "upgrade" /\ NobodyUpgrades /\ ~schema
  /\ To(c, "commit")
  /\ UNCHANGED <<stores, ppc, nth, swallowed, startFaults>>

\* It raises when the other transaction has committed: the entrypoint exits with 1.
UpgradeConflict(c) ==
  /\ cpc[c] = "upgrade" /\ NobodyUpgrades /\ schema
  /\ Down(c)
  /\ UNCHANGED <<stores, swallowed, startFaults>>

CommitUpgrade(c) ==
  /\ cpc[c] = "commit"
  /\ schema' = TRUE /\ applied' = applied + 1
  /\ Boot(c)
  /\ UNCHANGED <<bucket, collections, indexes, swallowed, startFaults>>

Goes(p, here, there) == ppc[p] = here /\ ppc' = [ppc EXCEPT ![p] = there]

CheckBucket(p) ==
  /\ Goes(p, "bucket", IF bucket THEN "look" ELSE "make")
  /\ UNCHANGED <<stores, cpc, nth, swallowed, startFaults>>

\* make_bucket raises when another process was faster.
MakeBucket(p) ==
  /\ ppc[p] = "make"
  /\ \/ ~bucket /\ bucket' = TRUE /\ Goes(p, "make", "look") /\ UNCHANGED <<cpc, nth>>
     \/ bucket /\ Down(p[1]) /\ UNCHANGED bucket
  /\ UNCHANGED <<schema, applied, collections, indexes, swallowed, startFaults>>

At(p) == Collections[nth[p]]

\* Mutant of LookForCollection: it does not look.
CreateAlways(p) ==
  /\ Goes(p, "look", "create")
  /\ UNCHANGED <<stores, cpc, nth, swallowed, startFaults>>

LookForCollection(p) ==
  /\ Goes(p, "look", IF At(p) \in collections THEN "index" ELSE "create")
  /\ UNCHANGED <<stores, cpc, nth, swallowed, startFaults>>

\* Mutant of CreateCollection: the error of a lost race is swallowed and the
\* collections that follow are left out.
CreateOrServe(p) ==
  /\ ppc[p] = "create"
  /\ IF At(p) \in collections
       THEN Goes(p, "create", "serving") /\ UNCHANGED collections
       ELSE Goes(p, "create", "index") /\ collections' = collections \cup {At(p)}
  /\ UNCHANGED <<schema, applied, bucket, indexes, cpc, nth, swallowed, startFaults>>

CreateCollection(p) ==
  /\ ppc[p] = "create"
  /\ \/ /\ At(p) \notin collections /\ collections' = collections \cup {At(p)}
        /\ Goes(p, "create", "index") /\ UNCHANGED <<cpc, nth>>
     \/ At(p) \in collections /\ Down(p[1]) /\ UNCHANGED collections
  /\ UNCHANGED <<schema, applied, bucket, indexes, swallowed, startFaults>>

\* The three create_payload_index calls, then the next collection or the end.
IndexCollection(p) ==
  /\ Goes(p, "index", IF nth[p] = 1 THEN "look" ELSE "serving")
  /\ nth' = [nth EXCEPT ![p] = 2]
  /\ \/ indexes' = indexes \cup {At(p)} /\ UNCHANGED <<swallowed, startFaults>>
     \/ /\ startFaults < MaxStartFaults /\ startFaults' = startFaults + 1
        /\ swallowed' = TRUE /\ UNCHANGED indexes
  /\ UNCHANGED <<schema, applied, bucket, collections, cpc>>

\* Any call raises, or the container dies, also after it has served.
ContainerDies(c) ==
  /\ cpc[c] # "down"
  /\ startFaults < MaxStartFaults /\ startFaults' = startFaults + 1
  /\ Down(c)
  /\ UNCHANGED <<stores, swallowed>>

\* restart: unless-stopped
Restart(c) ==
  /\ cpc[c] = "down"
  /\ To(c, "start")
  /\ UNCHANGED <<stores, ppc, nth, swallowed, startFaults>>

\* The minio-init service of docker-compose.yml creates the bucket as well.
InitMinio ==
  /\ ~bucket /\ bucket' = TRUE
  /\ UNCHANGED <<schema, applied, collections, indexes, cpc, ppc, nth, swallowed, startFaults>>

ContainerStep(c) ==
  \/ ReadVersion(c) \/ StartWorker(c) \/ Upgrade(c) \/ UpgradeConflict(c)
  \/ CommitUpgrade(c) \/ Restart(c)

BootStep(p) ==
  \/ CheckBucket(p) \/ MakeBucket(p) \/ LookForCollection(p)
  \/ CreateCollection(p) \/ IndexCollection(p)

StartupNext ==
  \/ InitMinio
  \/ \E c \in Containers : ContainerStep(c) \/ ContainerDies(c)
  \/ \E p \in Boots : BootStep(p)

StartupSpec == StartupInit /\ [][StartupNext]_startupVars

-----------------------------------------------------------------------------
\* A process serves, or takes jobs, only over complete stores: both collections
\* exist, with their payload indexes unless creating one failed, and for an API
\* process the schema and the bucket as well (main.py:49-51, qdrant.py:51-84).
ServingIsReady ==
  \A p \in Boots : ppc[p] = "serving" =>
    /\ collections = {"documents", "memory"}
    /\ swallowed \/ indexes = collections
    /\ p[1] \in ApiContainers => schema /\ bucket

\* However many containers find no schema, and although nothing locks them
\* out, the migration is committed once (migrate.py:16-24).
MigratedOnce == applied = IF schema THEN 1 ELSE 0

\* Lost races and faults only delay: in the end every process of every container
\* serves and goes on serving (migrate.py:22-24, minio.py:44-45,
\* qdrant.py:52-55, the entrypoint's exit and the restart policy).
AllServe == <>[](\A p \in Boots : ppc[p] = "serving")
=============================================================================
