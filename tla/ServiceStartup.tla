---------------------------- MODULE ServiceStartup ----------------------------
(* How the two services start: each opens the platform state, migrating it under *)
(* an advisory lock in one transaction; the orchestration service then makes     *)
(* sure of its two Temporal schedules before its worker runs; then they serve.   *)
(* A failing call ends the process, and Kubernetes starts it again, perhaps from *)
(* another release.  Migrations are numbered by their place in the list.         *)
EXTENDS Naturals, Sequences

CONSTANTS Pods,            \* processes of both services
          Orchestrators,   \* those of the orchestration service
          Releases,        \* see SchemaRegistry
          Schedules,       \* the ids of its schedules, in order
          NoPod,
          MaxFailures,     \* bound: processes that end while they start or serve
          MaxDeploys       \* bound: pods restarted from another release

ASSUME OrchestratorsAssumption == Orchestrators \subseteq Pods
ASSUME NoPodAssumption == NoPod \notin Pods
ASSUME SchedulesAssumption == Schedules \in Seq(STRING)
ASSUME BoundsAssumption == MaxFailures \in Nat /\ MaxDeploys \in Nat

VARIABLES
    applied,     \* platform_schema_migrations, committed
    tables,      \* the committed tables
    lock,        \* the holder of the migration lock
    schedule,    \* Temporal: each schedule's definition, by the release it is from
    release,     \* the release each pod runs
    pod,         \* where each process is
    overtaken,   \* pods since whose first schedule call another pod made one
    collided,    \* has a migration met one that was applied at the same time?
    failures, deploys

vars == <<applied, tables, lock, schedule, release, pod, overtaken, collided, failures, deploys>>
database == <<applied, tables, lock, collided>>

Registry == INSTANCE SchemaRegistry WITH Releases <- Releases, applied <- applied, tables <- tables

ASSUME ReleasesAssumption ==
    \A r \in Releases : r \in Nat /\ Registry!Carried(r) \subseteq DOMAIN Registry!Migrations

Down == [at |-> "down"]
Serving == [at |-> "serving"]

\* Where a process goes when its state is open.
Opened(p) == IF p \in Orchestrators THEN [at |-> "create", schedule |-> 1] ELSE Serving

Init ==
    /\ applied = {} /\ tables = {} /\ lock = NoPod /\ collided = FALSE
    /\ schedule = [s \in 1..Len(Schedules) |-> 0]
    /\ release \in [Pods -> Releases]
    /\ pod = [p \in Pods |-> Down]
    /\ overtaken = {}
    /\ failures = 0 /\ deploys = 0

\* The process starts and connects to Postgres.
Connect(p) ==
    /\ pod[p] = Down
    /\ pod' = [pod EXCEPT ![p] = [at |-> "lock"]]
    /\ overtaken' = overtaken \ {p}
    /\ UNCHANGED <<database, schedule, release, failures, deploys>>

\* Fault: the lock ends with the statement that takes it.
LockBriefly(p) ==
    /\ pod[p].at = "lock"
    /\ lock = NoPod
    /\ pod' = [pod EXCEPT ![p] = [at |-> "migrate", next |-> 1, new |-> {}, tables |-> tables]]
    /\ UNCHANGED <<database, schedule, release, overtaken, failures, deploys>>

\* The transaction begins and waits for the lock; later statements see what was
\* committed before it got the lock.
Lock(p) ==
    /\ pod[p].at = "lock"
    /\ lock = NoPod
    /\ lock' = p
    /\ pod' = [pod EXCEPT ![p] = [at |-> "migrate", next |-> 1, new |-> {}, tables |-> tables]]
    /\ UNCHANGED <<applied, tables, collided, schedule, release, overtaken, failures, deploys>>

\* Fault: the tables are made outside the transaction.
MigrateOutside(p) ==
    LET i == pod[p].next
        made == IF i \in applied THEN tables ELSE Registry!Apply(tables, i)
    IN  /\ pod[p].at = "migrate"
        /\ i \in Registry!Carried(release[p])
        /\ tables' = made
        /\ pod' = [pod EXCEPT ![p] = [pod[p] EXCEPT !.next = i + 1, !.tables = made,
                                         !.new = pod[p].new \cup ({i} \ applied)]]
        /\ UNCHANGED <<applied, lock, collided, schedule, release, overtaken, failures, deploys>>

\* One turn of the loop, inside the transaction: a migration that is recorded is
\* skipped, another one is run and recorded.  Its statements fail for want of a
\* table; every failure ends the process, see Fail.
Migrate(p) ==
    LET i == pod[p].next
        Turn(new, made) == [at |-> "migrate", next |-> i + 1, new |-> new, tables |-> made]
    IN  /\ pod[p].at = "migrate"
        /\ i \in Registry!Carried(release[p])
        /\ \/ /\ i \in applied
              /\ pod' = [pod EXCEPT ![p] = Turn(pod[p].new, pod[p].tables)]
           \/ /\ i \notin applied
              /\ Registry!Migrations[i].needs \subseteq pod[p].tables
              /\ pod' = [pod EXCEPT ![p] =
                     Turn(pod[p].new \cup {i}, Registry!Apply(pod[p].tables, i))]
        /\ UNCHANGED <<database, schedule, release, overtaken, failures, deploys>>

\* Fault: the loop ends one migration early.
CommitEarly(p) ==
    /\ pod[p].at = "migrate"
    /\ pod[p].next >= release[p]
    /\ applied' = applied \cup pod[p].new
    /\ tables' = pod[p].tables
    /\ collided' = (collided \/ pod[p].new \cap applied # {})
    /\ lock' = IF lock = p THEN NoPod ELSE lock
    /\ pod' = [pod EXCEPT ![p] = Opened(p)]
    /\ UNCHANGED <<schedule, release, overtaken, failures, deploys>>

\* Fault: the lock is the session's and outlives the transaction.
CommitKeepingLock(p) ==
    /\ pod[p].at = "migrate"
    /\ pod[p].next > release[p]
    /\ applied' = applied \cup pod[p].new
    /\ tables' = pod[p].tables
    /\ collided' = (collided \/ pod[p].new \cap applied # {})
    /\ pod' = [pod EXCEPT ![p] = Opened(p)]
    /\ UNCHANGED <<lock, schedule, release, overtaken, failures, deploys>>

\* The commit publishes tables and records together and frees the lock.  A record
\* another transaction has added since would break the primary key.
Commit(p) ==
    /\ pod[p].at = "migrate"
    /\ pod[p].next > release[p]
    /\ applied' = applied \cup pod[p].new
    /\ tables' = pod[p].tables
    /\ collided' = (collided \/ pod[p].new \cap applied # {})
    /\ lock' = IF lock = p THEN NoPod ELSE lock
    /\ pod' = [pod EXCEPT ![p] = Opened(p)]
    /\ UNCHANGED <<schedule, release, overtaken, failures, deploys>>

\* The pods that are behind their first schedule call, other than p.
Overtaken(p) ==
    {q \in Orchestrators \ {p} : pod[q].at \in {"create", "update", "serving"}}

\* After the last schedule the worker and the servers start.
NextSchedule(p) ==
    IF pod[p].schedule < Len(Schedules) THEN [at |-> "create", schedule |-> pod[p].schedule + 1]
    ELSE Serving

\* Fault: a schedule that exists is left as it is.
CreateScheduleOnly(p) ==
    LET s == pod[p].schedule
    IN  /\ pod[p].at = "create"
        /\ schedule' = [schedule EXCEPT ![s] = IF schedule[s] = 0 THEN release[p] ELSE schedule[s]]
        /\ pod' = [pod EXCEPT ![p] = NextSchedule(p)]
        /\ overtaken' = overtaken \cup Overtaken(p)
        /\ UNCHANGED <<database, release, failures, deploys>>

\* ScheduleClient.Create: a schedule that exists is to be updated.
CreateSchedule(p) ==
    LET s == pod[p].schedule
    IN  /\ pod[p].at = "create"
        /\ \/ /\ schedule[s] = 0
              /\ schedule' = [schedule EXCEPT ![s] = release[p]]
              /\ pod' = [pod EXCEPT ![p] = NextSchedule(p)]
              /\ overtaken' = overtaken \cup Overtaken(p)
           \/ /\ schedule[s] # 0
              /\ pod' = [pod EXCEPT ![p].at = "update"]
              /\ UNCHANGED <<schedule, overtaken>>
        /\ UNCHANGED <<database, release, failures, deploys>>

\* The update replaces the whole definition, whoever wrote it.
UpdateSchedule(p) ==
    /\ pod[p].at = "update"
    /\ schedule' = [schedule EXCEPT ![pod[p].schedule] = release[p]]
    /\ pod' = [pod EXCEPT ![p] = NextSchedule(p)]
    /\ overtaken' = overtaken \cup Overtaken(p)
    /\ UNCHANGED <<database, release, failures, deploys>>

\* A call fails or the process is killed: its transaction rolls back.
Fail(p) ==
    /\ failures < MaxFailures
    /\ pod[p] # Down
    /\ failures' = failures + 1
    /\ pod' = [pod EXCEPT ![p] = Down]
    /\ lock' = IF lock = p THEN NoPod ELSE lock
    /\ UNCHANGED <<applied, tables, collided, schedule, release, overtaken, deploys>>

\* Kubernetes starts the pod again from another release, newer or older.
Deploy(p) ==
    /\ deploys < MaxDeploys
    /\ pod[p] = Down
    /\ \E r \in Releases \ {release[p]} : release' = [release EXCEPT ![p] = r]
    /\ deploys' = deploys + 1
    /\ UNCHANGED <<database, schedule, pod, overtaken, failures>>

Start(p) == Connect(p) \/ Lock(p) \/ Migrate(p) \/ Commit(p) \/ CreateSchedule(p) \/ UpdateSchedule(p)

Next == \E p \in Pods : Start(p) \/ Fail(p) \/ Deploy(p)

Spec == Init /\ [][Next]_vars

\* A process that was started goes on, Kubernetes restarts one that ended, and
\* Postgres grants a free lock to one that waits.
FairSpec ==
    /\ Spec
    /\ \A p \in Pods :
          /\ WF_vars(Connect(p)) /\ WF_vars(Lock(p)) /\ WF_vars(Migrate(p)) /\ WF_vars(Commit(p))
          /\ WF_vars(CreateSchedule(p)) /\ WF_vars(UpdateSchedule(p))

--------------------------------------------------------------------------------
\* A process: what it does next, and in the migration loop what its transaction
\* has recorded and made.
Processes ==
    [at : {"down", "lock", "serving"}]
    \cup [at : {"migrate"}, next : Nat, new : SUBSET DOMAIN Registry!Migrations,
          tables : SUBSET Registry!Tables]
    \cup [at : {"create", "update"}, schedule : Nat]

\* The records and the processes are of their types.
TypeOK ==
    /\ applied \subseteq DOMAIN Registry!Migrations /\ tables \subseteq Registry!Tables
    /\ lock \in Pods \cup {NoPod} /\ collided \in BOOLEAN
    /\ schedule \in [1..Len(Schedules) -> {0} \cup Releases]
    /\ release \in [Pods -> Releases] /\ overtaken \subseteq Pods
    /\ pod \in [Pods -> Processes]
    /\ failures \in 0..MaxFailures /\ deploys \in 0..MaxDeploys

\* "Migrate applies migrations once, guarded by a Postgres advisory lock": no two
\* starts apply one migration, so none is killed by the other's record.
AppliedOnce == ~collided

\* A process that has opened its state works on a database that has every
\* migration its release carries, the schedules' steps included.
OpenedMeansMigrated ==
    TypeOK /\ \A p \in Pods : pod[p].at \in {"create", "update", "serving"} =>
        Registry!Carried(release[p]) \subseteq applied

\* An orchestration process that serves has left every schedule as its own release
\* defines it, unless another one has made a schedule call since it began.
SchedulesCurrent ==
    \A p \in Orchestrators \ overtaken :
        pod[p] = Serving => \A s \in DOMAIN schedule : schedule[s] = release[p]

\* Tables and records change together and only as the registry allows: a start
\* that fails leaves no half-migrated schema, whatever order releases start in.
ImplementsSchemaRegistry == Registry!Spec

\* Every pod comes to serve, however the starts and failures interleave: no start
\* waits for a lock that nobody will free, or lacks a table.
EveryPodServes == \A p \in Pods : <>(pod[p] = Serving)
================================================================================
