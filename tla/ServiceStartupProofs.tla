------------------------- MODULE ServiceStartupProofs -------------------------
(* Proofs about ServiceStartup for any pods, releases and schedules.             *)
EXTENDS ServiceStartup, TLAPS

--------------------------------------------------------------------------------
(* The inductive invariant.                                                      *)

\* Only the holder of the lock is in the migration loop.
Exclusive == \A p \in Pods : pod[p].at = "migrate" => lock = p

\* What the loop has passed is recorded, committed or in its transaction, and its
\* transaction repeats no committed record.
LoopKeepsUp ==
    \A p \in Pods : pod[p].at = "migrate" =>
        /\ pod[p].new \cap applied = {}
        /\ \A i \in Registry!Carried(release[p]) :
               i < pod[p].next => i \in applied \cup pod[p].new

\* A process that has opened its state has its migrations.
Migrated ==
    \A p \in Pods : pod[p].at \in {"create", "update", "serving"} =>
        Registry!Carried(release[p]) \subseteq applied

\* The schedules a process has passed are its release's while no other pod's call
\* has come in between.
SchedulesKept ==
    \A p \in Orchestrators \ overtaken : \A s \in DOMAIN schedule :
        \/ pod[p].at = "serving"
        \/ pod[p].at \in {"create", "update"} /\ s < pod[p].schedule
        => schedule[s] = release[p]

\* The committed migrations are the first ones of the list.
FirstOnes == \A i \in applied : \A j \in 1..i : j \in applied

\* The tables are the ones the migrations make, those committed and those a
\* transaction has seen and made itself.
TablesFollow ==
    /\ FirstOnes
    /\ tables = Registry!SchemaOf(applied)
    /\ \A p \in Pods : pod[p].at = "migrate" =>
          /\ pod[p].new \subseteq Registry!Carried(release[p])
          /\ \A i \in pod[p].new : i < pod[p].next
          /\ pod[p].tables = Registry!SchemaOf(applied \cup pod[p].new)

SchemaInv == Exclusive /\ LoopKeepsUp /\ Migrated /\ ~collided
IInv == TypeOK /\ SchemaInv /\ SchedulesKept

--------------------------------------------------------------------------------
\* What a pod is at a place of its start.
LEMMA ProcessShapes ==
    ASSUME TypeOK, NEW p \in Pods
    PROVE  /\ pod[p].at = "migrate" =>
                  pod[p] \in [at : {"migrate"}, next : Nat, new : SUBSET DOMAIN Registry!Migrations,
                              tables : SUBSET Registry!Tables]
           /\ pod[p].at \in {"create", "update"} =>
                  pod[p] \in [at : {"create", "update"}, schedule : Nat]
           /\ pod[p].at \in {"down", "lock", "serving"} => pod[p] \in [at : {"down", "lock", "serving"}]
  BY DEF TypeOK, Processes

\* A release carries migrations of the list.
LEMMA CarriedTyped ==
    ASSUME NEW r \in Releases
    PROVE  /\ r \in Nat
           /\ Registry!Carried(r) \subseteq DOMAIN Registry!Migrations
           /\ \A i : i \in Registry!Carried(r) <=> i \in Nat /\ 1 <= i /\ i <= r
  BY ReleasesAssumption DEF Registry!Carried

\* A migration makes tables from tables.
LEMMA ApplyTyped ==
    ASSUME NEW t \in SUBSET Registry!Tables, NEW i \in DOMAIN Registry!Migrations
    PROVE  Registry!Apply(t, i) \in SUBSET Registry!Tables
  BY DEF Registry!Apply, Registry!Tables

\* The state of a process, as each step leaves it, is one.
LEMMA NewProcesses ==
    /\ Down \in Processes /\ Serving \in Processes /\ [at |-> "lock"] \in Processes
    /\ \A k \in Nat : [at |-> "create", schedule |-> k] \in Processes
    /\ \A k \in Nat : [at |-> "update", schedule |-> k] \in Processes
    /\ \A t \in SUBSET Registry!Tables :
           [at |-> "migrate", next |-> 1, new |-> {}, tables |-> t] \in Processes
  BY DEF Down, Serving, Processes

\* The turn of the migration loop: the process it leaves, and what of the list is
\* behind it.
LoopTurn(p, q) ==
    /\ pod' = [pod EXCEPT ![p] = q]
    /\ q \in Processes /\ q.at = "migrate" /\ q.next = pod[p].next + 1
    /\ pod[p].next \in applied \cup q.new
    /\ pod[p].new \subseteq q.new /\ q.new \cap applied \subseteq pod[p].new
    /\ pod[p].next \in Registry!Carried(release[p])
    /\ \/ pod[p].next \in applied /\ q.new = pod[p].new /\ q.tables = pod[p].tables
       \/ /\ pod[p].next \notin applied /\ q.new = pod[p].new \cup {pod[p].next}
          /\ q.tables = Registry!Apply(pod[p].tables, pod[p].next)

\* Both ways a turn goes leave such a process.
LEMMA MigrateTurns ==
    ASSUME TypeOK, NEW p \in Pods, Migrate(p)
    PROVE  \E q : LoopTurn(p, q)
<1>. DEFINE i == pod[p].next
            turn == [at |-> "migrate", next |-> i + 1, new |-> pod[p].new, tables |-> pod[p].tables]
            more == [at |-> "migrate", next |-> i + 1, new |-> pod[p].new \cup {i},
                     tables |-> Registry!Apply(pod[p].tables, i)]
<1>1. pod[p] \in [at : {"migrate"}, next : Nat, new : SUBSET DOMAIN Registry!Migrations,
                  tables : SUBSET Registry!Tables]
  BY ProcessShapes DEF Migrate
<1>2. release[p] \in Releases
  BY DEF TypeOK
<1>3. i \in DOMAIN Registry!Migrations
  BY <1>2, CarriedTyped DEF Migrate
<1>4. Registry!Apply(pod[p].tables, i) \in SUBSET Registry!Tables
  BY <1>1, <1>3, ApplyTyped
<1>5. turn \in Processes /\ more \in Processes
  BY <1>1, <1>3, <1>4 DEF Processes
<1>6. CASE i \in applied
  <2>1. LoopTurn(p, turn)
    BY <1>5, <1>6 DEF LoopTurn, Migrate
  <2>. QED BY <2>1
<1>7. CASE i \notin applied
  <2>1. LoopTurn(p, more)
    BY <1>5, <1>7 DEF LoopTurn, Migrate
  <2>. QED BY <2>1
<1>. QED
  BY <1>6, <1>7

\* The process after a schedule call is one.
LEMMA NextScheduleTyped ==
    ASSUME TypeOK, NEW p \in Pods, pod[p].at \in {"create", "update"}
    PROVE  NextSchedule(p) \in Processes
<1>1. pod[p].schedule \in Nat
  BY ProcessShapes
<1>. QED
  BY <1>1, NewProcesses DEF NextSchedule

\* A started process opens its state into one.
LEMMA OpenedTyped == \A p : Opened(p) \in Processes
  BY NewProcesses DEF Opened

\* Every step of the system keeps the types.
LEMMA TypesKept == TypeOK /\ [Next]_vars => TypeOK'
<1>. SUFFICES ASSUME TypeOK, [Next]_vars PROVE TypeOK'
  OBVIOUS
<1>. USE DEF database
<1>1. CASE UNCHANGED vars
  BY <1>1 DEF TypeOK, vars
<1>2. ASSUME NEW p \in Pods, Connect(p) PROVE TypeOK'
  BY <1>2, NewProcesses DEF Connect, TypeOK
<1>3. ASSUME NEW p \in Pods, Lock(p) PROVE TypeOK'
  BY <1>3, NewProcesses DEF Lock, TypeOK
<1>4. ASSUME NEW p \in Pods, Migrate(p) PROVE TypeOK'
  <2>1. PICK q : LoopTurn(p, q)
    BY <1>4, MigrateTurns
  <2>. QED BY <1>4, <2>1 DEF LoopTurn, Migrate, TypeOK
<1>5. ASSUME NEW p \in Pods, Commit(p) PROVE TypeOK'
  <2>1. pod[p].new \subseteq DOMAIN Registry!Migrations /\ pod[p].tables \subseteq Registry!Tables
    BY <1>5, ProcessShapes DEF Commit
  <2>2. pod' \in [Pods -> Processes]
    BY <1>5, OpenedTyped DEF Commit, TypeOK
  <2>. QED BY <1>5, <2>1, <2>2 DEF Commit, TypeOK
<1>6. ASSUME NEW p \in Pods, CreateSchedule(p) \/ UpdateSchedule(p) PROVE TypeOK'
  <2>1. NextSchedule(p) \in Processes /\ pod[p].schedule \in Nat
    BY <1>6, NextScheduleTyped, ProcessShapes DEF CreateSchedule, UpdateSchedule
  <2>2. pod[p].at = "create" => [pod[p] EXCEPT !.at = "update"] \in Processes
    BY ProcessShapes DEF Processes
  <2>3. Overtaken(p) \subseteq Pods
    BY OrchestratorsAssumption DEF Overtaken
  <2>4. CASE UpdateSchedule(p)
    BY <2>1, <2>3, <2>4 DEF UpdateSchedule, TypeOK
  <2>5. CASE CreateSchedule(p) /\ schedule[pod[p].schedule] = 0
    BY <2>1, <2>3, <2>5 DEF CreateSchedule, TypeOK
  <2>6. CASE CreateSchedule(p) /\ schedule[pod[p].schedule] # 0
    <3>1. pod' = [pod EXCEPT ![p] = [pod[p] EXCEPT !.at = "update"]]
      BY <2>6 DEF CreateSchedule
    <3>. QED BY <2>2, <2>6, <3>1 DEF CreateSchedule, TypeOK
  <2>. QED BY <1>6, <2>4, <2>5, <2>6
<1>7. ASSUME NEW p \in Pods, Fail(p) PROVE TypeOK'
  BY <1>7, NewProcesses, BoundsAssumption DEF Fail, TypeOK
<1>8. ASSUME NEW p \in Pods, Deploy(p) PROVE TypeOK'
  BY <1>8, BoundsAssumption DEF Deploy, TypeOK
<1>. QED
  BY <1>1, <1>2, <1>3, <1>4, <1>5, <1>6, <1>7, <1>8 DEF Next, Start

--------------------------------------------------------------------------------
\* Nobody but the holder of the lock is in the loop, its turns record what they
\* pass, and its commit publishes what it has recorded.
LEMMA SchemaKept == TypeOK /\ TypeOK' /\ SchemaInv /\ [Next]_vars => SchemaInv'
<1>. SUFFICES ASSUME TypeOK, TypeOK', SchemaInv, [Next]_vars PROVE SchemaInv'
  OBVIOUS
<1>. USE DEF SchemaInv, Exclusive, LoopKeepsUp, Migrated, database
<1>1. CASE UNCHANGED vars
  BY <1>1 DEF vars
<1>2. ASSUME NEW p \in Pods, Connect(p) PROVE SchemaInv'
  BY <1>2 DEF Connect, TypeOK
<1>3. ASSUME NEW p \in Pods, Lock(p) PROVE SchemaInv'
  <2>1. \A i \in Registry!Carried(release[p]) : 1 <= i /\ i \in Nat
    BY CarriedTyped DEF TypeOK
  <2>2. \A q \in Pods : pod[q].at # "migrate"
    BY <1>3, NoPodAssumption DEF Lock
  <2>. QED BY <1>3, <2>1, <2>2 DEF Lock, TypeOK
<1>4. ASSUME NEW p \in Pods, Migrate(p) PROVE SchemaInv'
  <2>1. PICK q : LoopTurn(p, q)
    BY <1>4, MigrateTurns
  <2>2. pod[p].at = "migrate" /\ pod[p].next \in Nat
    BY <1>4, ProcessShapes DEF Migrate
  <2>3. UNCHANGED <<applied, lock, collided, release>>
    BY <1>4 DEF Migrate
  <2>4. \A i \in Registry!Carried(release[p]) : i \in Nat
    BY CarriedTyped DEF TypeOK
  <2>5. \A i \in Registry!Carried(release[p]) : i < q.next => i \in applied \cup q.new
    <3>. TAKE i \in Registry!Carried(release[p])
    <3>1. i < q.next => i < pod[p].next \/ i = pod[p].next
      BY <2>1, <2>2, <2>4 DEF LoopTurn
    <3>. QED BY <2>1, <2>2, <3>1 DEF LoopTurn
  <2>6. q.new \cap applied = {}
    BY <2>1, <2>2 DEF LoopTurn
  <2>. QED BY <2>1, <2>2, <2>3, <2>5, <2>6 DEF LoopTurn, TypeOK
<1>5. ASSUME NEW p \in Pods, Commit(p) PROVE SchemaInv'
  <2>1. pod[p].at = "migrate" /\ pod[p].next \in Nat /\ release[p] \in Releases
    BY <1>5, ProcessShapes DEF Commit, TypeOK
  <2>2. Registry!Carried(release[p]) \subseteq applied'
    BY <1>5, <2>1, CarriedTyped DEF Commit
  <2>3. \A q \in Pods \ {p} : pod'[q] = pod[q] /\ pod[q].at # "migrate"
    BY <1>5, <2>1 DEF Commit, TypeOK
  <2>4. pod'[p] = Opened(p) /\ Opened(p).at \in {"create", "serving"}
    BY <1>5 DEF Commit, TypeOK, Opened, Serving
  <2>5. ~collided'
    BY <1>5, <2>1 DEF Commit
  <2>. QED BY <1>5, <2>2, <2>3, <2>4, <2>5 DEF Commit
<1>6. ASSUME NEW p \in Pods, CreateSchedule(p) \/ UpdateSchedule(p) PROVE SchemaInv'
  <2>1. pod[p].at \in {"create", "update"} /\ UNCHANGED <<database, release>>
    BY <1>6 DEF CreateSchedule, UpdateSchedule
  <2>2. NextSchedule(p).at \in {"create", "serving"}
    BY DEF NextSchedule, Serving
  <2>3. pod[p].at = "create" => [pod[p] EXCEPT !.at = "update"].at = "update"
    BY ProcessShapes
  <2>4. \/ pod' = [pod EXCEPT ![p] = NextSchedule(p)]
        \/ pod[p].at = "create" /\ pod' = [pod EXCEPT ![p] = [pod[p] EXCEPT !.at = "update"]]
    BY <1>6 DEF CreateSchedule, UpdateSchedule
  <2>5. pod'[p].at \in {"create", "update", "serving"} /\ \A q \in Pods \ {p} : pod'[q] = pod[q]
    BY <2>2, <2>3, <2>4 DEF TypeOK
  <2>. QED BY <2>1, <2>5
<1>7. ASSUME NEW p \in Pods, Fail(p) PROVE SchemaInv'
  <2>1. pod'[p].at = "down" /\ \A q \in Pods \ {p} : pod'[q] = pod[q]
    BY <1>7 DEF Fail, Down, TypeOK
  <2>. QED BY <1>7, <2>1 DEF Fail
<1>8. ASSUME NEW p \in Pods, Deploy(p) PROVE SchemaInv'
  <2>1. pod[p].at = "down" /\ \A q \in Pods \ {p} : release'[q] = release[q]
    BY <1>8 DEF Deploy, Down, TypeOK
  <2>. QED BY <1>8, <2>1 DEF Deploy
<1>. QED
  BY <1>1, <1>2, <1>3, <1>4, <1>5, <1>6, <1>7, <1>8 DEF Next, Start

--------------------------------------------------------------------------------
\* A schedule call of a pod leaves the schedules behind it its release's and takes
\* every other pod that has passed a schedule out of the claim.
LEMMA CallKeepsSchedules ==
    ASSUME TypeOK, SchedulesKept, NEW p \in Pods, pod[p].at \in {"create", "update"},
           schedule' = [schedule EXCEPT ![pod[p].schedule] = release[p]],
           pod' = [pod EXCEPT ![p] = NextSchedule(p)],
           overtaken' = overtaken \cup Overtaken(p), UNCHANGED release
    PROVE  SchedulesKept'
<1>1. pod[p].schedule \in Nat /\ Len(Schedules) \in Nat
  BY ProcessShapes, SchedulesAssumption
<1>2. DOMAIN schedule = 1..Len(Schedules) /\ DOMAIN schedule' = 1..Len(Schedules)
  BY DEF TypeOK
<1>3. SUFFICES ASSUME NEW q \in Orchestrators, q \notin overtaken', NEW s \in 1..Len(Schedules),
                      \/ pod'[q].at = "serving"
                      \/ pod'[q].at \in {"create", "update"} /\ s < pod'[q].schedule
               PROVE  schedule'[s] = release[q]
  BY <1>2 DEF SchedulesKept
<1>4. q \in Pods
  BY OrchestratorsAssumption
<1>5. CASE q # p
  <2>1. pod'[q] = pod[q]
    BY <1>4, <1>5 DEF TypeOK
  <2>. QED BY <1>3, <1>5, <2>1 DEF Overtaken
<1>6. CASE q = p
  <2>1. pod'[p] = NextSchedule(p)
    BY DEF TypeOK
  <2>2. s <= pod[p].schedule
    BY <1>1, <1>3, <1>6, <2>1 DEF NextSchedule, Serving
  <2>3. CASE s = pod[p].schedule
    BY <1>2, <1>6, <2>3 DEF TypeOK
  <2>4. CASE s < pod[p].schedule
    <3>1. schedule[s] = release[p]
      BY <1>2, <1>3, <1>6, <2>4 DEF SchedulesKept
    <3>. QED BY <1>1, <1>6, <2>4, <3>1 DEF TypeOK
  <2>. QED BY <1>1, <2>2, <2>3, <2>4
<1>. QED
  BY <1>5, <1>6

\* No step leaves a pod that was not overtaken with another release's schedule.
LEMMA SchedulesStayKept == TypeOK /\ TypeOK' /\ SchedulesKept /\ [Next]_vars => SchedulesKept'
<1>. SUFFICES ASSUME TypeOK, TypeOK', SchedulesKept, [Next]_vars PROVE SchedulesKept'
  OBVIOUS
<1>. USE DEF database
<1>0. Orchestrators \subseteq Pods /\ DOMAIN schedule \subseteq Nat \ {0}
  BY OrchestratorsAssumption, SchedulesAssumption DEF TypeOK
<1>1. CASE UNCHANGED vars
  BY <1>1 DEF vars, SchedulesKept
<1>2. ASSUME NEW p \in Pods, Connect(p) PROVE SchedulesKept'
  BY <1>0, <1>2 DEF Connect, TypeOK, SchedulesKept
<1>3. ASSUME NEW p \in Pods, Lock(p) PROVE SchedulesKept'
  BY <1>0, <1>3 DEF Lock, TypeOK, SchedulesKept
<1>4. ASSUME NEW p \in Pods, Migrate(p) PROVE SchedulesKept'
  <2>1. PICK q : LoopTurn(p, q)
    BY <1>4, MigrateTurns
  <2>. QED BY <1>0, <1>4, <2>1 DEF LoopTurn, Migrate, TypeOK, SchedulesKept
<1>5. ASSUME NEW p \in Pods, Commit(p) PROVE SchedulesKept'
  <2>1. p \in Orchestrators => pod'[p].at = "create" /\ pod'[p].schedule = 1
    BY <1>5 DEF Commit, Opened, TypeOK
  <2>2. \A q \in Pods \ {p} : pod'[q] = pod[q]
    BY <1>5 DEF Commit, TypeOK
  <2>. QED BY <1>0, <1>5, <2>1, <2>2 DEF Commit, SchedulesKept
<1>6. ASSUME NEW p \in Pods, CreateSchedule(p) \/ UpdateSchedule(p) PROVE SchedulesKept'
  <2>1. CASE CreateSchedule(p) /\ schedule[pod[p].schedule] # 0
    <3>1. pod[p] \in [at : {"create", "update"}, schedule : Nat]
      BY <2>1, ProcessShapes DEF CreateSchedule
    <3>2. pod' = [pod EXCEPT ![p] = [pod[p] EXCEPT !.at = "update"]]
      BY <2>1 DEF CreateSchedule
    <3>3. pod'[p].schedule = pod[p].schedule /\ pod'[p].at = "update" /\ pod[p].at = "create"
      BY <2>1, <3>1, <3>2 DEF CreateSchedule, TypeOK
    <3>4. \A q \in Pods \ {p} : pod'[q] = pod[q]
      BY <3>2 DEF TypeOK
    <3>. QED BY <1>0, <2>1, <3>3, <3>4 DEF CreateSchedule, SchedulesKept
  <2>2. CASE CreateSchedule(p) /\ schedule[pod[p].schedule] = 0
    BY <2>2, CallKeepsSchedules DEF CreateSchedule
  <2>3. CASE UpdateSchedule(p)
    BY <2>3, CallKeepsSchedules DEF UpdateSchedule
  <2>. QED BY <1>6, <2>1, <2>2, <2>3
<1>7. ASSUME NEW p \in Pods, Fail(p) PROVE SchedulesKept'
  BY <1>0, <1>7 DEF Fail, Down, TypeOK, SchedulesKept
<1>8. ASSUME NEW p \in Pods, Deploy(p) PROVE SchedulesKept'
  BY <1>0, <1>8 DEF Deploy, Down, TypeOK, SchedulesKept
<1>. QED
  BY <1>1, <1>2, <1>3, <1>4, <1>5, <1>6, <1>7, <1>8 DEF Next, Start

--------------------------------------------------------------------------------
\* The invariant holds when nothing has started, and every step keeps it.
LEMMA InductiveInvariant == Spec => []IInv
<1>1. Init => IInv
  <2>. SUFFICES ASSUME Init PROVE IInv
    OBVIOUS
  <2>1. TypeOK
    <3>1. schedule \in [1..Len(Schedules) -> {0} \cup Releases] /\ pod \in [Pods -> Processes]
      BY NewProcesses DEF Init
    <3>2. failures \in 0..MaxFailures /\ deploys \in 0..MaxDeploys
      BY BoundsAssumption DEF Init
    <3>3. lock \in Pods \cup {NoPod} /\ collided \in BOOLEAN
      BY DEF Init
    <3>. QED BY <3>1, <3>2, <3>3 DEF Init, TypeOK
  <2>2. \A p \in Pods : pod[p].at = "down"
    BY DEF Init, Down
  <2>3. SchemaInv
    BY <2>2 DEF Init, SchemaInv, Exclusive, LoopKeepsUp, Migrated
  <2>4. SchedulesKept
    BY <2>2, OrchestratorsAssumption DEF SchedulesKept
  <2>. QED BY <2>1, <2>3, <2>4 DEF IInv
<1>2. IInv /\ [Next]_vars => IInv'
  BY TypesKept, SchemaKept, SchedulesStayKept DEF IInv
<1>. QED
  BY <1>1, <1>2, PTL DEF Spec

\* However many services start at once and whichever of them fail, no two apply one
\* migration: none is killed by the record another has made since it looked.
THEOREM MigrationsAppliedOnce == Spec => []AppliedOnce
<1>1. IInv => AppliedOnce
  BY DEF IInv, SchemaInv, AppliedOnce
<1>. QED
  BY <1>1, InductiveInvariant, PTL

\* A process that has opened its state works on a database with every migration of
\* its release, whatever releases the other pods start from.
THEOREM OpenedProcessesAreMigrated == Spec => []OpenedMeansMigrated
<1>1. IInv => OpenedMeansMigrated
  BY DEF IInv, SchemaInv, Migrated, OpenedMeansMigrated
<1>. QED
  BY <1>1, InductiveInvariant, PTL

\* A pod that serves finds every schedule as its own release defines it while no
\* other pod has made a schedule call since it started.
THEOREM ServingSchedulesAreCurrent == Spec => []SchedulesCurrent
<1>1. IInv => SchedulesCurrent
  BY DEF IInv, SchedulesKept, SchedulesCurrent, Serving
<1>. QED
  BY <1>1, InductiveInvariant, PTL

--------------------------------------------------------------------------------
(* The refinement of SchemaRegistry.                                             *)

\* A migration that is later than all that were applied adds its tables and drops
\* what it drops.
LEMMA ApplyExtends ==
    ASSUME NEW done \in SUBSET DOMAIN Registry!Migrations, NEW i \in DOMAIN Registry!Migrations,
           \A j \in done : j < i, DOMAIN Registry!Migrations \subseteq Nat
    PROVE  Registry!Apply(Registry!SchemaOf(done), i) = Registry!SchemaOf(done \cup {i})
<1>. DEFINE creates(j) == Registry!Migrations[j].creates
            drops(j) == Registry!Migrations[j].drops
<1>1. \A j \in done : j \in Nat /\ j < i /\ ~(i < j) /\ i \in Nat
  OBVIOUS
<1>2. Registry!SchemaOf(done) = {t \in Registry!Tables : \E j \in done :
         t \in creates(j) /\ \A k \in done : k > j => t \notin drops(k)}
  BY DEF Registry!SchemaOf
<1>3. Registry!SchemaOf(done \cup {i}) = {t \in Registry!Tables : \E j \in done \cup {i} :
         t \in creates(j) /\ \A k \in done \cup {i} : k > j => t \notin drops(k)}
  BY DEF Registry!SchemaOf
<1>4. creates(i) \subseteq Registry!Tables
  BY DEF Registry!Tables
<1>5. Registry!Apply(Registry!SchemaOf(done), i) = (Registry!SchemaOf(done) \ drops(i)) \cup creates(i)
  BY DEF Registry!Apply
<1>. HIDE DEF creates, drops
<1>6. ASSUME NEW t \in creates(i) PROVE t \in Registry!SchemaOf(done \cup {i})
  <2>1. \A k \in done \cup {i} : ~(k > i)
    BY <1>1
  <2>. QED BY <1>3, <1>4, <1>6, <2>1
<1>7. ASSUME NEW t \in Registry!SchemaOf(done), t \notin drops(i)
      PROVE  t \in Registry!SchemaOf(done \cup {i})
  BY <1>2, <1>3, <1>7
<1>8. ASSUME NEW t \in Registry!SchemaOf(done \cup {i}), t \notin creates(i)
      PROVE  t \in Registry!SchemaOf(done) /\ t \notin drops(i)
  <2>1. PICK j \in done \cup {i} :
           t \in creates(j) /\ \A k \in done \cup {i} : k > j => t \notin drops(k)
    BY <1>3
  <2>2. j \in done /\ i > j
    BY <1>1, <1>8, <2>1
  <2>. QED BY <1>2, <1>3, <2>1, <2>2
<1>. QED
  BY <1>5, <1>6, <1>7, <1>8

\* The list's places are numbers.
LEMMA MigrationsAreNumbered == DOMAIN Registry!Migrations \subseteq Nat
  BY DEF Registry!Migrations, Registry!JSONState, Registry!QueryIndexesAndLegacy,
         Registry!ModelRegistryState, Registry!RegistryExtensions

\* The loop makes its tables in the order of the list, and a commit publishes them.
LEMMA TablesKept == TypeOK /\ SchemaInv /\ TablesFollow /\ [Next]_vars => TablesFollow'
<1>. SUFFICES ASSUME TypeOK, SchemaInv, TablesFollow, [Next]_vars PROVE TablesFollow'
  OBVIOUS
<1>. USE DEF database
<1>0. \A p \in Pods : \A i \in Registry!Carried(release[p]) : i \in Nat /\ 1 <= i /\ i <= release[p]
  BY CarriedTyped DEF TypeOK
<1>1. CASE UNCHANGED vars
  BY <1>1 DEF vars, TablesFollow, FirstOnes
<1>2. ASSUME NEW p \in Pods, Connect(p) PROVE TablesFollow'
  BY <1>2 DEF Connect, TypeOK, TablesFollow, FirstOnes
<1>3. ASSUME NEW p \in Pods, Lock(p) PROVE TablesFollow'
  <2>1. UNCHANGED <<applied, tables, release>> /\ \A q \in Pods \ {p} : pod'[q] = pod[q]
    BY <1>3 DEF Lock, TypeOK
  <2>2. pod'[p].new = {} /\ pod'[p].tables = tables
    BY <1>3 DEF Lock, TypeOK
  <2>3. applied \cup {} = applied
    OBVIOUS
  <2>. QED BY <2>1, <2>2, <2>3 DEF TablesFollow, FirstOnes
<1>4. ASSUME NEW p \in Pods, Migrate(p) PROVE TablesFollow'
  <2>. DEFINE i == pod[p].next
              done == applied \cup pod[p].new
  <2>1. PICK q : LoopTurn(p, q)
    BY <1>4, MigrateTurns
  <2>2. /\ UNCHANGED <<applied, tables, release>> /\ pod'[p] = q
        /\ \A u \in Pods \ {p} : pod'[u] = pod[u]
    BY <1>4, <2>1 DEF Migrate, LoopTurn, TypeOK
  <2>3. /\ pod[p].at = "migrate" /\ i \in Nat /\ i \in Registry!Carried(release[p]) /\ q.next = i + 1
        /\ i \in DOMAIN Registry!Migrations
    BY <1>4, <2>1, ProcessShapes, CarriedTyped DEF Migrate, LoopTurn, TypeOK
  <2>4. /\ pod[p].new \subseteq Registry!Carried(release[p])
        /\ \A j \in pod[p].new : j < i
        /\ pod[p].tables = Registry!SchemaOf(done)
    BY <2>3 DEF TablesFollow
  <2>5. /\ q.new \subseteq Registry!Carried(release[p]) /\ \A j \in q.new : j < q.next
        /\ q.tables = Registry!SchemaOf(applied \cup q.new)
    <3>1. CASE i \in applied
      <4>1. q.new = pod[p].new /\ q.tables = pod[p].tables
        BY <2>1, <3>1 DEF LoopTurn
      <4>2. \A j \in pod[p].new : j \in Nat
        BY <1>0, <2>4
      <4>. QED BY <2>3, <2>4, <4>1, <4>2
    <3>2. CASE i \notin applied
      <4>1. q.new = pod[p].new \cup {i} /\ q.tables = Registry!Apply(pod[p].tables, i)
        BY <2>1, <3>2 DEF LoopTurn
      <4>2. \A j \in pod[p].new : j \in Nat
        BY <1>0, <2>4
      <4>3. done \in SUBSET DOMAIN Registry!Migrations
        BY <2>3, ProcessShapes DEF TypeOK
      <4>4. \A j \in applied : j < i
        <5>1. \A j \in applied : j \in Nat
          BY MigrationsAreNumbered DEF TypeOK
        <5>. QED BY <1>0, <2>3, <3>2, <5>1 DEF TablesFollow, FirstOnes
      <4>5. \A j \in done : j < i
        BY <2>4, <4>4
      <4>6. Registry!Apply(Registry!SchemaOf(done), i) = Registry!SchemaOf(done \cup {i})
        <5>. HIDE DEF done, i
        <5>. QED BY <2>3, <4>3, <4>5, ApplyExtends, MigrationsAreNumbered
      <4>7. applied \cup q.new = done \cup {i}
        BY <4>1
      <4>8. q.tables = Registry!SchemaOf(applied \cup q.new)
        BY <2>4, <4>1, <4>6, <4>7
      <4>9. q.new \subseteq Registry!Carried(release[p])
        BY <2>3, <2>4, <4>1
      <4>10. \A j \in q.new : j < q.next
        BY <2>3, <2>4, <4>1, <4>2
      <4>. QED BY <4>8, <4>9, <4>10
    <3>. QED BY <3>1, <3>2
  <2>. QED BY <2>2, <2>5 DEF TablesFollow, FirstOnes
<1>5. ASSUME NEW p \in Pods, Commit(p) PROVE TablesFollow'
  <2>1. /\ pod[p].at = "migrate" /\ pod[p].next \in Nat /\ release[p] \in Nat
        /\ applied' = applied \cup pod[p].new /\ tables' = pod[p].tables
    BY <1>5, ProcessShapes, CarriedTyped DEF Commit, TypeOK
  <2>2. \A q \in Pods : pod'[q].at # "migrate"
    <3>1. \A q \in Pods \ {p} : pod'[q] = pod[q] /\ pod[q].at # "migrate"
      BY <1>5, <2>1 DEF Commit, TypeOK, SchemaInv, Exclusive
    <3>2. pod'[p].at \in {"create", "serving"}
      BY <1>5 DEF Commit, TypeOK, Opened, Serving
    <3>. QED BY <3>1, <3>2
  <2>3. tables' = Registry!SchemaOf(applied')
    BY <2>1 DEF TablesFollow
  <2>4. FirstOnes'
    <3>. SUFFICES ASSUME NEW i \in applied', NEW j \in 1..i PROVE j \in applied'
      BY DEF FirstOnes
    <3>1. CASE i \in applied
      BY <2>1, <3>1 DEF TablesFollow, FirstOnes
    <3>2. CASE i \in pod[p].new
      <4>1. i \in Registry!Carried(release[p]) /\ i < pod[p].next
        BY <2>1, <3>2 DEF TablesFollow
      <4>2. j \in Registry!Carried(release[p]) /\ j < pod[p].next
        <5>1. i \in Nat /\ 1 <= i /\ i <= release[p]
          BY <1>0, <4>1
        <5>2. j <= release[p] /\ j < pod[p].next
          BY <2>1, <4>1, <5>1
        <5>3. release[p] \in Releases
          BY DEF TypeOK
        <5>. QED BY <5>2, <5>3, CarriedTyped
      <4>. QED BY <2>1, <4>2 DEF SchemaInv, LoopKeepsUp
    <3>. QED BY <2>1, <3>1, <3>2
  <2>. QED BY <2>2, <2>3, <2>4 DEF TablesFollow
<1>6. ASSUME NEW p \in Pods, CreateSchedule(p) \/ UpdateSchedule(p) PROVE TablesFollow'
  <2>1. UNCHANGED <<database, release>> /\ pod[p].at \in {"create", "update"}
    BY <1>6 DEF CreateSchedule, UpdateSchedule
  <2>2. pod'[p].at # "migrate" /\ \A q \in Pods \ {p} : pod'[q] = pod[q]
    <3>1. NextSchedule(p).at \in {"create", "serving"}
      BY DEF NextSchedule, Serving
    <3>2. pod[p].at = "create" => [pod[p] EXCEPT !.at = "update"].at = "update"
      BY ProcessShapes
    <3>3. \/ pod' = [pod EXCEPT ![p] = NextSchedule(p)]
          \/ pod[p].at = "create" /\ pod' = [pod EXCEPT ![p] = [pod[p] EXCEPT !.at = "update"]]
      BY <1>6 DEF CreateSchedule, UpdateSchedule
    <3>. QED BY <3>1, <3>2, <3>3 DEF TypeOK
  <2>. QED BY <2>1, <2>2 DEF TablesFollow, FirstOnes
<1>7. ASSUME NEW p \in Pods, Fail(p) PROVE TablesFollow'
  <2>1. pod'[p].at = "down" /\ \A q \in Pods \ {p} : pod'[q] = pod[q]
    BY <1>7 DEF Fail, Down, TypeOK
  <2>. QED BY <1>7, <2>1 DEF Fail, TablesFollow, FirstOnes
<1>8. ASSUME NEW p \in Pods, Deploy(p) PROVE TablesFollow'
  <2>1. pod[p].at = "down" /\ \A q \in Pods \ {p} : release'[q] = release[q]
    BY <1>8 DEF Deploy, Down, TypeOK
  <2>. QED BY <1>8, <2>1 DEF Deploy, TablesFollow, FirstOnes
<1>. QED
  BY <1>1, <1>2, <1>3, <1>4, <1>5, <1>6, <1>7, <1>8 DEF Next, Start

\* A commit brings the registry up to the pod's release; nothing else moves it.
LEMMA StepsOfRegistry ==
    TypeOK /\ SchemaInv /\ TablesFollow /\ TablesFollow' /\ [Next]_vars
        => [Registry!Next]_<<applied, tables>>
<1>. SUFFICES ASSUME TypeOK, SchemaInv, TablesFollow, TablesFollow', [Next]_vars
              PROVE  Registry!Next \/ UNCHANGED <<applied, tables>>
  OBVIOUS
<1>1. ASSUME NEW p \in Pods, Commit(p) PROVE Registry!Next
  <2>1. /\ pod[p].at = "migrate" /\ pod[p].next \in Nat /\ pod[p].next > release[p]
        /\ release[p] \in Releases /\ applied' = applied \cup pod[p].new
    BY <1>1, ProcessShapes DEF Commit, TypeOK
  <2>2. Registry!Carried(release[p]) \subseteq applied \cup pod[p].new
    BY <2>1, CarriedTyped DEF SchemaInv, LoopKeepsUp
  <2>3. applied' = applied \cup Registry!Carried(release[p])
    BY <2>1, <2>2 DEF TablesFollow
  <2>4. tables' = Registry!SchemaOf(applied')
    BY DEF TablesFollow
  <2>. QED BY <2>1, <2>3, <2>4 DEF Registry!Next, Registry!Upgrade
<1>2. CASE \A p \in Pods : ~Commit(p)
  BY <1>2 DEF Next, Start, vars, database, Connect, Lock, Migrate, CreateSchedule, UpdateSchedule, Fail, Deploy
<1>. QED
  BY <1>1, <1>2

\* A start of a service, with its transaction, its lock, its failures and the other
\* starts, is to the database one upgrade of its schema or nothing at all.
THEOREM StartupImplementsRegistry == Spec => ImplementsSchemaRegistry
<1>1. Init => TablesFollow /\ Registry!Init
  <2>. SUFFICES ASSUME Init PROVE TablesFollow /\ Registry!Init
    OBVIOUS
  <2>1. applied = {} /\ tables = {} /\ \A p \in Pods : pod[p].at = "down"
    BY DEF Init, Down
  <2>2. Registry!SchemaOf({}) = {}
    BY DEF Registry!SchemaOf
  <2>. QED BY <2>1, <2>2 DEF TablesFollow, FirstOnes, Registry!Init
<1>2. IInv /\ TablesFollow /\ [Next]_vars => TablesFollow'
  BY TablesKept DEF IInv
<1>3. IInv /\ TablesFollow /\ TablesFollow' /\ [Next]_vars => [Registry!Next]_<<applied, tables>>
  BY StepsOfRegistry DEF IInv
<1>. QED
  BY <1>1, <1>2, <1>3, InductiveInvariant, PTL DEF Spec, ImplementsSchemaRegistry, Registry!Spec,
     Registry!schemaVars
================================================================================
