------------------------- MODULE ProbeSchedulingProofs -------------------------
(* Proofs about ProbeScheduling for any providers, sweeps, tasks, interval,      *)
(* number of attempts, of faults and of credential updates.                      *)
EXTENDS ProbeScheduling, TLAPS

--------------------------------------------------------------------------------
(* The inductive invariant.                                                      *)

\* A job that waits has an attempt left.
AttemptsLeft ==
    \A w \in Workflows, p \in Providers, k \in Kinds :
        job[w][p][k].state = "queued" => job[w][p][k].tries < MaxAttempts

\* Only quota probes check a credential, and no task has probed that has not yet
\* come to its probe.
TaskInOrder(t) ==
    /\ task[t].pc = "auth" => task[t].kind = "quota"
    /\ task[t].probed => task[t].pc \in {"save", "read", "record"}

\* A row in hand that nobody has written since is the row that is stored, so that
\* the time a task records does not lie before the stored one.
HeldIsFresh(t) ==
    Holding(t) /\ ~task[t].stale =>
        /\ task[t].held = row[task[t].provider]
        /\ task[t].pc = "record" => row[task[t].provider][task[t].kind] <= task[t].stamp

\* A target whose tasks overlap is excused, and nothing is asked of it any more.
ExcusesNoted ==
    /\ \A u, v \in Tasks :
          u # v /\ Underway(u) /\ Underway(v) /\ Target(u) = Target(v) => Target(u) \in excused
    /\ \A p \in Providers, k \in Kinds : <<p, k>> \in excused => rest[p][k] = Interval

\* A task that was let through on the row's word comes to its probe with the
\* interval behind it, and one that records forbids the rest of the interval.
IntervalHonoured(t) ==
    /\ /\ task[t].pc \in {"auth", "load", "fetch"}
       /\ task[t].owner # "manual"
       => rest[task[t].provider][task[t].kind] = Interval
    /\ task[t].pc = "record" =>
          Interval <= task[t].stamp + rest[task[t].provider][task[t].kind]

\* Until the interval since a probe is over, the row forbids the next, or the task
\* that probed is still to write it.
ProbeRemembered(p, k) ==
    \/ Interval <= row[p][k] + rest[p][k]
    \/ \E t \in Tasks : task[t].probed /\ Target(t) = <<p, k>>

IInv ==
    /\ TypeOK /\ AttemptsLeft /\ ExcusesNoted
    /\ \A t \in Tasks : TaskInOrder(t) /\ HeldIsFresh(t) /\ IntervalHonoured(t)
    /\ \A p \in Providers, k \in Kinds : ProbeRemembered(p, k)

--------------------------------------------------------------------------------
(* What a step makes of the tasks.                                               *)

\* The task of u goes on as it was, but for the workflow that no longer waits for
\* it and the row in hand that it may now find out of date.
Same(u) ==
    /\ task'[u].pc = task[u].pc /\ task'[u].provider = task[u].provider
    /\ task'[u].kind = task[u].kind /\ task'[u].owner = task[u].owner
    /\ task'[u].probed <=> task[u].probed
    /\ task'[u].held = task[u].held /\ task'[u].stamp = task[u].stamp
    /\ Holding(u) /\ ~task'[u].stale =>
          ~task[u].stale /\ row'[task[u].provider] = row[task[u].provider]

OnTarget(t) ==
    /\ task'[t].provider = task[t].provider /\ task'[t].kind = task[t].kind
    /\ task'[t].owner = task[t].owner

Enters(t) ==
    /\ task[t].pc = "idle" /\ task'[t].pc = "preflight" /\ ~task'[t].probed
    /\ UNCHANGED row

Passes(t) ==
    /\ task[t].pc = "preflight" /\ ~Throttled(t) /\ OnTarget(t) /\ ~task'[t].probed
    /\ task'[t].pc = IF task[t].kind = "quota" THEN "auth" ELSE "load"
    /\ UNCHANGED row

Carries(t) ==
    /\ task[t].pc \in {"auth", "load"} /\ OnTarget(t) /\ ~task'[t].probed
    /\ task'[t].pc \in {"fetch", "read"}
    /\ Holding(t)' => task'[t].held = row[task[t].provider]
    /\ UNCHANGED row

Fetched(t) ==
    /\ task[t].pc = "fetch" /\ OnTarget(t) /\ task'[t].probed
    /\ task'[t].pc \in {"save", "read"}
    /\ task'[t].pc = "save" =>
          task[t].kind = "catalog" /\ task'[t].held = task[t].held /\ (task'[t].stale <=> task[t].stale)
    /\ UNCHANGED row

Saves(t) ==
    /\ task[t].pc = "save" /\ OnTarget(t) /\ (task'[t].probed <=> task[t].probed)
    /\ task'[t].pc = "read"
    /\ row' \in {row, [row EXCEPT ![task[t].provider] = task[t].held]}

Reads(t) ==
    /\ task[t].pc = "read" /\ OnTarget(t) /\ (task'[t].probed <=> task[t].probed)
    /\ task'[t].pc = "record" /\ ~task'[t].stale
    /\ task'[t].held = row[task[t].provider] /\ task'[t].stamp = Interval
    /\ UNCHANGED row

Ends(t) ==
    /\ task[t].pc # "idle" /\ task'[t] = Idle
    /\ \/ UNCHANGED row
       \/ task[t].pc = "record" /\ row' = [row EXCEPT ![task[t].provider] = Recorded(t)]
       \/ task[t].pc = "edit" /\ row' = [row EXCEPT ![task[t].provider] = task[t].held]

Opens(t) ==
    /\ task[t].pc = "idle" /\ task'[t].pc = "edit" /\ ~task'[t].probed
    /\ task'[t].held = row[task'[t].provider]
    /\ UNCHANGED row

Acts(t) ==
    /\ \A u \in Tasks \ {t} : Same(u)
    /\ \/ Enters(t) \/ Passes(t) \/ Carries(t) \/ Fetched(t) \/ Saves(t) \/ Reads(t) \/ Ends(t)
       \/ Opens(t)

Rests ==
    /\ UNCHANGED row \/ \E p \in Providers : Register(p)
    /\ \A u \in Tasks : Same(u)

Typed == row' \in [Providers -> Statuses] /\ task' \in [Tasks -> TaskStates]

LEMMA IdleTyped == Idle \in TaskStates /\ Idle.pc = "idle" /\ ~Idle.probed
<1>1. \E p \in Providers : TRUE
  BY ProvidersAssumption
<1>2. Unset \in Statuses
  BY NumbersAssumption DEF Unset, Statuses, Times
<1>3. 0 \in Times
  BY NumbersAssumption DEF Times
<1>. QED
  BY <1>1, <1>2, <1>3 DEF Idle, TaskStates, PCs, Kinds, Owners

\* A task that is left alone in a step that writes no row goes on as it was.
LEMMA AloneIsSame ==
    ASSUME NEW u, task'[u] = task[u], UNCHANGED row
    PROVE  Same(u)
  BY DEF Same

LEMMA GotoMoves ==
    ASSUME TypeOK, NEW t \in Tasks, NEW pc \in PCs, Goto(t, pc)
    PROVE  /\ task' \in [Tasks -> TaskStates]
           /\ \A u \in Tasks \ {t} : task'[u] = task[u]
           /\ OnTarget(t) /\ task'[t].pc = pc /\ (task'[t].probed <=> task[t].probed)
           /\ task'[t].held = task[t].held
<1>. DEFINE n == [task[t] EXCEPT !.pc = pc]
<1>1. task[t] \in TaskStates
  BY DEF TypeOK
<1>2. n \in TaskStates
  BY <1>1 DEF TaskStates
<1>3. /\ n.provider = task[t].provider /\ n.kind = task[t].kind /\ n.owner = task[t].owner
      /\ n.pc = pc /\ (n.probed <=> task[t].probed) /\ n.held = task[t].held
  BY <1>1 DEF TaskStates
<1>4. task' = [task EXCEPT ![t] = n]
  BY DEF Goto
<1>. HIDE DEF n
<1>. QED
  BY <1>2, <1>3, <1>4 DEF TypeOK, OnTarget

LEMMA RowHeld ==
    ASSUME TypeOK, NEW t \in Tasks
    PROVE  /\ task[t] \in TaskStates /\ task[t].provider \in Providers /\ task[t].kind \in Kinds
           /\ task[t].held \in Statuses /\ task[t].stamp \in Times
           /\ row[task[t].provider] \in Statuses
  BY DEF TypeOK, TaskStates

LEMMA RecordedTyped ==
    ASSUME TypeOK, NEW t \in Tasks
    PROVE  /\ Recorded(t) \in Statuses /\ Recorded(t)[task[t].kind] = task[t].stamp
           /\ \A k \in Kinds : k # task[t].kind => Recorded(t)[k] = task[t].held[k]
  BY RowHeld DEF Recorded, Statuses

LEMMA ToRecordMoves ==
    ASSUME NEW tasks \in [Tasks -> TaskStates], NEW t \in Tasks, NEW ok \in BOOLEAN,
           ToRecord(t, tasks, ok)
    PROVE  /\ task' \in [Tasks -> TaskStates]
           /\ \A u \in Tasks \ {t} : task'[u] = tasks[u]
           /\ task'[t].provider = tasks[t].provider /\ task'[t].kind = tasks[t].kind
           /\ task'[t].owner = tasks[t].owner /\ task'[t].pc = "read"
           /\ task'[t].probed <=> tasks[t].probed
<1>. DEFINE n == [tasks[t] EXCEPT !.pc = "read", !.ok = ok, !.held = Unset, !.stale = FALSE]
<1>1. tasks[t] \in TaskStates /\ Unset \in Statuses
  BY NumbersAssumption DEF Unset, Statuses, Times
<1>2. n \in TaskStates
  BY <1>1 DEF TaskStates, PCs
<1>3. /\ n.provider = tasks[t].provider /\ n.kind = tasks[t].kind /\ n.owner = tasks[t].owner
      /\ n.pc = "read" /\ (n.probed <=> tasks[t].probed)
  BY <1>1 DEF TaskStates
<1>4. task' = [tasks EXCEPT ![t] = n]
  BY DEF ToRecord
<1>. HIDE DEF n
<1>. QED
  BY <1>2, <1>3, <1>4

\* Two settings of one field of a task.
LEMMA ProbedEdit ==
    ASSUME NEW c \in TaskStates, NEW b, b = [c EXCEPT !.probed = TRUE]
    PROVE  /\ b \in TaskStates /\ b.probed
           /\ b.pc = c.pc /\ b.provider = c.provider /\ b.kind = c.kind /\ b.owner = c.owner
           /\ b.held = c.held /\ b.stamp = c.stamp /\ (b.stale <=> c.stale)
<1>1. b \in TaskStates
  BY DEF TaskStates
<1>2. /\ b.pc = c.pc /\ b.provider = c.provider /\ b.kind = c.kind /\ b.owner = c.owner
      /\ b.held = c.held /\ b.stamp = c.stamp /\ (b.stale <=> c.stale)
  BY DEF TaskStates
<1>3. b.probed
  BY DEF TaskStates
<1>. QED
  BY <1>1, <1>2, <1>3

LEMMA StaleEdit ==
    ASSUME NEW c \in TaskStates, NEW b, b = [c EXCEPT !.stale = TRUE]
    PROVE  /\ b \in TaskStates /\ b.stale
           /\ b.pc = c.pc /\ b.provider = c.provider /\ b.kind = c.kind /\ b.owner = c.owner
           /\ b.held = c.held /\ b.stamp = c.stamp /\ (b.probed <=> c.probed)
<1>1. b \in TaskStates
  BY DEF TaskStates
<1>2. /\ b.pc = c.pc /\ b.provider = c.provider /\ b.kind = c.kind /\ b.owner = c.owner
      /\ b.held = c.held /\ b.stamp = c.stamp /\ (b.probed <=> c.probed)
  BY DEF TaskStates
<1>3. b.stale
  BY DEF TaskStates
<1>. QED
  BY <1>1, <1>2, <1>3

LEMMA LiveEdit ==
    ASSUME NEW c \in TaskStates, NEW b, b = [c EXCEPT !.live = FALSE]
    PROVE  /\ b \in TaskStates
           /\ b.pc = c.pc /\ b.provider = c.provider /\ b.kind = c.kind /\ b.owner = c.owner
           /\ b.held = c.held /\ b.stamp = c.stamp
           /\ (b.probed <=> c.probed) /\ (b.stale <=> c.stale)
<1>1. b \in TaskStates
  BY DEF TaskStates
<1>2. /\ b.pc = c.pc /\ b.provider = c.provider /\ b.kind = c.kind /\ b.owner = c.owner
      /\ b.held = c.held /\ b.stamp = c.stamp
      /\ (b.probed <=> c.probed) /\ (b.stale <=> c.stale)
  BY DEF TaskStates
<1>. QED
  BY <1>1, <1>2

\* A write of a row makes out of date what the other tasks have read of it.
LEMMA WriteIsNoticed ==
    ASSUME TypeOK, NEW p \in Providers, NEW u \in Tasks, NEW status,
           task'[u] = Outdated(p)[u], row' = [row EXCEPT ![p] = status]
    PROVE  Same(u)
<1>1. CASE task[u].provider = p /\ Holding(u)
  <2>1. task'[u] = [task[u] EXCEPT !.stale = TRUE]
    BY <1>1 DEF Outdated
  <2>. QED BY <2>1, StaleEdit, RowHeld DEF Same
<1>2. CASE ~(task[u].provider = p /\ Holding(u))
  <2>1. task'[u] = task[u]
    BY <1>2 DEF Outdated
  <2>2. Holding(u) => row'[task[u].provider] = row[task[u].provider]
    BY <1>2, RowHeld DEF TypeOK
  <2>. QED BY <2>1, <2>2 DEF Same
<1>. QED
  BY <1>1, <1>2

LEMMA OutdatedTyped ==
    ASSUME TypeOK, NEW p
    PROVE  /\ Outdated(p) \in [Tasks -> TaskStates]
           /\ \A t \in Tasks :
                 /\ Outdated(p)[t].provider = task[t].provider /\ Outdated(p)[t].kind = task[t].kind
                 /\ Outdated(p)[t].owner = task[t].owner
                 /\ Outdated(p)[t].probed <=> task[t].probed
<1>1. \A t \in Tasks : Outdated(p)[t] \in {task[t], [task[t] EXCEPT !.stale = TRUE]}
  BY DEF Outdated
<1>2. \A t \in Tasks : LET b == [task[t] EXCEPT !.stale = TRUE] IN
         /\ b \in TaskStates /\ b.provider = task[t].provider /\ b.kind = task[t].kind
         /\ b.owner = task[t].owner /\ (b.probed <=> task[t].probed)
  BY StaleEdit, RowHeld
<1>3. Outdated(p) = [t \in Tasks |-> Outdated(p)[t]]
  BY DEF Outdated
<1>. QED
  BY <1>1, <1>2, <1>3, RowHeld

LEMMA IdleMoves ==
    ASSUME TypeOK, NEW t \in Tasks, task' = [task EXCEPT ![t] = Idle]
    PROVE  /\ task' \in [Tasks -> TaskStates]
           /\ \A u \in Tasks \ {t} : task'[u] = task[u]
           /\ task'[t] = Idle
  BY IdleTyped DEF TypeOK

LEMMA PreflightActs ==
    ASSUME TypeOK, NEW t \in Tasks, TaskInOrder(t), Preflight(t)
    PROVE  Typed /\ Acts(t)
<1>1. UNCHANGED row
  BY DEF Preflight
<1>2. ASSUME task' = [task EXCEPT ![t] = Idle]
      PROVE  Typed /\ Acts(t)
  BY <1>1, <1>2, IdleMoves, AloneIsSame DEF Acts, Ends, Typed, TypeOK, Preflight
<1>3. ASSUME ~Throttled(t), Goto(t, IF task[t].kind = "quota" THEN "auth" ELSE "load")
      PROVE  Typed /\ Acts(t)
  <2>. DEFINE pc == IF task[t].kind = "quota" THEN "auth" ELSE "load"
  <2>1. pc \in PCs
    BY DEF PCs
  <2>. HIDE DEF pc
  <2>2. Goto(t, pc)
    BY <1>3 DEF pc
  <2>3. Passes(t)
    BY <1>1, <1>3, <2>1, <2>2, GotoMoves DEF Passes, TaskInOrder, Preflight, pc
  <2>. QED BY <1>1, <2>1, <2>2, <2>3, GotoMoves, AloneIsSame DEF Acts, Typed, TypeOK
<1>. QED
  BY <1>2, <1>3 DEF Preflight, End

LEMMA AuthActs ==
    ASSUME TypeOK, NEW t \in Tasks, TaskInOrder(t), Auth(t)
    PROVE  Typed /\ Acts(t)
<1>1. UNCHANGED row /\ task[t].pc = "auth"
  BY DEF Auth
<1>2. PICK pc \in {"fetch", "read"} : Goto(t, pc)
  BY DEF Auth
<1>3. pc \in PCs
  BY DEF PCs
<1>4. ~Holding(t)'
  BY <1>1, <1>2, <1>3, GotoMoves DEF Holding, TaskInOrder, OnTarget
<1>5. Carries(t)
  BY <1>1, <1>2, <1>3, <1>4, GotoMoves DEF Carries, TaskInOrder
<1>. QED
  BY <1>1, <1>2, <1>3, <1>5, GotoMoves, AloneIsSame DEF Acts, Typed, TypeOK

LEMMA LoadActs ==
    ASSUME TypeOK, NEW t \in Tasks, TaskInOrder(t), Load(t)
    PROVE  Typed /\ Acts(t)
<1>1. UNCHANGED row /\ task[t].pc = "load"
  BY DEF Load
<1>2. CASE task' = [task EXCEPT ![t].pc = "fetch", ![t].stale = FALSE,
                                ![t].held = row[task[t].provider]]
  <2>. DEFINE n == [task[t] EXCEPT !.pc = "fetch", !.stale = FALSE, !.held = row[task[t].provider]]
  <2>1. n \in TaskStates
    BY RowHeld DEF TaskStates, PCs
  <2>2. /\ n.provider = task[t].provider /\ n.kind = task[t].kind /\ n.owner = task[t].owner
        /\ n.pc = "fetch" /\ (n.probed <=> task[t].probed) /\ n.held = row[task[t].provider]
    BY RowHeld DEF TaskStates
  <2>3. task' = [task EXCEPT ![t] = n]
    BY <1>2
  <2>. HIDE DEF n
  <2>4. task' \in [Tasks -> TaskStates] /\ task'[t] = n /\ \A u \in Tasks \ {t} : task'[u] = task[u]
    BY <2>1, <2>3 DEF TypeOK
  <2>5. Carries(t)
    BY <1>1, <2>2, <2>4 DEF Carries, OnTarget, TaskInOrder
  <2>. QED BY <1>1, <2>4, <2>5, AloneIsSame DEF Acts, Typed, TypeOK
<1>3. CASE ToRecord(t, task, FALSE)
  <2>1. Carries(t)
    BY <1>1, <1>3, ToRecordMoves DEF Carries, OnTarget, Holding, TypeOK, TaskInOrder
  <2>. QED BY <1>1, <1>3, <2>1, ToRecordMoves, AloneIsSame DEF Acts, Typed, TypeOK
<1>. QED
  BY <1>2, <1>3 DEF Load

LEMMA FetchActs ==
    ASSUME TypeOK, NEW t \in Tasks, Fetch(t)
    PROVE  Typed /\ Acts(t)
<1>. DEFINE b == [task[t] EXCEPT !.probed = TRUE]
            tasks == [task EXCEPT ![t].probed = TRUE]
<1>1. UNCHANGED row /\ task[t].pc = "fetch"
  BY DEF Fetch
<1>2. /\ b \in TaskStates /\ b.probed
      /\ b.pc = task[t].pc /\ b.provider = task[t].provider /\ b.kind = task[t].kind
      /\ b.owner = task[t].owner /\ b.held = task[t].held /\ (b.stale <=> task[t].stale)
  BY RowHeld, ProbedEdit
<1>3. tasks = [task EXCEPT ![t] = b]
  OBVIOUS
<1>. HIDE DEF b
<1>4. /\ tasks \in [Tasks -> TaskStates] /\ tasks[t] = b
      /\ \A u \in Tasks \ {t} : tasks[u] = task[u]
  BY <1>2, <1>3 DEF TypeOK
<1>5. ASSUME task[t].kind = "catalog",
             task' = [task EXCEPT ![t].pc = "save", ![t].probed = TRUE]
      PROVE  Typed /\ Acts(t)
  <2>. DEFINE n == [b EXCEPT !.pc = "save"]
  <2>1. n \in TaskStates
    BY <1>2 DEF TaskStates, PCs
  <2>2. /\ n.provider = task[t].provider /\ n.kind = task[t].kind /\ n.owner = task[t].owner
        /\ n.pc = "save" /\ n.probed /\ n.held = task[t].held /\ (n.stale <=> task[t].stale)
    BY <1>2 DEF TaskStates
  <2>3. task' = [task EXCEPT ![t] = n]
    BY <1>5 DEF TypeOK, TaskStates, b
  <2>. HIDE DEF n
  <2>4. task' \in [Tasks -> TaskStates] /\ task'[t] = n /\ \A u \in Tasks \ {t} : task'[u] = task[u]
    BY <2>1, <2>3 DEF TypeOK
  <2>5. Fetched(t)
    BY <1>1, <1>5, <2>2, <2>4 DEF Fetched, OnTarget
  <2>. QED BY <1>1, <2>4, <2>5, AloneIsSame DEF Acts, Typed, TypeOK
<1>6. ASSUME NEW ok \in BOOLEAN, ToRecord(t, tasks, ok)
      PROVE  Typed /\ Acts(t)
  <2>. HIDE DEF tasks
  <2>1. Fetched(t)
    BY <1>1, <1>2, <1>4, <1>6, ToRecordMoves DEF Fetched, OnTarget
  <2>. QED BY <1>1, <1>4, <1>6, <2>1, ToRecordMoves, AloneIsSame DEF Acts, Typed, TypeOK
<1>. QED
  BY <1>5, <1>6, RowHeld DEF Fetch, Kinds

LEMMA SaveActs ==
    ASSUME TypeOK, NEW t \in Tasks, Save(t)
    PROVE  Typed /\ Acts(t)
<1>1. task[t].pc = "save"
  BY DEF Save
<1>. DEFINE noticed == Outdated(task[t].provider)
<1>2. CASE Store(task[t].provider, task[t].held) /\ ToRecord(t, noticed, TRUE)
  <2>1. row' = [row EXCEPT ![task[t].provider] = task[t].held]
    BY <1>2 DEF Store
  <2>2. row' \in [Providers -> Statuses]
    BY <2>1, RowHeld DEF TypeOK
  <2>3. task' \in [Tasks -> TaskStates] /\ \A u \in Tasks \ {t} : task'[u] = noticed[u]
    BY <1>2, ToRecordMoves, OutdatedTyped
  <2>4. \A u \in Tasks \ {t} : Same(u)
    BY <2>1, <2>3, RowHeld, WriteIsNoticed
  <2>5. /\ task'[t].provider = task[t].provider /\ task'[t].kind = task[t].kind
        /\ task'[t].owner = task[t].owner /\ task'[t].pc = "read"
        /\ task'[t].probed <=> task[t].probed
    <3>1. \A ok \in BOOLEAN : ToRecord(t, noticed, ok) =>
            /\ task'[t].provider = noticed[t].provider /\ task'[t].kind = noticed[t].kind
            /\ task'[t].owner = noticed[t].owner /\ task'[t].pc = "read"
            /\ task'[t].probed <=> noticed[t].probed
      BY OutdatedTyped, ToRecordMoves
    <3>. QED BY <1>2, <3>1, OutdatedTyped
  <2>6. Saves(t)
    BY <1>1, <2>1, <2>5 DEF Saves, OnTarget
  <2>. QED BY <2>2, <2>3, <2>4, <2>6 DEF Acts, Typed
<1>3. CASE ToRecord(t, task, FALSE) /\ UNCHANGED row
  <2>1. Saves(t)
    BY <1>1, <1>3, ToRecordMoves DEF Saves, OnTarget, TypeOK
  <2>. QED BY <1>3, <2>1, ToRecordMoves, AloneIsSame DEF Acts, Typed, TypeOK
<1>. QED
  BY <1>2, <1>3 DEF Save

LEMMA ReadActs ==
    ASSUME TypeOK, NEW t \in Tasks, Read(t)
    PROVE  Typed /\ Acts(t)
<1>1. UNCHANGED row /\ task[t].pc = "read"
  BY DEF Read
<1>2. CASE task' = [task EXCEPT ![t].pc = "record", ![t].stale = FALSE,
                                ![t].stamp = Interval, ![t].held = row[task[t].provider]]
  <2>. DEFINE n == [task[t] EXCEPT !.pc = "record", !.stale = FALSE, !.stamp = Interval,
                                   !.held = row[task[t].provider]]
  <2>0. Interval \in Times /\ "record" \in PCs
    BY NumbersAssumption DEF Times, PCs
  <2>1. n \in TaskStates
    BY <2>0, RowHeld DEF TaskStates
  <2>2. /\ n.provider = task[t].provider /\ n.kind = task[t].kind /\ n.owner = task[t].owner
        /\ n.pc = "record" /\ (n.probed <=> task[t].probed) /\ n.held = row[task[t].provider]
        /\ n.stamp = Interval
    BY RowHeld DEF TaskStates
  <2>3. ~n.stale
    BY RowHeld DEF TaskStates
  <2>4. task' = [task EXCEPT ![t] = n]
    BY <1>2
  <2>. HIDE DEF n
  <2>5. task' \in [Tasks -> TaskStates] /\ task'[t] = n /\ \A u \in Tasks \ {t} : task'[u] = task[u]
    BY <2>1, <2>4 DEF TypeOK
  <2>6. Reads(t)
    BY <1>1, <2>2, <2>3, <2>5 DEF Reads, OnTarget
  <2>. QED BY <1>1, <2>5, <2>6, AloneIsSame DEF Acts, Typed, TypeOK
<1>3. CASE task' = [task EXCEPT ![t] = Idle]
  BY <1>1, <1>3, IdleMoves, AloneIsSame DEF Acts, Ends, Typed, TypeOK
<1>. QED
  BY <1>2, <1>3 DEF Read, End

LEMMA RecordActs ==
    ASSUME TypeOK, NEW t \in Tasks, Record(t)
    PROVE  Typed /\ Acts(t)
<1>1. task[t].pc = "record"
  BY DEF Record
<1>2. CASE UNCHANGED row
  <2>1. task' = [task EXCEPT ![t] = Idle]
    BY <1>2 DEF Record
  <2>. QED BY <1>1, <1>2, <2>1, IdleMoves, AloneIsSame DEF Acts, Ends, Typed, TypeOK
<1>3. CASE row' # row
  <2>1. row' = [row EXCEPT ![task[t].provider] = Recorded(t)]
    BY <1>3 DEF Record, Store
  <2>2. task' = [Outdated(task[t].provider) EXCEPT ![t] = Idle]
    BY <1>3 DEF Record
  <2>3. row' \in [Providers -> Statuses]
    BY <2>1, RowHeld, RecordedTyped DEF TypeOK
  <2>4. /\ task' \in [Tasks -> TaskStates] /\ task'[t] = Idle
        /\ \A u \in Tasks \ {t} : task'[u] = Outdated(task[t].provider)[u]
    BY <2>2, OutdatedTyped, IdleTyped
  <2>5. \A u \in Tasks \ {t} : Same(u)
    BY <2>1, <2>4, RowHeld, WriteIsNoticed
  <2>. QED BY <1>1, <2>1, <2>3, <2>4, <2>5 DEF Acts, Ends, Typed
<1>. QED
  BY <1>2, <1>3

LEMMA DieActs ==
    ASSUME TypeOK, NEW t \in Tasks, Die(t)
    PROVE  Typed /\ Acts(t)
  BY IdleMoves, AloneIsSame DEF Die, Busy, Acts, Ends, Typed, TypeOK

\* A task that starts, for a workflow or for a request.
LEMMA StartActs ==
    ASSUME TypeOK, NEW t \in Tasks, ~Busy(t), UNCHANGED row,
           NEW n \in TaskStates, n.pc = "preflight", ~n.probed, task' = [task EXCEPT ![t] = n]
    PROVE  Typed /\ Acts(t)
<1>1. task' \in [Tasks -> TaskStates] /\ task'[t] = n /\ \A u \in Tasks \ {t} : task'[u] = task[u]
  BY DEF TypeOK
<1>2. Enters(t)
  BY <1>1 DEF Enters, Busy
<1>. QED
  BY <1>1, <1>2, AloneIsSame DEF Acts, Typed, TypeOK

LEMMA DispatchActs ==
    ASSUME TypeOK, NEW w \in Workflows, NEW p \in Providers, NEW k \in Kinds, NEW t \in Tasks,
           Dispatch(w, p, k, t)
    PROVE  Typed /\ Acts(t)
<1>. DEFINE n == [Idle EXCEPT !.pc = "preflight", !.provider = p, !.kind = k,
                              !.owner = w, !.live = TRUE]
<1>1. n \in TaskStates /\ n.pc = "preflight" /\ ~n.probed
  BY IdleTyped DEF TaskStates, PCs, Owners
<1>2. task' = [task EXCEPT ![t] = n] /\ ~Busy(t) /\ UNCHANGED row
  BY DEF Dispatch
<1>. HIDE DEF n
<1>. QED
  BY <1>1, <1>2, StartActs

LEMMA RequestActs ==
    ASSUME TypeOK, NEW t \in Tasks, Request(t)
    PROVE  Typed /\ Acts(t)
<1>1. PICK p \in Providers, k \in Kinds, owner \in {"manual", "rpc"} :
           task' = [task EXCEPT ![t] = [Idle EXCEPT !.pc = "preflight", !.provider = p,
                                                    !.kind = k, !.owner = owner]]
  BY DEF Request
<1>. DEFINE n == [Idle EXCEPT !.pc = "preflight", !.provider = p, !.kind = k, !.owner = owner]
<1>2. n \in TaskStates /\ n.pc = "preflight" /\ ~n.probed
  BY IdleTyped DEF TaskStates, PCs, Owners
<1>3. task' = [task EXCEPT ![t] = n] /\ ~Busy(t) /\ UNCHANGED row
  BY <1>1 DEF Request
<1>. HIDE DEF n
<1>. QED
  BY <1>2, <1>3, StartActs

LEMMA EditActs ==
    ASSUME TypeOK, NEW t \in Tasks, Edit(t)
    PROVE  Typed /\ Acts(t)
<1>1. PICK p \in Providers :
           task' = [task EXCEPT ![t] = [Idle EXCEPT !.pc = "edit", !.provider = p, !.held = row[p]]]
  BY DEF Edit
<1>. DEFINE n == [Idle EXCEPT !.pc = "edit", !.provider = p, !.held = row[p]]
<1>2. row[p] \in Statuses
  BY DEF TypeOK
<1>3. n \in TaskStates /\ n.pc = "edit" /\ ~n.probed /\ n.provider = p /\ n.held = row[p]
  BY <1>2, IdleTyped DEF TaskStates, PCs
<1>4. task' = [task EXCEPT ![t] = n] /\ ~Busy(t) /\ UNCHANGED row
  BY <1>1 DEF Edit
<1>. HIDE DEF n
<1>5. task' \in [Tasks -> TaskStates] /\ task'[t] = n /\ \A u \in Tasks \ {t} : task'[u] = task[u]
  BY <1>3, <1>4 DEF TypeOK
<1>6. Opens(t)
  BY <1>3, <1>4, <1>5 DEF Opens, Busy
<1>. QED
  BY <1>4, <1>5, <1>6, AloneIsSame DEF Acts, Typed, TypeOK

LEMMA SaveEditActs ==
    ASSUME TypeOK, NEW t \in Tasks, SaveEdit(t)
    PROVE  Typed /\ Acts(t)
<1>1. task[t].pc = "edit" /\ row' = [row EXCEPT ![task[t].provider] = task[t].held]
  BY DEF SaveEdit, Store
<1>2. row' \in [Providers -> Statuses]
  BY <1>1, RowHeld DEF TypeOK
<1>3. task' = [Outdated(task[t].provider) EXCEPT ![t] = Idle]
  BY DEF SaveEdit
<1>4. /\ task' \in [Tasks -> TaskStates] /\ task'[t] = Idle
      /\ \A u \in Tasks \ {t} : task'[u] = Outdated(task[t].provider)[u]
  BY <1>3, OutdatedTyped, IdleTyped
<1>5. \A u \in Tasks \ {t} : Same(u)
  BY <1>1, <1>4, RowHeld, WriteIsNoticed
<1>. QED
  BY <1>1, <1>2, <1>4, <1>5 DEF Acts, Ends, Typed

LEMMA RegisterRests ==
    ASSUME TypeOK, NEW p \in Providers, Register(p)
    PROVE  Typed /\ Rests
<1>1. row' = [row EXCEPT ![p] = Unset] /\ task' = Outdated(p)
  BY DEF Register, Store
<1>2. Unset \in Statuses
  BY NumbersAssumption DEF Unset, Statuses, Times
<1>3. \A u \in Tasks : Same(u)
  BY <1>1, WriteIsNoticed
<1>. QED
  BY <1>1, <1>2, <1>3, OutdatedTyped DEF Rests, Typed, TypeOK

LEMMA TimeoutRests ==
    ASSUME TypeOK, NEW w, NEW p, NEW k, Timeout(w, p, k)
    PROVE  Typed /\ Rests
<1>1. UNCHANGED row /\ task' = [t \in Tasks |-> IF Runs(t, w, p, k) THEN [task[t] EXCEPT !.live = FALSE]
                                                ELSE task[t]]
  BY DEF Timeout
<1>2. \A u \in Tasks : Same(u) /\ task'[u] \in TaskStates
  <2>. TAKE u \in Tasks
  <2>1. CASE Runs(u, w, p, k)
    <3>1. task'[u] = [task[u] EXCEPT !.live = FALSE]
      BY <1>1, <2>1
    <3>. QED BY <1>1, <3>1, LiveEdit, RowHeld DEF Same
  <2>2. CASE ~Runs(u, w, p, k)
    BY <1>1, <2>2, RowHeld, AloneIsSame
  <2>. QED BY <2>1, <2>2
<1>. QED
  BY <1>1, <1>2 DEF Rests, Typed, TypeOK

\* The steps of the sweeps, of their timeouts and of the environment leave the
\* course of the tasks alone, and the rows but for a registration; every other step
\* that takes no time is a step of one task.
LEMMA StepShape ==
    ASSUME TypeOK, \A t \in Tasks : TaskInOrder(t), Next, ~Tick
    PROVE  Typed /\ Observe /\ (Rests \/ \E t \in Tasks : Acts(t))
<1>1. ASSUME UNCHANGED <<row, task>> PROVE Typed /\ Rests
  BY <1>1, AloneIsSame DEF Typed, Rests, TypeOK
<1>2. Observe
  BY DEF Next
<1>3. CASE \E w \in Sweeps, k \in Kinds : StartSweep(w, k)
  BY <1>1, <1>2, <1>3 DEF StartSweep
<1>4. CASE \E p \in Providers : SubmitPostConnect(p) \/ UpdateCredential(p) \/ Expire(p)
  BY <1>1, <1>2, <1>4 DEF SubmitPostConnect, UpdateCredential, Expire
<1>5. CASE \E w \in Workflows, p \in Providers, k \in Kinds : Timeout(w, p, k)
  BY <1>2, <1>5, TimeoutRests
<1>6. CASE \E w \in Workflows, p \in Providers, k \in Kinds, t \in Tasks : Dispatch(w, p, k, t)
  BY <1>2, <1>6, DispatchActs
<1>7. CASE \E t \in Tasks : Request(t) \/ Edit(t) \/ Run(t) \/ Die(t)
  BY <1>2, <1>7, RequestActs, DieActs, PreflightActs, AuthActs, LoadActs, FetchActs, SaveActs,
     ReadActs, RecordActs, EditActs, SaveEditActs DEF Run
<1>8. CASE \E p \in Providers : Register(p)
  BY <1>2, <1>8, RegisterRests
<1>. QED
  BY <1>3, <1>4, <1>5, <1>6, <1>7, <1>8 DEF Next

--------------------------------------------------------------------------------
(* What a step makes of the workflows.                                           *)

JobsKept ==
    /\ job' \in [Workflows -> [Providers -> [Kinds -> Jobs]]]
    /\ AttemptsLeft'

LEMMA JobConstants ==
    /\ NoJob \in Jobs /\ NoJob.state = "none"
    /\ NewJob \in Jobs /\ NewJob.state = "queued" /\ NewJob.tries < MaxAttempts
  BY NumbersAssumption DEF NoJob, NewJob, Jobs

LEMMA OneJobChanges ==
    ASSUME TypeOK, AttemptsLeft, NEW w, NEW p \in Providers, NEW k \in Kinds,
           NEW j \in Jobs, j.state = "queued" => j.tries < MaxAttempts,
           job' = [job EXCEPT ![w][p][k] = j]
    PROVE  JobsKept
<1>1. CASE w \in Workflows
  BY <1>1 DEF TypeOK, AttemptsLeft, JobsKept
<1>2. CASE w \notin Workflows
  <2>1. job' = job
    BY <1>2 DEF TypeOK
  <2>. QED BY <2>1 DEF TypeOK, AttemptsLeft, JobsKept
<1>. QED
  BY <1>1, <1>2

LEMMA SettleKeepsJobs ==
    ASSUME TypeOK, AttemptsLeft, NEW w, NEW p \in Providers, NEW k \in Kinds,
           NEW outcome, Settle(w, p, k, outcome)
    PROVE  JobsKept
<1>1. CASE w \notin Workflows
  <2>1. job' = job
    BY <1>1 DEF Settle, Closed, TypeOK
  <2>. QED BY <2>1 DEF TypeOK, AttemptsLeft, JobsKept
<1>2. CASE w \in Workflows /\ outcome = "retryable" /\ job[w][p][k].tries < MaxAttempts
  <2>. DEFINE j == [job[w][p][k] EXCEPT !.state = "queued"]
  <2>1. job[w][p][k] \in Jobs
    BY <1>2 DEF TypeOK
  <2>2. j \in Jobs /\ j.tries < MaxAttempts
    BY <1>2, <2>1 DEF Jobs
  <2>3. job' = [job EXCEPT ![w][p][k] = j]
    BY <1>2 DEF Settle
  <2>. HIDE DEF j
  <2>. QED BY <2>2, <2>3, OneJobChanges
<1>3. CASE /\ w \in Workflows /\ ~(outcome = "retryable" /\ job[w][p][k].tries < MaxAttempts)
           /\ w = "postConnect" /\ k = "catalog"
  <2>. DEFINE v == [job[w][p] EXCEPT !["catalog"] = NoJob, !["quota"] = NewJob]
  <2>1. job[w][p] \in [Kinds -> Jobs]
    BY <1>3 DEF TypeOK
  <2>2. v \in [Kinds -> Jobs] /\ v["catalog"] = NoJob /\ v["quota"] = NewJob
    BY <2>1, JobConstants DEF Kinds
  <2>3. \A i \in Kinds : v[i].state = "queued" => v[i].tries < MaxAttempts
    BY <2>2, JobConstants DEF Kinds
  <2>4. job' = [job EXCEPT ![w][p] = v]
    BY <1>3 DEF Settle, Closed
  <2>. HIDE DEF v
  <2>. QED BY <1>3, <2>2, <2>3, <2>4 DEF TypeOK, AttemptsLeft, JobsKept
<1>4. CASE /\ ~(outcome = "retryable" /\ job[w][p][k].tries < MaxAttempts)
           /\ ~(w = "postConnect" /\ k = "catalog")
  <2>1. job' = [job EXCEPT ![w][p][k] = NoJob]
    BY <1>4 DEF Settle, Closed
  <2>. QED BY <2>1, OneJobChanges, JobConstants
<1>. QED
  BY <1>1, <1>2, <1>3, <1>4

\* The outcome of a task is its workflow's, if one waits for it.
LEMMA OutcomeKeepsJobs ==
    ASSUME TypeOK, AttemptsLeft, NEW t \in Tasks, NEW outcome,
           IF task[t].live THEN Settle(task[t].owner, task[t].provider, task[t].kind, outcome)
           ELSE UNCHANGED job
    PROVE  JobsKept
<1>1. CASE UNCHANGED job
  BY <1>1 DEF TypeOK, AttemptsLeft, JobsKept
<1>2. CASE Settle(task[t].owner, task[t].provider, task[t].kind, outcome)
  BY <1>2, RowHeld, SettleKeepsJobs
<1>. QED
  BY <1>1, <1>2

LEMMA StartKeepsJobs ==
    ASSUME TypeOK, AttemptsLeft, NEW w \in Workflows, NEW k \in Kinds, StartSweep(w, k)
    PROVE  JobsKept
<1>. DEFINE v == [p \in Providers |-> [job[w][p] EXCEPT ![k] = NewJob]]
<1>1. job' = [job EXCEPT ![w] = v]
  BY DEF StartSweep
<1>2. \A p \in Providers : job[w][p] \in [Kinds -> Jobs]
  BY DEF TypeOK
<1>3. v \in [Providers -> [Kinds -> Jobs]]
  BY <1>2, JobConstants
<1>4. \A p \in Providers, i \in Kinds : v[p][i].state = "queued" => v[p][i].tries < MaxAttempts
  BY <1>2, JobConstants DEF AttemptsLeft
<1>. HIDE DEF v
<1>. QED
  BY <1>1, <1>3, <1>4 DEF TypeOK, AttemptsLeft, JobsKept

LEMMA DispatchKeepsJobs ==
    ASSUME TypeOK, AttemptsLeft, NEW w \in Workflows, NEW p \in Providers, NEW k \in Kinds,
           NEW t \in Tasks, Dispatch(w, p, k, t)
    PROVE  JobsKept
<1>. DEFINE j == [state |-> "running", tries |-> job[w][p][k].tries + 1]
<1>1. job[w][p][k] \in Jobs /\ job[w][p][k].tries < MaxAttempts
  BY DEF Dispatch, TypeOK, AttemptsLeft
<1>2. j \in Jobs /\ j.state = "running"
  BY <1>1, NumbersAssumption DEF Jobs
<1>3. job' = [job EXCEPT ![w][p][k] = j]
  BY DEF Dispatch, TypeOK
<1>. HIDE DEF j
<1>. QED
  BY <1>2, <1>3, OneJobChanges

LEMMA JobsAreKept ==
    ASSUME TypeOK, AttemptsLeft, Next
    PROVE  JobsKept
<1>1. ASSUME UNCHANGED job PROVE JobsKept
  BY <1>1 DEF TypeOK, AttemptsLeft, JobsKept
<1>2. ASSUME NEW t \in Tasks, Run(t) PROVE JobsKept
  <2>1. ASSUME NEW outcome, End(t, outcome) PROVE JobsKept
    BY <2>1, OutcomeKeepsJobs DEF End
  <2>2. CASE Preflight(t)
    BY <1>1, <2>1, <2>2 DEF Preflight
  <2>3. CASE Read(t)
    BY <1>1, <2>1, <2>3 DEF Read
  <2>4. CASE Record(t)
    BY <2>4, OutcomeKeepsJobs DEF Record
  <2>5. CASE Auth(t) \/ Load(t) \/ Fetch(t) \/ Save(t) \/ SaveEdit(t)
    BY <1>1, <2>5 DEF Auth, Load, Fetch, Save, SaveEdit
  <2>. QED BY <1>2, <2>2, <2>3, <2>4, <2>5 DEF Run
<1>3. CASE \E w \in Sweeps, k \in Kinds : StartSweep(w, k)
  BY <1>3, StartKeepsJobs DEF Workflows
<1>4. ASSUME NEW p \in Providers, SubmitPostConnect(p) PROVE JobsKept
  <2>1. job' = [job EXCEPT !["postConnect"][p]["catalog"] = NewJob]
    BY <1>4 DEF SubmitPostConnect
  <2>2. "catalog" \in Kinds
    BY DEF Kinds
  <2>. QED BY <2>1, <2>2, OneJobChanges, JobConstants
<1>5. CASE \E w \in Workflows, p \in Providers, k \in Kinds : Timeout(w, p, k)
  BY <1>5, SettleKeepsJobs DEF Timeout
<1>6. CASE \E w \in Workflows, p \in Providers, k \in Kinds, t \in Tasks : Dispatch(w, p, k, t)
  BY <1>6, DispatchKeepsJobs
<1>7. CASE \/ Tick \/ \E t \in Tasks : Request(t) \/ Edit(t) \/ Die(t)
           \/ \E p \in Providers : UpdateCredential(p) \/ Register(p) \/ Expire(p)
  BY <1>1, <1>7 DEF Tick, Request, Edit, Die, UpdateCredential, Register, Expire
<1>. QED
  BY <1>2, <1>3, <1>4, <1>5, <1>6, <1>7 DEF Next

--------------------------------------------------------------------------------
(* What a step makes of the history.                                             *)

Observed ==
    /\ excused \subseteq excused' /\ excused' \subseteq Providers \X Kinds
    /\ rest' \in [Providers -> Statuses]
    /\ \A p \in Providers, k \in Kinds :
          \/ <<p, k>> \in excused' /\ rest'[p][k] = Interval
          \/ <<p, k>> \notin excused' /\ Register(p) /\ rest'[p][k] = Interval
          \/ <<p, k>> \notin excused' /\ ~Register(p) /\ rest'[p][k] = rest[p][k]
          \/ <<p, k>> \notin excused' /\ \E t \in Tasks : Fetches(t) /\ Target(t) = <<p, k>>
    /\ \A u, v \in Tasks :
          u # v /\ Underway(u)' /\ Underway(v)' /\ Target(u)' = Target(v)' => Target(u)' \in excused'
    /\ \A u \in Tasks : Unrecorded(u) => Target(u) \in excused'
    /\ \A u \in Tasks, k \in Kinds : Overwrites(u) => <<task[u].provider, k>> \in excused'

LEMMA ObserveNotes ==
    ASSUME TypeOK, Typed, Observe
    PROVE  Observed
<1>. DEFINE met == {u \in Tasks : /\ Underway(u)'
                                  /\ \E v \in Tasks \ {u} :
                                       Underway(v)' /\ (Target(v) = Target(u))'}
            lost == {u \in Tasks : Unrecorded(u)}
            over == {u \in Tasks : Overwrites(u)}
            Rest(p, k) == IF <<p, k>> \in excused' \/ Register(p) THEN Interval
                          ELSE IF \E t \in Tasks : Fetches(t) /\ Target(t) = <<p, k>> THEN 0
                          ELSE rest[p][k]
<1>1. excused' = excused \cup {Target(t)' : t \in met} \cup {Target(t) : t \in lost}
                         \cup UNION {{task[t].provider} \X Kinds : t \in over}
  BY DEF Observe
<1>2. rest' = [p \in Providers |-> [k \in Kinds |-> Rest(p, k)]]
  BY DEF Observe
<1>3. \A t \in Tasks : /\ Target(t) \in Providers \X Kinds /\ Target(t)' \in Providers \X Kinds
                       /\ task[t].provider \in Providers
  BY RowHeld DEF Target, Typed, TaskStates
<1>4. excused \subseteq excused'
  BY <1>1
<1>5. excused' \subseteq Providers \X Kinds
  BY <1>1, <1>3 DEF TypeOK
<1>6. \A p \in Providers, k \in Kinds : Rest(p, k) \in Times
  BY NumbersAssumption DEF TypeOK, Statuses, Times
<1>7. rest' \in [Providers -> Statuses]
  BY <1>2, <1>6 DEF Statuses
<1>8. ASSUME NEW p \in Providers, NEW k \in Kinds
      PROVE  \/ <<p, k>> \in excused' /\ rest'[p][k] = Interval
             \/ <<p, k>> \notin excused' /\ Register(p) /\ rest'[p][k] = Interval
             \/ <<p, k>> \notin excused' /\ ~Register(p) /\ rest'[p][k] = rest[p][k]
             \/ <<p, k>> \notin excused' /\ \E t \in Tasks : Fetches(t) /\ Target(t) = <<p, k>>
  BY <1>2
<1>9. ASSUME NEW u \in Tasks, NEW v \in Tasks, u # v, Underway(u)', Underway(v)',
             Target(u)' = Target(v)'
      PROVE  Target(u)' \in excused'
  <2>1. u \in met
    BY <1>9
  <2>. QED BY <1>1, <2>1
<1>10. \A u \in Tasks : Unrecorded(u) => Target(u) \in excused'
  BY <1>1
<1>11. ASSUME NEW u \in Tasks, NEW k \in Kinds, Overwrites(u)
       PROVE  <<task[u].provider, k>> \in excused'
  <2>1. <<task[u].provider, k>> \in {task[u].provider} \X Kinds
    OBVIOUS
  <2>2. u \in over
    BY <1>11
  <2>. QED BY <1>1, <2>1, <2>2
<1>. QED
  BY <1>4, <1>5, <1>7, <1>8, <1>9, <1>10, <1>11 DEF Observed

\* What is known of the state and of a step of it that takes no time.
Moves ==
    /\ IInv /\ Typed /\ Observed
    /\ Rests \/ \E t \in Tasks : Acts(t)

\* A step that takes no time moves no next_allowed_at back, unless it is excused or
\* a registration.
LEMMA NeverMovedBack ==
    ASSUME Moves, NEW p \in Providers, NEW k \in Kinds
    PROVE  row[p][k] <= row'[p][k] \/ <<p, k>> \in excused' \/ Register(p)
<1>1. row[p][k] \in Int
  BY NumbersAssumption DEF Moves, IInv, TypeOK, Statuses, Times
<1>2. CASE row' = row
  BY <1>1, <1>2
<1>3. ASSUME NEW t \in Tasks, row' # row, task[t].pc \in {"save", "edit"},
             task'[t].pc \in {"read", "idle"},
             row' = [row EXCEPT ![task[t].provider] = task[t].held]
      PROVE  row[p][k] <= row'[p][k] \/ <<p, k>> \in excused' \/ Register(p)
  <2>1. task[t].stale
    BY <1>3 DEF Moves, IInv, TypeOK, HeldIsFresh, Holding
  <2>2. Overwrites(t)
    BY <1>3, <2>1 DEF Overwrites
  <2>3. CASE p = task[t].provider
    BY <2>2, <2>3 DEF Moves, Observed
  <2>4. CASE p # task[t].provider
    BY <1>1, <1>3, <2>4 DEF Moves, IInv, TypeOK
  <2>. QED BY <2>3, <2>4
<1>4. ASSUME NEW t \in Tasks, row' # row, task[t].pc = "record", task'[t] = Idle,
             row' = [row EXCEPT ![task[t].provider] = Recorded(t)]
      PROVE  row[p][k] <= row'[p][k] \/ <<p, k>> \in excused' \/ Register(p)
  <2>1. CASE p # task[t].provider
    BY <1>1, <1>4, <2>1 DEF Moves, IInv, TypeOK
  <2>2. CASE p = task[t].provider /\ task[t].stale
    <3>1. Overwrites(t)
      BY <1>4, <2>2, IdleTyped DEF Overwrites
    <3>. QED BY <2>2, <3>1 DEF Moves, Observed
  <2>3. CASE p = task[t].provider /\ ~task[t].stale
    <3>1. task[t].held = row[p] /\ row[p][task[t].kind] <= task[t].stamp
      BY <1>4, <2>3 DEF Moves, IInv, HeldIsFresh, Holding
    <3>2. row'[p] = Recorded(t)
      BY <1>4, <2>3 DEF Moves, IInv, TypeOK
    <3>. QED BY <1>1, <3>1, <3>2, RecordedTyped DEF Moves, IInv
  <2>. QED BY <2>1, <2>2, <2>3
<1>5. ASSUME NEW q \in Providers, q # p, Register(q)
      PROVE  row[p][k] <= row'[p][k]
  <2>1. row'[p] = row[p]
    BY <1>5 DEF Register, Store, Moves, IInv, TypeOK
  <2>. QED BY <1>1, <2>1
<1>6. CASE Rests
  BY <1>2, <1>5, <1>6 DEF Rests
<1>7. ASSUME NEW t \in Tasks, Acts(t)
      PROVE  row[p][k] <= row'[p][k] \/ <<p, k>> \in excused' \/ Register(p)
  BY <1>2, <1>3, <1>4, <1>7, IdleTyped
     DEF Acts, Enters, Passes, Carries, Fetched, Saves, Reads, Ends, Opens
<1>. QED
  BY <1>6, <1>7 DEF Moves

\* Only a task that probes starts the history of its target anew, where no other
\* task is underway for it.
LEMMA RestHolds ==
    ASSUME Moves, NEW u \in Tasks, Underway(u), ~Fetches(u)
    PROVE  rest[task[u].provider][task[u].kind] <= rest'[task[u].provider][task[u].kind]
<1>. DEFINE p == task[u].provider
            k == task[u].kind
<1>1. p \in Providers /\ k \in Kinds /\ Target(u) = <<p, k>>
  BY RowHeld DEF Moves, IInv, Target
<1>2. rest[p][k] \in 0 .. Interval /\ Interval \in Nat
  BY <1>1, NumbersAssumption DEF Moves, IInv, TypeOK, Statuses, Times
<1>3. CASE rest'[p][k] \in {rest[p][k], Interval}
  BY <1>2, <1>3
<1>4. ASSUME <<p, k>> \notin excused', NEW t \in Tasks, Fetches(t), Target(t) = <<p, k>>
      PROVE  FALSE
  <2>1. t # u /\ Underway(t)
    BY <1>4 DEF Fetches, Underway
  <2>2. Target(u) \in excused
    BY <1>1, <1>4, <2>1 DEF Moves, IInv, ExcusesNoted
  <2>. QED BY <1>1, <1>4, <2>2 DEF Moves, Observed
<1>. QED
  BY <1>1, <1>3, <1>4 DEF Moves, Observed

--------------------------------------------------------------------------------
(* Steps that take no time keep the invariant.                                   *)

\* A task is the one that acts or goes on as it was.
LEMMA ActsOrSame ==
    ASSUME Moves, NEW u \in Tasks
    PROVE  \/ Same(u)
           \/ Enters(u) \/ Passes(u) \/ Carries(u) \/ Fetched(u) \/ Saves(u) \/ Reads(u) \/ Ends(u)
           \/ Opens(u)
  BY DEF Moves, Rests, Acts

LEMMA FetchesActs ==
    ASSUME Moves, NEW t \in Tasks, Fetches(t)
    PROVE  Fetched(t)
<1>1. task[t].pc = "fetch" /\ task'[t].probed /\ ~task[t].probed
  BY DEF Fetches, Moves, IInv, TaskInOrder
<1>2. ~Same(t)
  BY <1>1 DEF Same
<1>3. ~Ends(t)
  BY <1>1, IdleTyped DEF Ends
<1>. QED
  BY <1>1, <1>2, <1>3, ActsOrSame DEF Enters, Passes, Carries, Saves, Reads, Opens

LEMMA TasksStayInOrder ==
    ASSUME Moves, NEW u \in Tasks
    PROVE  TaskInOrder(u)'
<1>1. TaskInOrder(u)
  BY DEF Moves, IInv
<1>2. CASE Same(u)
  BY <1>1, <1>2 DEF Same, TaskInOrder
<1>3. CASE Ends(u)
  <2>1. task'[u].pc = "idle" /\ ~task'[u].probed
    BY <1>3, IdleTyped DEF Ends
  <2>. QED BY <2>1 DEF TaskInOrder
<1>4. CASE \/ Enters(u) \/ Passes(u) \/ Carries(u) \/ Fetched(u) \/ Saves(u) \/ Reads(u)
           \/ Opens(u)
  BY <1>1, <1>4 DEF Enters, Passes, Carries, Fetched, Saves, Reads, Opens, OnTarget, TaskInOrder
<1>. QED
  BY <1>2, <1>3, <1>4, ActsOrSame

LEMMA HeldStaysFresh ==
    ASSUME Moves, NEW u \in Tasks
    PROVE  HeldIsFresh(u)'
<1>1. HeldIsFresh(u) /\ TaskInOrder(u)
  BY DEF Moves, IInv
<1>2. CASE Same(u)
  <2>. SUFFICES ASSUME Holding(u)', ~task'[u].stale
                PROVE  /\ task'[u].held = row'[task'[u].provider]
                       /\ task'[u].pc = "record" =>
                             row'[task'[u].provider][task'[u].kind] <= task'[u].stamp
    BY DEF HeldIsFresh
  <2>1. Holding(u)
    BY <1>2 DEF Holding, Same
  <2>. QED BY <1>1, <1>2, <2>1 DEF Same, HeldIsFresh
<1>3. CASE Ends(u) \/ Enters(u) \/ Passes(u) \/ Saves(u)
  <2>1. ~Holding(u)'
    BY <1>3, IdleTyped DEF Ends, Enters, Passes, Saves, Holding
  <2>. QED BY <2>1 DEF HeldIsFresh
<1>4. CASE Carries(u)
  BY <1>4 DEF Carries, OnTarget, HeldIsFresh
<1>5. CASE Fetched(u)
  BY <1>1, <1>5 DEF Fetched, OnTarget, HeldIsFresh, Holding
<1>6. CASE Reads(u)
  <2>1. row[task[u].provider][task[u].kind] \in Times
    BY RowHeld DEF Moves, IInv, Statuses
  <2>. QED BY <1>6, <2>1, NumbersAssumption DEF Reads, OnTarget, HeldIsFresh, Times
<1>7. CASE Opens(u)
  BY <1>7 DEF Opens, HeldIsFresh
<1>. QED
  BY <1>2, <1>3, <1>4, <1>5, <1>6, <1>7, ActsOrSame

LEMMA ExcusesStayNoted ==
    ASSUME Moves
    PROVE  ExcusesNoted'
<1>1. \A u, v \in Tasks :
          u # v /\ Underway(u)' /\ Underway(v)' /\ Target(u)' = Target(v)' => Target(u)' \in excused'
  BY DEF Moves, Observed
<1>2. \A p \in Providers, k \in Kinds : <<p, k>> \in excused' => rest'[p][k] = Interval
  BY DEF Moves, Observed
<1>. QED
  BY <1>1, <1>2 DEF ExcusesNoted

\* The interval is over for a task that passes the check of its preflight.
LEMMA PassesRested ==
    ASSUME Moves, NEW u \in Tasks, Passes(u), task[u].owner # "manual"
    PROVE  rest'[task[u].provider][task[u].kind] = Interval
<1>. DEFINE p == task[u].provider
            k == task[u].kind
<1>1. p \in Providers /\ k \in Kinds /\ Target(u) = <<p, k>>
  BY RowHeld DEF Moves, IInv, Target
<1>2. rest[p][k] \in 0 .. Interval /\ row[p][k] \in 0 .. Interval /\ Interval \in Nat
  BY <1>1, NumbersAssumption DEF Moves, IInv, TypeOK, Statuses, Times
<1>3. row[p][k] = 0
  BY <1>2 DEF Passes, Throttled
<1>4. Underway(u)' /\ Target(u)' = <<p, k>>
  BY DEF Passes, OnTarget, Underway, Target
<1>5. CASE <<p, k>> \in excused'
  BY <1>1, <1>5 DEF Moves, Observed
<1>6. CASE <<p, k>> \notin excused'
  <2>1. ASSUME NEW t \in Tasks, task[t].probed, Target(t) = <<p, k>>, Same(t)
        PROVE  FALSE
    <3>1. t # u
      BY <2>1 DEF Moves, IInv, TaskInOrder, Passes
    <3>2. Underway(t)' /\ Target(t)' = <<p, k>>
      BY <2>1 DEF Same, Underway, Target, Moves, IInv, TaskInOrder
    <3>. QED BY <1>4, <1>6, <3>1, <3>2 DEF Moves, Observed
  <2>2. \A t \in Tasks : task[t].probed /\ Target(t) = <<p, k>> => Same(t)
    <3>1. \A t \in Tasks \ {u} : Same(t)
      BY DEF Moves, Rests, Acts, Passes, Enters, Carries, Fetched, Saves, Reads, Ends,
         Opens, Same
    <3>. QED BY <3>1 DEF Moves, IInv, TaskInOrder, Passes
  <2>3. Interval <= row[p][k] + rest[p][k]
    BY <1>1, <2>1, <2>2 DEF Moves, IInv, ProbeRemembered
  <2>4. rest[p][k] = Interval
    BY <1>2, <1>3, <2>3
  <2>5. ASSUME NEW t \in Tasks, Fetches(t), Target(t) = <<p, k>> PROVE FALSE
    <3>1. Underway(t)' /\ Target(t)' = <<p, k>> /\ t # u
      BY <2>5, FetchesActs DEF Passes, Fetched, OnTarget, Target, Underway
    <3>. QED BY <1>4, <1>6, <3>1 DEF Moves, Observed
  <2>. QED BY <1>1, <1>6, <2>4, <2>5 DEF Moves, Observed
<1>. QED
  BY <1>5, <1>6

LEMMA IntervalStaysHonoured ==
    ASSUME Moves, NEW u \in Tasks
    PROVE  IntervalHonoured(u)'
<1>. DEFINE p == task[u].provider
            k == task[u].kind
<1>1. p \in Providers /\ k \in Kinds /\ task[u].stamp \in 0 .. Interval /\ Interval \in Nat
  BY RowHeld, NumbersAssumption DEF Moves, IInv, Times
<1>2. rest[p][k] \in 0 .. Interval /\ rest'[p][k] \in 0 .. Interval
  BY <1>1 DEF Moves, IInv, TypeOK, Observed, Statuses, Times
<1>3. IntervalHonoured(u) /\ TaskInOrder(u)
  BY DEF Moves, IInv
<1>4. CASE Same(u)
  <2>1. task'[u].pc \in {"auth", "load", "fetch", "record"} => Underway(u) /\ ~Fetches(u)
    BY <1>3, <1>4 DEF Same, Underway, Fetches, TaskInOrder
  <2>. QED BY <1>1, <1>2, <1>3, <1>4, <2>1, RestHolds DEF Same, IntervalHonoured
<1>5. CASE Carries(u)
  <2>1. Underway(u) /\ ~Fetches(u)
    BY <1>5 DEF Carries, Underway, Fetches
  <2>. QED BY <1>1, <1>2, <1>3, <1>5, <2>1, RestHolds DEF Carries, OnTarget, IntervalHonoured
<1>6. CASE Passes(u)
  BY <1>6, PassesRested DEF Passes, OnTarget, IntervalHonoured
<1>7. CASE Reads(u)
  BY <1>1, <1>2, <1>7 DEF Reads, OnTarget, IntervalHonoured
<1>8. CASE Enters(u) \/ Fetched(u) \/ Saves(u) \/ Ends(u) \/ Opens(u)
  <2>1. task'[u].pc \in {"preflight", "save", "read", "idle", "edit"}
    BY <1>8, IdleTyped DEF Enters, Fetched, Saves, Ends, Opens
  <2>. QED BY <2>1 DEF IntervalHonoured
<1>. QED
  BY <1>4, <1>5, <1>6, <1>7, <1>8, ActsOrSame

LEMMA ProbesStayRemembered ==
    ASSUME Moves, NEW p \in Providers, NEW k \in Kinds
    PROVE  ProbeRemembered(p, k)'
<1>1. /\ rest[p][k] \in 0 .. Interval /\ rest'[p][k] \in 0 .. Interval
      /\ row[p][k] \in 0 .. Interval /\ row'[p][k] \in 0 .. Interval /\ Interval \in Nat
  BY NumbersAssumption DEF Moves, IInv, TypeOK, Observed, Typed, Statuses, Times
<1>2. CASE rest'[p][k] = Interval
  BY <1>1, <1>2 DEF ProbeRemembered
<1>3. ASSUME NEW t \in Tasks, Fetches(t), Target(t) = <<p, k>>
      PROVE  ProbeRemembered(p, k)'
  <2>1. Fetched(t)
    BY <1>3, FetchesActs
  <2>2. task'[t].probed /\ Target(t)' = <<p, k>>
    BY <1>3, <2>1 DEF Fetched, OnTarget, Target
  <2>. QED BY <2>2 DEF ProbeRemembered
<1>4. CASE <<p, k>> \notin excused' /\ ~Register(p) /\ rest'[p][k] = rest[p][k]
  <2>1. row[p][k] <= row'[p][k]
    BY <1>4, NeverMovedBack
  <2>2. CASE Interval <= row[p][k] + rest[p][k]
    BY <1>1, <1>4, <2>1, <2>2 DEF ProbeRemembered
  <2>3. ASSUME NEW t \in Tasks, task[t].probed, Target(t) = <<p, k>>
        PROVE  ProbeRemembered(p, k)'
    <3>1. task[t].pc \in {"save", "read", "record"} /\ task[t].provider = p /\ task[t].kind = k
      BY <2>3 DEF Moves, IInv, TaskInOrder, Target
    <3>2. CASE Same(t) \/ Saves(t) \/ Reads(t)
      <4>1. task'[t].probed /\ Target(t)' = <<p, k>>
        BY <2>3, <3>2 DEF Same, Saves, Reads, OnTarget, Target
      <4>. QED BY <4>1 DEF ProbeRemembered
    <3>3. CASE Ends(t)
      <4>1. ~Unrecorded(t)
        BY <1>4, <2>3 DEF Moves, Observed
      <4>2. task[t].pc = "record" /\ row'[p][k] = task[t].stamp
        BY <2>3, <3>1, <3>3, <4>1 DEF Unrecorded, Ends
      <4>3. Interval <= task[t].stamp + rest[p][k]
        BY <3>1, <4>2 DEF Moves, IInv, IntervalHonoured
      <4>. QED BY <1>4, <4>2, <4>3 DEF ProbeRemembered
    <3>. QED BY <3>1, <3>2, <3>3, ActsOrSame DEF Enters, Passes, Carries, Fetched, Opens
  <2>. QED BY <2>2, <2>3 DEF Moves, IInv, ProbeRemembered
<1>. QED
  BY <1>2, <1>3, <1>4 DEF Moves, Observed

--------------------------------------------------------------------------------
(* Time keeps the invariant.                                                     *)

LEMMA TickMoves ==
    ASSUME TypeOK, Tick, NEW u \in Tasks
    PROVE  /\ task'[u] \in TaskStates
           /\ task'[u].pc = task[u].pc /\ task'[u].provider = task[u].provider
           /\ task'[u].kind = task[u].kind /\ task'[u].owner = task[u].owner
           /\ task'[u].probed <=> task[u].probed
           /\ task'[u].stale <=> task[u].stale
           /\ task'[u].held = [k \in Kinds |-> Less(task[u].held[k])]
           /\ task'[u].stamp = Less(task[u].stamp)
<1>. DEFINE h == [k \in Kinds |-> Less(task[u].held[k])]
            m == Less(task[u].stamp)
            n == [task[u] EXCEPT !.held = h, !.stamp = m]
<1>1. task'[u] = n
  BY DEF Tick
<1>2. h \in Statuses /\ m \in Times
  BY RowHeld, NumbersAssumption DEF Statuses, Times, Less
<1>. HIDE DEF h, m
<1>3. n \in TaskStates
  BY <1>2, RowHeld DEF TaskStates
<1>4. /\ n.pc = task[u].pc /\ n.provider = task[u].provider
      /\ n.kind = task[u].kind /\ n.owner = task[u].owner
      /\ (n.probed <=> task[u].probed) /\ (n.stale <=> task[u].stale)
      /\ n.held = h /\ n.stamp = m
  BY RowHeld DEF TaskStates
<1>. QED
  BY <1>1, <1>3, <1>4 DEF h, m

LEMMA TickTyped ==
    ASSUME TypeOK, Tick
    PROVE  /\ Typed
           /\ rest' \in [Providers -> Statuses]
           /\ \A p \in Providers, k \in Kinds :
                 row'[p][k] = Less(row[p][k]) /\ rest'[p][k] = Later(rest[p][k])
<1>1. row' = [p \in Providers |-> [k \in Kinds |-> Less(row[p][k])]]
  BY DEF Tick
<1>2. rest' = [p \in Providers |-> [k \in Kinds |-> Later(rest[p][k])]]
  BY DEF Tick
<1>3. \A p \in Providers, k \in Kinds : Less(row[p][k]) \in Times /\ Later(rest[p][k]) \in Times
  BY NumbersAssumption DEF TypeOK, Statuses, Times, Less, Later
<1>4. task' = [t \in Tasks |-> task'[t]]
  BY DEF Tick
<1>. QED
  BY <1>1, <1>2, <1>3, <1>4, TickMoves DEF Typed, Statuses

LEMMA TickKeeps ==
    ASSUME IInv, Tick
    PROVE  IInv'
<1>0. TypeOK
  BY DEF IInv
<1>1. TypeOK'
  BY <1>0, TickTyped DEF Tick, Typed, TypeOK
<1>2. AttemptsLeft'
  BY DEF IInv, Tick, AttemptsLeft
<1>3. \A p \in Providers, k \in Kinds :
         /\ rest[p][k] \in 0 .. Interval /\ row[p][k] \in 0 .. Interval /\ Interval \in Nat
         /\ rest'[p][k] = Later(rest[p][k]) /\ row'[p][k] = Less(row[p][k])
  BY <1>0, TickTyped, NumbersAssumption DEF TypeOK, Statuses, Times
<1>4. ExcusesNoted'
  <2>1. \A u \in Tasks : (Underway(u)' <=> Underway(u)) /\ Target(u)' = Target(u)
    BY <1>0, TickMoves DEF Underway, Target
  <2>2. UNCHANGED excused
    BY DEF Tick
  <2>3. \A p \in Providers, k \in Kinds : <<p, k>> \in excused => rest'[p][k] = Interval
    BY <1>3 DEF IInv, ExcusesNoted, Later
  <2>. QED BY <2>1, <2>2, <2>3 DEF IInv, ExcusesNoted
<1>5. ASSUME NEW t \in Tasks
      PROVE  TaskInOrder(t)' /\ HeldIsFresh(t)' /\ IntervalHonoured(t)'
  <2>. DEFINE p == task[t].provider
              k == task[t].kind
  <2>1. p \in Providers /\ k \in Kinds /\ task[t].stamp \in 0 .. Interval
    BY <1>0, RowHeld DEF Times
  <2>1a. /\ rest[p][k] \in 0 .. Interval /\ row[p][k] \in 0 .. Interval /\ Interval \in Nat
        /\ rest'[p][k] = Later(rest[p][k]) /\ row'[p][k] = Less(row[p][k])
    BY <1>3, <2>1
  <2>1b. /\ task'[t].pc = task[t].pc /\ task'[t].provider = p /\ task'[t].kind = k
         /\ task'[t].owner = task[t].owner /\ task'[t].stamp = Less(task[t].stamp)
    BY <1>0, TickMoves
  <2>2. TaskInOrder(t)'
    BY <1>0, TickMoves DEF IInv, TaskInOrder
  <2>3. HeldIsFresh(t)'
    <3>. SUFFICES ASSUME Holding(t)', ~task'[t].stale
                  PROVE  /\ task'[t].held = row'[p]
                         /\ task'[t].pc = "record" => row'[p][k] <= task'[t].stamp
      BY <1>0, TickMoves DEF HeldIsFresh
    <3>1. Holding(t) /\ ~task[t].stale
      BY <1>0, TickMoves DEF Holding
    <3>2. task[t].held = row[p]
      BY <3>1 DEF IInv, HeldIsFresh
    <3>3. row'[p] = [i \in Kinds |-> Less(row[p][i])]
      BY <2>1 DEF Tick
    <3>4. task'[t].held = row'[p]
      BY <1>0, <3>2, <3>3, TickMoves
    <3>5. task[t].pc = "record" => row[p][k] <= task[t].stamp
      BY <3>1 DEF IInv, HeldIsFresh
    <3>6. task'[t].pc = "record" => row'[p][k] <= task'[t].stamp
      BY <2>1, <2>1a, <2>1b, <3>5 DEF Less
    <3>. QED BY <3>4, <3>6
  <2>4. IntervalHonoured(t)'
    <3>1. IntervalHonoured(t)
      BY DEF IInv
    <3>2. /\ task'[t].pc \in {"auth", "load", "fetch"} /\ task'[t].owner # "manual"
             => rest'[p][k] = Interval
      BY <2>1a, <2>1b, <3>1 DEF IntervalHonoured, Later
    <3>3. task'[t].pc = "record" => Interval <= task'[t].stamp + rest'[p][k]
      BY <2>1, <2>1a, <2>1b, <3>1 DEF IntervalHonoured, Less, Later
    <3>. QED BY <2>1b, <3>2, <3>3 DEF IntervalHonoured
  <2>. QED BY <2>2, <2>3, <2>4
<1>6. ASSUME NEW p \in Providers, NEW k \in Kinds
      PROVE  ProbeRemembered(p, k)'
  <2>1. CASE Interval <= row[p][k] + rest[p][k]
    BY <1>3, <2>1 DEF ProbeRemembered, Less, Later
  <2>2. ASSUME NEW t \in Tasks, task[t].probed, Target(t) = <<p, k>>
        PROVE  ProbeRemembered(p, k)'
    <3>1. task'[t].probed /\ Target(t)' = <<p, k>>
      BY <1>0, <2>2, TickMoves DEF Target
    <3>. QED BY <3>1 DEF ProbeRemembered
  <2>. QED BY <2>1, <2>2 DEF IInv, ProbeRemembered
<1>. QED
  BY <1>1, <1>2, <1>4, <1>5, <1>6 DEF IInv

--------------------------------------------------------------------------------
(* The theorems.                                                                 *)

\* The bound counters and the sets of providers are of their types.
LEMMA SetsTyped ==
    ASSUME TypeOK, Next
    PROVE  ready' \subseteq Providers /\ owed' \subseteq Providers
           /\ faults' \in 0 .. MaxFaults /\ updates' \in 0 .. MaxUpdates
<1>. DEFINE Counts == /\ UNCHANGED faults \/ Fault
                      /\ UNCHANGED updates \/ (updates < MaxUpdates /\ updates' = updates + 1)
                      /\ ready' \subseteq Providers /\ owed' \subseteq Providers
<1>1. ASSUME Tick PROVE Counts
  BY <1>1 DEF Tick, TypeOK
<1>2. ASSUME NEW w \in Sweeps, NEW k \in Kinds, StartSweep(w, k) PROVE Counts
  BY <1>2 DEF StartSweep, TypeOK
<1>3. ASSUME NEW p \in Providers, SubmitPostConnect(p) PROVE Counts
  BY <1>3 DEF SubmitPostConnect, TypeOK
<1>4. ASSUME NEW w \in Workflows, NEW p \in Providers, NEW k \in Kinds,
             Timeout(w, p, k) \/ \E t \in Tasks : Dispatch(w, p, k, t)
      PROVE  Counts
  BY <1>4 DEF Timeout, Dispatch, TypeOK
<1>5. ASSUME NEW t \in Tasks, Request(t) \/ Edit(t) \/ Die(t) PROVE Counts
  BY <1>5 DEF Request, Edit, Die, TypeOK
<1>6. ASSUME NEW t \in Tasks, Run(t) PROVE Counts
  BY <1>6 DEF Run, Preflight, Auth, Load, Fetch, Save, Read, Record, SaveEdit, TypeOK
<1>7. ASSUME NEW p \in Providers, UpdateCredential(p) \/ Register(p) \/ Expire(p) PROVE Counts
  BY <1>7 DEF UpdateCredential, Register, Expire, TypeOK
<1>8. Counts
  <2>. HIDE DEF Counts
  <2>. QED BY <1>1, <1>2, <1>3, <1>4, <1>5, <1>6, <1>7 DEF Next
<1>9. faults' \in 0 .. MaxFaults
  BY <1>8, NumbersAssumption DEF Fault, TypeOK
<1>10. updates' \in 0 .. MaxUpdates
  BY <1>8, NumbersAssumption DEF TypeOK
<1>. QED
  BY <1>8, <1>9, <1>10

LEMMA StepMoves ==
    ASSUME IInv, Next, ~Tick
    PROVE  Moves
<1>1. Typed /\ Observe /\ (Rests \/ \E t \in Tasks : Acts(t))
  BY StepShape DEF IInv
<1>2. Observed
  BY <1>1, ObserveNotes DEF IInv
<1>. QED
  BY <1>1, <1>2 DEF Moves

LEMMA InductiveInvariant == Spec => []IInv
<1>1. Init => IInv
  <2>. SUFFICES ASSUME Init PROVE IInv
    OBVIOUS
  <2>1. Unset \in Statuses /\ Interval \in Times
    BY NumbersAssumption DEF Unset, Statuses, Times
  <2>2. /\ \A t \in Tasks : task[t] = Idle
        /\ \A p \in Providers, k \in Kinds : rest[p][k] = Interval /\ row[p][k] = 0
        /\ excused = {}
    BY DEF Init, Unset
  <2>3. TypeOK
    BY <2>1, IdleTyped, JobConstants, NumbersAssumption DEF Init, TypeOK, Statuses
  <2>4. AttemptsLeft
    BY JobConstants DEF Init, AttemptsLeft
  <2>5. ExcusesNoted
    BY <2>2, IdleTyped DEF ExcusesNoted, Underway
  <2>6. \A t \in Tasks : TaskInOrder(t) /\ HeldIsFresh(t) /\ IntervalHonoured(t)
    BY <2>2, IdleTyped DEF TaskInOrder, HeldIsFresh, IntervalHonoured, Holding
  <2>7. \A p \in Providers, k \in Kinds : ProbeRemembered(p, k)
    BY <2>2, NumbersAssumption DEF ProbeRemembered
  <2>. QED BY <2>3, <2>4, <2>5, <2>6, <2>7 DEF IInv
<1>2. IInv /\ [Next]_vars => IInv'
  <2>. SUFFICES ASSUME IInv, [Next]_vars PROVE IInv'
    OBVIOUS
  <2>1. CASE UNCHANGED vars
    BY <2>1 DEF vars, IInv, TypeOK, AttemptsLeft, ExcusesNoted, TaskInOrder, HeldIsFresh, Holding,
       IntervalHonoured, ProbeRemembered, Underway, Target
  <2>2. CASE Tick
    BY <2>2, TickKeeps
  <2>3. CASE Next /\ ~Tick
    <3>1. Moves
      BY <2>3, StepMoves
    <3>2. TypeOK' /\ AttemptsLeft'
      BY <2>3, <3>1, JobsAreKept, SetsTyped DEF Moves, IInv, Typed, Observed, JobsKept, TypeOK
    <3>3. ExcusesNoted'
      BY <3>1, ExcusesStayNoted
    <3>4. \A t \in Tasks : TaskInOrder(t)' /\ HeldIsFresh(t)' /\ IntervalHonoured(t)'
      BY <3>1, TasksStayInOrder, HeldStaysFresh, IntervalStaysHonoured
    <3>5. \A p \in Providers, k \in Kinds : ProbeRemembered(p, k)'
      BY <3>1, ProbesStayRemembered
    <3>. QED BY <3>2, <3>3, <3>4, <3>5 DEF IInv
  <2>. QED BY <2>1, <2>2, <2>3
<1>. QED
  BY <1>1, <1>2, PTL DEF Spec

\* No provider is probed within the minimum interval of its last probe since it was
\* registered, except on a user's demand, or after two tasks for it overlapped, one
\* ended without a record, or a stale write replaced the provider's row: for any
\* number of providers, sweeps, tasks and edits, any interval and any number of
\* attempts, whatever fails and however often the provider is registered again.
THEOREM IntervalIsKept == Spec => MinimumIntervalKept
<1>1. ASSUME IInv, [Next]_vars, NEW t \in Tasks, Fetches(t), task[t].owner # "manual",
             rest[task[t].provider][task[t].kind] < Interval
      PROVE  Target(t) \in excused
  <2>1. rest[task[t].provider][task[t].kind] = Interval
    BY <1>1 DEF IInv, IntervalHonoured, Fetches
  <2>. QED BY <1>1, <2>1, NumbersAssumption
<1>2. IInv /\ [Next]_vars =>
        [\A t \in Tasks :
           /\ Fetches(t)
           /\ task[t].owner # "manual"
           /\ rest[task[t].provider][task[t].kind] < Interval
           => Target(t) \in excused]_vars
  BY <1>1
<1>. QED
  BY <1>2, InductiveInvariant, PTL DEF Spec, MinimumIntervalKept

\* next_allowed_at moves on only with time, forwards and never further ahead than
\* the interval, whatever the tasks and edits that read, change and write the row do
\* to it, unless two tasks overlapped, one ended unrecorded, one or an edit wrote a
\* stale row, or the provider is registered again by a reauthorization.
THEOREM NextAllowedMovesForward == Spec => NextAllowedAdvances
<1>1. ASSUME IInv, Next, ~Tick, NEW p \in Providers, NEW k \in Kinds, row'[p][k] < row[p][k]
      PROVE  <<p, k>> \in excused' \/ Register(p)
  <2>1. Moves
    BY <1>1, StepMoves
  <2>2. row[p][k] \in Int /\ row'[p][k] \in Int
    BY <2>1, NumbersAssumption DEF Moves, IInv, Typed, TypeOK, Statuses, Times
  <2>. QED BY <1>1, <2>1, <2>2, NeverMovedBack
<1>2. IInv /\ [Next]_vars =>
        [Tick \/ \A p \in Providers, k \in Kinds :
                    row'[p][k] < row[p][k] => <<p, k>> \in excused' \/ Register(p)]_vars
  BY <1>1
<1>3. IInv => TypeOK
  BY DEF IInv
<1>. QED
  BY <1>2, <1>3, InductiveInvariant, PTL DEF Spec, NextAllowedAdvances

================================================================================
