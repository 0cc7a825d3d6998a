---------------------------- MODULE ProbeScheduling ----------------------------
(***************************************************************************)
(* When providers are probed.  RunQuotaProbeTask and                       *)
(* RunModelCatalogProbeTask check the provider's next_allowed_at, probe,   *)
(* and record a new one.  They run as Temporal activities of the sweeps    *)
(* (one started by a schedule every minute, one by a user) and of the      *)
(* post-connect workflow, and inside requests.  Only the row of the        *)
(* provider holds them apart.  Whoever changes a part of it, a probe task  *)
(* or a request that renames the provider, reads the row, changes it in    *)
(* memory and writes the whole; a reauthorization puts a new row in its    *)
(* place without reading it.                                               *)
(***************************************************************************)
EXTENDS Integers

CONSTANTS
  Providers,
  Sweeps,      \* sweep workflow ids of each kind: "schedule", "user"
  Tasks,       \* goroutines that run a probe task or an edit
  Interval,    \* minimum interval between probes, in ticks
  MaxAttempts, \* MaximumAttempts of probeActivityOptions
  MaxFaults,   \* bound: how often something fails
  MaxUpdates   \* bound: how often a credential is updated

ASSUME SweepsAssumption == Sweeps \subseteq {"schedule", "user"}
ASSUME ProvidersAssumption == Providers # {}
ASSUME NumbersAssumption ==
  /\ Interval \in Nat \ {0}
  /\ MaxAttempts \in Nat \ {0}
  /\ MaxFaults \in Nat
  /\ MaxUpdates \in Nat

VARIABLES
  row,      \* time left to next_allowed_at in each provider's probe status
  ready,    \* external: providers whose quota credential has its material
  job,      \* activities of the open workflows
  task,     \* what each goroutine executes
  rest,     \* history: time since a target's last probe, up to Interval
  excused,  \* history: targets whose tasks overlapped or went unrecorded
  owed,     \* history: providers not probed since their credential was updated
  faults,   \* bound counter
  updates   \* bound counter

vars == <<row, ready, job, task, rest, excused, owed, faults, updates>>

-------------------------------------------------------------------------------
(* State.                                                                    *)

Kinds == {"catalog", "quota"}
Workflows == Sweeps \cup {"postConnect"}
Owners == Workflows \cup {"manual", "rpc"}
Times == 0 .. Interval
Statuses == [Kinds -> Times]
PCs == {"idle", "preflight", "auth", "load", "fetch", "save", "read", "record", "edit"}

\* held is the probe status in the row the task has read, stale says that the
\* row was written since; live that a workflow waits for the task's outcome.
TaskStates ==
  [pc : PCs, provider : Providers, kind : Kinds, owner : Owners, live : BOOLEAN,
   ok : BOOLEAN, probed : BOOLEAN, held : Statuses, stale : BOOLEAN, stamp : Times]

Jobs == [state : {"none", "queued", "running"}, tries : 0 .. MaxAttempts]
NoJob == [state |-> "none", tries |-> 0]
NewJob == [state |-> "queued", tries |-> 0]

Unset == [k \in Kinds |-> 0]
Idle ==
  [pc |-> "idle", provider |-> CHOOSE p \in Providers : TRUE,
   kind |-> "catalog", owner |-> "rpc", live |-> FALSE, ok |-> TRUE,
   probed |-> FALSE, held |-> Unset, stale |-> FALSE, stamp |-> 0]

TypeOK ==
  /\ row \in [Providers -> Statuses]
  /\ ready \subseteq Providers
  /\ job \in [Workflows -> [Providers -> [Kinds -> Jobs]]]
  /\ task \in [Tasks -> TaskStates]
  /\ rest \in [Providers -> Statuses]
  /\ excused \subseteq Providers \X Kinds
  /\ owed \subseteq Providers
  /\ faults \in 0 .. MaxFaults
  /\ updates \in 0 .. MaxUpdates

Init ==
  /\ row = [p \in Providers |-> Unset]
  /\ ready \in SUBSET Providers
  /\ job = [w \in Workflows |-> [p \in Providers |-> [k \in Kinds |-> NoJob]]]
  /\ task = [t \in Tasks |-> Idle]
  /\ rest = [p \in Providers |-> [k \in Kinds |-> Interval]]
  /\ excused = {}
  /\ owed = {}
  /\ faults = 0
  /\ updates = 0

Target(t) == <<task[t].provider, task[t].kind>>
Busy(t) == task[t].pc # "idle"
Goto(t, pc) == task' = [task EXCEPT ![t].pc = pc]
Fault == faults < MaxFaults /\ faults' = faults + 1

\* t has read a row it is going to write.
Holding(t) ==
  \/ task[t].pc \in {"save", "record", "edit"}
  \/ task[t].pc = "fetch" /\ task[t].kind = "catalog"

\* The row of p gets the given probe status; what tasks hold of it is stale.
Store(p, status) == row' = [row EXCEPT ![p] = status]
Outdated(p) ==
  [u \in Tasks |->
     IF task[u].provider = p /\ Holding(u)
     THEN [task[u] EXCEPT !.stale = TRUE]
     ELSE task[u]]

-------------------------------------------------------------------------------
(* Workflows.                                                                *)

Open(w, k) == \E p \in Providers : job[w][p][k] # NoJob

\* The schedule skips a run while the last one is open, and a user's request
\* joins an open sweep of a user's: either way nothing is started.
StartSweep(w, k) ==
  /\ ~Open(w, k)
  /\ job' = [job EXCEPT ![w] = [p \in Providers |-> [job[w][p] EXCEPT ![k] = NewJob]]]
  /\ UNCHANGED <<row, ready, task, owed, faults, updates>>

\* submitProviderPostConnect, the last call of a connect, of every poll of a
\* connected session, and of the updates of a credential: at any time.  An open
\* workflow of the provider absorbs it; its error is only logged.
SubmitPostConnect(p) ==
  /\ \A k \in Kinds : job["postConnect"][p][k] = NoJob
  /\ job' = [job EXCEPT !["postConnect"][p]["catalog"] = NewJob]
  /\ UNCHANGED <<row, ready, task, owed, faults, updates>>

\* The activity of w for p and k is over; post-connect goes on to the quota
\* whatever became of the catalog.
Closed(w, p, k) ==
  IF w = "postConnect" /\ k = "catalog"
  THEN [job EXCEPT ![w][p] = [@ EXCEPT !["catalog"] = NoJob, !["quota"] = NewJob]]
  ELSE [job EXCEPT ![w][p][k] = NoJob]

Settle(w, p, k, outcome) ==
  job' = IF outcome = "retryable" /\ job[w][p][k].tries < MaxAttempts
         THEN [job EXCEPT ![w][p][k].state = "queued"]
         ELSE Closed(w, p, k)

Dispatch(w, p, k, t) ==
  /\ job[w][p][k].state = "queued"
  /\ ~Busy(t)
  /\ job' = [job EXCEPT ![w][p][k] = [state |-> "running", tries |-> @.tries + 1]]
  /\ task' = [task EXCEPT ![t] = [Idle EXCEPT !.pc = "preflight", !.provider = p, !.kind = k,
                                              !.owner = w, !.live = TRUE]]
  /\ UNCHANGED <<row, ready, owed, faults, updates>>

Runs(t, w, p, k) ==
  /\ Busy(t) /\ task[t].live
  /\ task[t].owner = w /\ task[t].provider = p /\ task[t].kind = k

\* Fault: no timeout for an attempt whose worker is gone.
TimeoutOfRunning(w, p, k) ==
  /\ job[w][p][k].state = "running"
  /\ \E t \in Tasks : Runs(t, w, p, k)
  /\ Fault
  /\ Settle(w, p, k, "retryable")
  /\ task' = [t \in Tasks |->
                IF Runs(t, w, p, k) THEN [task[t] EXCEPT !.live = FALSE] ELSE task[t]]
  /\ UNCHANGED <<row, ready, owed, updates>>

\* StartToCloseTimeout: of an attempt whose worker went down, or of one that
\* is still running, and runs on.
Timeout(w, p, k) ==
  /\ job[w][p][k].state = "running"
  /\ \/ /\ \A t \in Tasks : ~Runs(t, w, p, k)
        /\ UNCHANGED faults
     \/ /\ \E t \in Tasks : Runs(t, w, p, k)
        /\ Fault
  /\ Settle(w, p, k, "retryable")
  /\ task' = [t \in Tasks |->
                IF Runs(t, w, p, k) THEN [task[t] EXCEPT !.live = FALSE] ELSE task[t]]
  /\ UNCHANGED <<row, ready, owed, updates>>

-------------------------------------------------------------------------------
(* Probe tasks.                                                              *)

\* A request probes on its own goroutine and takes the outcome.  Catalog
\* requests are manual, quota requests have the trigger the user gives.
Request(t) ==
  /\ ~Busy(t)
  /\ \E p \in Providers, k \in Kinds, owner \in {"manual", "rpc"} :
       /\ k = "catalog" => owner = "manual"
       /\ task' = [task EXCEPT ![t] = [Idle EXCEPT !.pc = "preflight", !.provider = p,
                                                   !.kind = k, !.owner = owner]]
  /\ UNCHANGED <<row, ready, job, owed, faults, updates>>

\* The task of t returns; its workflow, if one waits for it, hears of it.
End(t, outcome) ==
  /\ task' = [task EXCEPT ![t] = Idle]
  /\ IF task[t].live
     THEN Settle(task[t].owner, task[t].provider, task[t].kind, outcome)
     ELSE UNCHANGED job

\* Fault: connecting, like a user, is not throttled.
ThrottledUnlessConnect(t) ==
  /\ task[t].owner \notin {"manual", "postConnect"}
  /\ row[task[t].provider][task[t].kind] > 0

Throttled(t) ==
  /\ task[t].owner # "manual"
  /\ row[task[t].provider][task[t].kind] > 0

\* Fault: being throttled is recorded like any other outcome.
PreflightRecorded(t) ==
  /\ task[t].pc = "preflight"
  /\ \/ /\ Throttled(t)
        /\ Goto(t, "read")
        /\ UNCHANGED <<job, faults>>
     \/ /\ ~Throttled(t)
        /\ Goto(t, IF task[t].kind = "quota" THEN "auth" ELSE "load")
        /\ UNCHANGED <<job, faults>>
     \/ /\ Fault
        /\ \E outcome \in {"retryable", "final"} : End(t, outcome)
  /\ UNCHANGED <<row, ready, owed, updates>>

\* ProbePreflight reads the provider.  A throttled task is a success.
Preflight(t) ==
  /\ task[t].pc = "preflight"
  /\ \/ /\ Throttled(t)
        /\ End(t, "success")
        /\ UNCHANGED faults
     \/ /\ ~Throttled(t)
        /\ Goto(t, IF task[t].kind = "quota" THEN "auth" ELSE "load")
        /\ UNCHANGED <<job, faults>>
     \/ /\ Fault
        /\ \E outcome \in {"retryable", "final"} : End(t, outcome)
  /\ UNCHANGED <<row, ready, owed, updates>>

\* quotaCredentialPreflight: without its credential, or without an answer about
\* it, there is no probe, and that is recorded as an attempt.
Auth(t) ==
  /\ task[t].pc = "auth"
  /\ \/ /\ task[t].provider \in ready
        /\ Goto(t, "fetch")
        /\ UNCHANGED faults
     \/ /\ task[t].provider \notin ready
        /\ Goto(t, "read")
        /\ UNCHANGED faults
     \/ /\ Goto(t, "read")
        /\ Fault
  /\ UNCHANGED <<row, ready, job, owed, updates>>

\* t goes on to the record of its probe.
ToRecord(t, tasks, ok) ==
  task' = [tasks EXCEPT ![t].pc = "read", ![t].ok = ok,
                        ![t].held = Unset, ![t].stale = FALSE]

\* The Get of the syncer's Update.
Load(t) ==
  /\ task[t].pc = "load"
  /\ \/ /\ task' = [task EXCEPT ![t].pc = "fetch", ![t].stale = FALSE,
                                ![t].held = row[task[t].provider]]
        /\ UNCHANGED faults
     \/ /\ ToRecord(t, task, FALSE)
        /\ Fault
  /\ UNCHANGED <<row, ready, job, owed, updates>>

\* The probe: of the quota, or of the catalog inside the syncer's Update.
Fetch(t) ==
  /\ task[t].pc = "fetch"
  /\ \/ /\ IF task[t].kind = "catalog"
           THEN task' = [task EXCEPT ![t].pc = "save", ![t].probed = TRUE]
           ELSE ToRecord(t, [task EXCEPT ![t].probed = TRUE], TRUE)
        /\ UNCHANGED faults
     \/ /\ ToRecord(t, [task EXCEPT ![t].probed = TRUE], FALSE)
        /\ Fault
  /\ owed' = IF task[t].kind = "quota" THEN owed \ {task[t].provider} ELSE owed
  /\ UNCHANGED <<row, ready, job, updates>>

\* The syncer's UPDATE of the whole row.
Save(t) ==
  /\ task[t].pc = "save"
  /\ \/ /\ Store(task[t].provider, task[t].held)
        /\ ToRecord(t, Outdated(task[t].provider), TRUE)
        /\ UNCHANGED faults
     \/ /\ ToRecord(t, task, FALSE)
        /\ UNCHANGED row
        /\ Fault
  /\ UNCHANGED <<ready, job, owed, updates>>

\* RecordProbeStatus takes the time, and the update it asks for reads the row.
\* Its error is the task's, unless the task has failed anyway.
Read(t) ==
  /\ task[t].pc = "read"
  /\ \/ /\ task' = [task EXCEPT ![t].pc = "record", ![t].stale = FALSE,
                                ![t].stamp = Interval, ![t].held = row[task[t].provider]]
        /\ UNCHANGED <<job, faults>>
     \/ /\ Fault
        /\ End(t, "retryable")
  /\ UNCHANGED <<row, ready, owed, updates>>

\* Fault: the probe status of the other kind is lost.
RecordedAlone(t) == [Unset EXCEPT ![task[t].kind] = task[t].stamp]

\* ApplyProbeStatus, on the status that was read.
Recorded(t) == [task[t].held EXCEPT ![task[t].kind] = task[t].stamp]

Record(t) ==
  /\ task[t].pc = "record"
  /\ \/ /\ Store(task[t].provider, Recorded(t))
        /\ UNCHANGED faults
     \/ /\ row' \in {row, [row EXCEPT ![task[t].provider] = Recorded(t)]}
        /\ Fault
  /\ task' = [(IF row' = row THEN task ELSE Outdated(task[t].provider)) EXCEPT ![t] = Idle]
  /\ IF task[t].live
     THEN Settle(task[t].owner, task[t].provider, task[t].kind,
                 IF task[t].ok /\ UNCHANGED faults THEN "success" ELSE "retryable")
     ELSE UNCHANGED job
  /\ UNCHANGED <<ready, owed, updates>>

\* A request that renames a provider, or gives it a model list, is an Update of
\* its row too: it reads the row,
Edit(t) ==
  /\ ~Busy(t)
  /\ \E p \in Providers :
       task' = [task EXCEPT ![t] = [Idle EXCEPT !.pc = "edit", !.provider = p, !.held = row[p]]]
  /\ UNCHANGED <<row, ready, job, owed, faults, updates>>

\* and writes it back with the probe status it has read.
SaveEdit(t) ==
  /\ task[t].pc = "edit"
  /\ Store(task[t].provider, task[t].held)
  /\ task' = [Outdated(task[t].provider) EXCEPT ![t] = Idle]
  /\ UNCHANGED <<ready, job, owed, faults, updates>>

\* The process of t goes down, or its request is cancelled.
Die(t) ==
  /\ Busy(t)
  /\ task' = [task EXCEPT ![t] = Idle]
  /\ Fault
  /\ UNCHANGED <<row, ready, job, owed, updates>>

Run(t) ==
  \/ Preflight(t) \/ Auth(t) \/ Load(t) \/ Fetch(t) \/ Save(t) \/ Read(t) \/ Record(t)
  \/ SaveEdit(t)

-------------------------------------------------------------------------------
(* The environment.                                                          *)

\* UpdateProviderObservabilityAuthentication, whose submission of post-connect
\* may follow, or the OAuth session of a reauthorization.
UpdateCredential(p) ==
  /\ updates < MaxUpdates
  /\ updates' = updates + 1
  /\ ready' = ready \cup {p}
  /\ owed' = owed \cup {p}
  /\ UNCHANGED <<row, job, task, faults>>

\* CreateProvider, called by the poll that finalizes a reauthorization: an upsert
\* of a provider without a probe status.  It reads nothing, and the submission of
\* post-connect may follow at once.
Register(p) ==
  /\ Store(p, Unset)
  /\ task' = Outdated(p)
  /\ UNCHANGED <<ready, job, owed, faults, updates>>

\* The session in the credential ends.
Expire(p) ==
  /\ p \in ready
  /\ Fault
  /\ ready' = ready \ {p}
  /\ owed' = owed \ {p}
  /\ UNCHANGED <<row, job, task, updates>>

Less(n) == IF n > 0 THEN n - 1 ELSE 0
Later(n) == IF n < Interval THEN n + 1 ELSE n

Tick ==
  /\ row' = [p \in Providers |-> [k \in Kinds |-> Less(row[p][k])]]
  /\ task' = [t \in Tasks |->
                [task[t] EXCEPT !.held = [k \in Kinds |-> Less(task[t].held[k])],
                                !.stamp = Less(task[t].stamp)]]
  /\ rest' = [p \in Providers |-> [k \in Kinds |-> Later(rest[p][k])]]
  /\ UNCHANGED <<ready, job, excused, owed, faults, updates>>

\* t is between the check of its target's next_allowed_at and the end.
Underway(t) == task[t].pc \notin {"idle", "preflight", "edit"}

Fetches(t) == task[t].pc = "fetch" /\ task'[t].probed

\* t, having probed, ends without its record in the row.
Unrecorded(t) ==
  /\ task[t].probed /\ task'[t] = Idle
  /\ task[t].pc = "record" => row'[task[t].provider][task[t].kind] # task[t].stamp

\* t writes a row that was written since it read it.
Overwrites(t) ==
  /\ task[t].pc \in {"save", "record", "edit"} /\ task[t].stale
  /\ task'[t] # task[t] /\ row' # row

Observe ==
  /\ excused' = excused
       \cup {Target(t)' : t \in {u \in Tasks : /\ Underway(u)'
                                               /\ \E v \in Tasks \ {u} :
                                                    Underway(v)' /\ (Target(v) = Target(u))'}}
       \cup {Target(t) : t \in {u \in Tasks : Unrecorded(u)}}
       \cup UNION {{task[t].provider} \X Kinds : t \in {u \in Tasks : Overwrites(u)}}
  /\ rest' = [p \in Providers |-> [k \in Kinds |->
                IF <<p, k>> \in excused' \/ Register(p) THEN Interval
                ELSE IF \E t \in Tasks : Fetches(t) /\ Target(t) = <<p, k>> THEN 0
                ELSE rest[p][k]]]

Next ==
  \/ Tick
  \/ /\ \/ \E w \in Sweeps, k \in Kinds : StartSweep(w, k)
        \/ \E p \in Providers : SubmitPostConnect(p)
        \/ \E w \in Workflows, p \in Providers, k \in Kinds :
             Timeout(w, p, k) \/ \E t \in Tasks : Dispatch(w, p, k, t)
        \/ \E t \in Tasks : Request(t) \/ Edit(t) \/ Run(t) \/ Die(t)
        \/ \E p \in Providers : UpdateCredential(p) \/ Register(p) \/ Expire(p)
     /\ Observe

\* Time passes, the schedule fires every minute, the Temporal service
\* dispatches activities and ends those that got lost, and a task that was
\* started is carried on: its calls have deadlines.  Requests and activities do
\* not compete for goroutines as they do for Tasks: hence SF.
Fairness ==
  /\ WF_vars(Tick)
  /\ \A k \in Kinds : "schedule" \in Sweeps => WF_vars(StartSweep("schedule", k) /\ Observe)
  /\ \A w \in Workflows, p \in Providers, k \in Kinds :
       /\ WF_vars(Timeout(w, p, k) /\ Observe)
       /\ SF_vars(\E t \in Tasks : Dispatch(w, p, k, t) /\ Observe)
  /\ \A t \in Tasks : WF_vars(Run(t) /\ Observe)

Spec == Init /\ [][Next]_vars
FairSpec == Spec /\ Fairness

-------------------------------------------------------------------------------
(* Properties.                                                               *)

\* No provider is probed within the minimum interval of its last probe since it
\* was registered, except on a user's demand, or after two tasks for it
\* overlapped, one ended without a record, or a stale write, of a task or of an
\* edit, replaced the provider's row.  A reauthorization registers it again: the
\* row forgets the last probe, and the interval is counted anew.
MinimumIntervalKept ==
  [][\A t \in Tasks :
       /\ Fetches(t)
       /\ task[t].owner # "manual"
       /\ rest[task[t].provider][task[t].kind] < Interval
       => Target(t) \in excused]_vars

\* next_allowed_at is never moved back, but for the same reasons or by the
\* registration of a reauthorization, nor moved further ahead than the interval:
\* the record is of its type.  A rename alone never moves it.
NextAllowedAdvances ==
  []TypeOK /\
  [][Tick \/ \A p \in Providers, k \in Kinds :
                row'[p][k] < row[p][k] => <<p, k>> \in excused' \/ Register(p)]_vars

\* A quota credential that was updated, and is still good, is tried out by a
\* probe, though the probe submitted at the update may well find the provider
\* throttled by the attempt that was blocked.
UpdatedCredentialIsProbed == \A p \in Providers : p \in owed ~> p \notin owed

\* Every sweep closes, however its tasks end; the schedule would skip all runs
\* after one that stays open.
SweepsClose == \A w \in Sweeps, k \in Kinds : Open(w, k) ~> ~Open(w, k)
===============================================================================
