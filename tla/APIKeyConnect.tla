----------------------------- MODULE APIKeyConnect -----------------------------
(***************************************************************************)
(* Connecting a provider with an API key: the orchestration service stores *)
(* the key as a credential at the auth service and runs a Temporal         *)
(* workflow, which registers a provider that references the credential     *)
(* (an activity of up to three attempts, each of them drawing a provider   *)
(* id of its own) and deletes the credential again when that fails.        *)
(***************************************************************************)
EXTENDS Integers, FiniteSets

CONSTANTS
  Requests,    \* connect requests; each draws a credential id of its own
  MaxAttempts  \* MaximumAttempts of the retry policy

ASSUME MaxAttemptsAssumption == MaxAttempts \in Nat \ {0}

Attempts == 1 .. MaxAttempts

VARIABLES
  handler,     \* what connectAPIKeyProvider does next for each request
  workflow,    \* state of the request's workflow
  current,     \* the attempt the Temporal service waits for, or 0
  tries,       \* attempts made of the activity the workflow is in
  attempt,     \* what each attempt of the connect activity does next
  credential,  \* external: TRUE where the credential exists
  provider,    \* <<request, attempt>> for each provider with a row
  unsure,      \* history: requests with an attempt given up that had, or may yet have, registered a provider
  broken       \* history: requests whose credential nothing answers for

vars ==
  <<handler, workflow, current, tries, attempt, credential, provider, unsure, broken>>
server == <<handler, credential, broken>>
run == <<workflow, current, tries>>

TypeOK ==
  /\ handler \in [Requests -> {"idle", "credential", "start", "wait", "done"}]
  /\ workflow \in [Requests -> {"none", "connect", "compensate", "succeeded", "failed"}]
  /\ current \in [Requests -> 0 .. MaxAttempts]
  /\ tries \in [Requests -> 0 .. MaxAttempts]
  /\ attempt \in [Requests -> [Attempts -> {"none", "resolve", "create", "view", "ended"}]]
  /\ credential \in [Requests -> BOOLEAN]
  /\ provider \subseteq Requests \X Attempts
  /\ unsure \subseteq Requests
  /\ broken \subseteq Requests

Init ==
  /\ handler = [r \in Requests |-> "idle"]
  /\ workflow = [r \in Requests |-> "none"]
  /\ current = [r \in Requests |-> 0]
  /\ tries = [r \in Requests |-> 0]
  /\ attempt = [r \in Requests |-> [a \in Attempts |-> "none"]]
  /\ credential = [r \in Requests |-> FALSE]
  /\ provider = {}
  /\ unsure = {}
  /\ broken = {}

-------------------------------------------------------------------------------
(* connectAPIKeyProvider                                                     *)

Handle(r, pc) == handler' = [handler EXCEPT ![r] = pc]

Receive(r) ==
  /\ handler[r] = "idle"
  /\ Handle(r, "credential")
  /\ UNCHANGED <<run, attempt, credential, provider, unsure, broken>>

\* An error that comes after the credential was stored leaves it behind.
CreateCredential(r) ==
  /\ handler[r] = "credential"
  /\ \/ /\ credential' = [credential EXCEPT ![r] = TRUE]
        /\ \/ Handle(r, "start") /\ UNCHANGED broken
           \/ Handle(r, "done") /\ broken' = broken \cup {r}
     \/ /\ Handle(r, "done")
        /\ UNCHANGED <<credential, broken>>
  /\ UNCHANGED <<run, attempt, provider, unsure>>

Open(r) ==
  /\ workflow' = [workflow EXCEPT ![r] = "connect"]
  /\ tries' = [tries EXCEPT ![r] = 0]
  /\ current' = [current EXCEPT ![r] = 0]

\* executeWorkflow: started, with the answer or without; or not started, and
\* the credential stays.
Start(r) ==
  /\ handler[r] = "start"
  /\ \/ /\ Open(r)
        /\ Handle(r, "wait") \/ Handle(r, "done")
        /\ UNCHANGED broken
     \/ /\ Handle(r, "done")
        /\ broken' = broken \cup {r}
        /\ UNCHANGED run
  /\ UNCHANGED <<attempt, credential, provider, unsure>>

\* Fault: a handler that runs the workflow again when its wait is cut off.
AwaitRestarting(r) ==
  /\ handler[r] = "wait"
  /\ \/ /\ workflow[r] \in {"succeeded", "failed"}
        /\ Handle(r, "done")
        /\ UNCHANGED run
     \/ /\ Handle(r, "done")
        /\ workflow' = [workflow EXCEPT ![r] = "connect"]
        /\ UNCHANGED <<current, tries>>
  /\ UNCHANGED <<attempt, credential, provider, unsure, broken>>

\* run.Get returns the result, or an error when the request is cancelled: the
\* workflow goes on.
Await(r) ==
  /\ handler[r] = "wait"
  /\ Handle(r, "done")
  /\ UNCHANGED <<run, attempt, credential, provider, unsure, broken>>

\* The orchestration service goes down between two calls of the handler.
HandlerDies(r) ==
  /\ handler[r] \in {"credential", "start", "wait"}
  /\ Handle(r, "done")
  /\ broken' = IF handler[r] = "start" THEN broken \cup {r} ELSE broken
  /\ UNCHANGED <<run, attempt, credential, provider, unsure>>

-------------------------------------------------------------------------------
(* The connect activity.  Its attempts are of the workflow's first activity; *)
(* only the outcome of the current one reaches the workflow.                 *)

Goto(r, a, pc) == attempt' = [attempt EXCEPT ![r] = [@ EXCEPT ![a] = pc]]

Schedule(r) ==
  /\ workflow[r] = "connect" /\ current[r] = 0 /\ tries[r] < MaxAttempts
  /\ tries' = [tries EXCEPT ![r] = @ + 1]
  /\ current' = [current EXCEPT ![r] = tries[r] + 1]
  /\ Goto(r, tries[r] + 1, "resolve")
  /\ UNCHANGED <<server, workflow, provider, unsure>>

\* Fault: the condition of the compensation inverted.
SettleInverted(r, outcome) ==
  /\ workflow' = [workflow EXCEPT ![r] =
                    IF outcome = "success" THEN "compensate"
                    ELSE IF outcome = "retryable" /\ tries[r] < MaxAttempts THEN @
                    ELSE "failed"]
  /\ tries' = [tries EXCEPT ![r] = IF outcome = "success" THEN 0 ELSE @]
  /\ current' = [current EXCEPT ![r] = 0]

\* Fault: Compensate left unset in the workflow's input.
SettleKeeping(r, outcome) ==
  /\ workflow' = [workflow EXCEPT ![r] =
                    IF outcome = "success" THEN "succeeded"
                    ELSE IF outcome = "retryable" /\ tries[r] < MaxAttempts THEN @
                    ELSE "failed"]
  /\ current' = [current EXCEPT ![r] = 0]
  /\ UNCHANGED tries

\* What the workflow makes of the outcome of the current attempt: it is done,
\* the retry policy has another attempt, or the credential is to be deleted.
Settle(r, outcome) ==
  LET again == outcome = "retryable" /\ tries[r] < MaxAttempts
      over == outcome # "success" /\ ~again
  IN
  /\ workflow' = [workflow EXCEPT ![r] = IF over THEN "compensate"
                                         ELSE IF again THEN @ ELSE "succeeded"]
  /\ tries' = [tries EXCEPT ![r] = IF over THEN 0 ELSE @]
  /\ current' = [current EXCEPT ![r] = 0]

\* Fault: the outcome of an attempt that was given up taken for the workflow's.
ReportLate(r, a, outcome) ==
  /\ Goto(r, a, "ended")
  /\ Settle(r, outcome)

Report(r, a, outcome) ==
  /\ Goto(r, a, "ended")
  /\ IF current[r] = a /\ workflow[r] = "connect" THEN Settle(r, outcome) ELSE UNCHANGED run

\* The command and its target; what they reject is not tried again.
Resolve(r, a) ==
  /\ attempt[r][a] = "resolve"
  /\ \/ /\ Goto(r, a, "create")
        /\ UNCHANGED run
     \/ \E outcome \in {"retryable", "final"} : Report(r, a, outcome)
  /\ UNCHANGED <<server, provider, unsure>>

\* CreateProvider's Upsert, under the id this attempt has drawn.
Create(r, a) ==
  /\ attempt[r][a] = "create"
  /\ \/ /\ provider' = provider \cup {<<r, a>>}
        /\ \/ Goto(r, a, "view") /\ UNCHANGED <<run, unsure>>
           \/ Report(r, a, "retryable") /\ unsure' = unsure \cup {r}
     \/ /\ \E outcome \in {"retryable", "final"} : Report(r, a, outcome)
        /\ UNCHANGED <<provider, unsure>>
  /\ UNCHANGED server

\* Its Get, which finds the provider unless a user has deleted it.
View(r, a) ==
  /\ attempt[r][a] = "view"
  /\ \/ /\ <<r, a>> \in provider
        /\ Report(r, a, "success")
        /\ UNCHANGED unsure
     \/ /\ Report(r, a, IF <<r, a>> \in provider THEN "retryable" ELSE "final")
        /\ unsure' = unsure \cup {r}
  /\ UNCHANGED <<server, provider>>

\* The worker goes down with the attempt.
WorkerDies(r, a) ==
  /\ attempt[r][a] \in {"resolve", "create", "view"}
  /\ Goto(r, a, "ended")
  /\ unsure' = IF attempt[r][a] = "view" THEN unsure \cup {r} ELSE unsure
  /\ UNCHANGED <<server, run, provider>>

\* StartToCloseTimeout.  An attempt that is still running runs on: its
\* context ends by the worker's clock, and a statement sent may be executed.
Timeout(r) ==
  /\ workflow[r] = "connect" /\ current[r] # 0
  /\ Settle(r, "retryable")
  /\ unsure' = IF attempt[r][current[r]] = "ended" THEN unsure ELSE unsure \cup {r}
  /\ UNCHANGED <<server, attempt, provider>>

-------------------------------------------------------------------------------
(* The deleteCredential activity, in a disconnected context.                 *)

\* Fault: a compensation retried without a limit.
CompensateForever(r) ==
  /\ workflow[r] = "compensate"
  /\ credential' = [credential EXCEPT ![r] = FALSE]
  /\ UNCHANGED <<handler, run, attempt, provider, unsure, broken>>

\* One attempt: the credential is deleted or was gone; or the answer is an
\* error, tried again twice unless it is final.
Compensate(r) ==
  /\ workflow[r] = "compensate"
  /\ \/ /\ credential' = [credential EXCEPT ![r] = FALSE]
        /\ workflow' = [workflow EXCEPT ![r] = "failed"]
        /\ UNCHANGED <<tries, broken>>
     \/ /\ credential' \in {credential, [credential EXCEPT ![r] = FALSE]}
        /\ \/ /\ tries[r] + 1 < MaxAttempts
              /\ tries' = [tries EXCEPT ![r] = @ + 1]
              /\ UNCHANGED <<workflow, broken>>
           \/ /\ workflow' = [workflow EXCEPT ![r] = "failed"]
              /\ broken' = broken \cup {r}
              /\ UNCHANGED tries
  /\ UNCHANGED <<handler, current, attempt, provider, unsure>>

\* DeleteProvider at the provider service; the credential is not its concern.
DeleteProvider(r, a) ==
  /\ <<r, a>> \in provider
  /\ provider' = provider \ {<<r, a>>}
  /\ UNCHANGED <<server, run, attempt, unsure>>

-------------------------------------------------------------------------------

RunWorkflow(r) == Schedule(r) \/ Timeout(r) \/ Compensate(r)

Next ==
  \E r \in Requests :
    \/ Receive(r) \/ CreateCredential(r) \/ Start(r) \/ Await(r) \/ HandlerDies(r)
    \/ RunWorkflow(r)
    \/ \E a \in Attempts :
         Resolve(r, a) \/ Create(r, a) \/ View(r, a) \/ WorkerDies(r, a)
           \/ DeleteProvider(r, a)

\* The Temporal service schedules, times out and completes the activities of
\* every open workflow; a handler or a worker need not do anything.
Fairness == \A r \in Requests : WF_vars(RunWorkflow(r))

Spec == Init /\ [][Next]_vars
FairSpec == Spec /\ Fairness

-------------------------------------------------------------------------------
(* Properties.                                                               *)

ProvidersOf(r) == {a \in Attempts : <<r, a>> \in provider}

\* A connect that succeeds has its credential, whatever attempts that were
\* given up do before or after it.
SuccessKeepsCredential ==
  TypeOK /\ \A r \in Requests : workflow[r] = "succeeded" => credential[r]

\* A request makes one provider.  It makes two or more only if an attempt had
\* registered its own, or could still do so, when it was given up.
OneProviderUnlessUnsure ==
  \A r \in Requests : Cardinality(ProvidersOf(r)) > 1 => r \in unsure

\* A provider whose credential was deleted is one the workflow knew nothing of.
NoDanglingReference ==
  \A r \in Requests : ProvidersOf(r) # {} /\ ~credential[r] => r \in unsure

\* When all is over the credential of a connect that failed is gone, unless
\* the workflow was never started or its compensation failed.
NoOrphanCredential ==
  \A r \in Requests :
    /\ handler[r] = "done"
    /\ workflow[r] \in {"none", "failed"}
    /\ credential[r]
    => r \in broken

\* Every workflow closes, the compensating ones included.
WorkflowCloses ==
  \A r \in Requests : workflow[r] = "connect" ~> workflow[r] \in {"succeeded", "failed"}
===============================================================================
