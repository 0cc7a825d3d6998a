-------------------------- MODULE APIKeyConnectProofs --------------------------
(* Proofs about APIKeyConnect for any requests and any number of attempts.       *)
EXTENDS APIKeyConnect, FiniteSetTheorems, TLAPS

--------------------------------------------------------------------------------
(* The inductive invariant, one request at a time.                               *)

Running(r, a) == attempt[r][a] \in {"resolve", "create", "view"}

\* The handler opens the workflow after the credential and waits for it after that.
HandlerInOrder(r) ==
    /\ handler[r] \in {"idle", "credential", "start"} => workflow[r] = "none"
    /\ handler[r] = "wait" => workflow[r] # "none"

\* Where the credential stands at each point of the request.
CredentialKept(r) ==
    /\ handler[r] \in {"idle", "credential"} => ~credential[r]
    /\ handler[r] = "start" \/ workflow[r] \in {"connect", "succeeded"} => credential[r]
    /\ credential[r] /\ \/ workflow[r] = "failed"
                        \/ workflow[r] = "none" /\ handler[r] = "done"
       => r \in broken

\* No attempt runs but the one the workflow waits for, and the only provider is
\* the one that attempt has made, or made the workflow succeed with.
OneAtWork(r) ==
    r \notin unsure =>
        /\ \A a \in Attempts : Running(r, a) => workflow[r] = "connect" /\ current[r] = a
        /\ \A a \in Attempts : <<r, a>> \in provider =>
               \/ workflow[r] = "succeeded"
               \/ workflow[r] = "connect" /\ current[r] = a /\ attempt[r][a] = "view"
        /\ \A a, b \in Attempts : <<r, a>> \in provider /\ <<r, b>> \in provider => a = b

Sane(r) == HandlerInOrder(r) /\ CredentialKept(r) /\ OneAtWork(r)
IInv == TypeOK /\ \A r \in Requests : Sane(r)

--------------------------------------------------------------------------------
(* What the parts of an action do.                                               *)

Stages == {"none", "resolve", "create", "view", "ended"}
Outcomes == {"success", "retryable", "final"}

\* An attempt that moves on is the only one that does.
Moves(r, a, pc) ==
    /\ attempt' \in [Requests -> [Attempts -> Stages]]
    /\ attempt'[r][a] = pc
    /\ \A b \in Attempts \ {a} : attempt'[r][b] = attempt[r][b]
    /\ \A q \in Requests \ {r} : attempt'[q] = attempt[q]

LEMMA GotoMoves ==
    ASSUME TypeOK, NEW r \in Requests, NEW a \in Attempts, NEW pc \in Stages, Goto(r, a, pc)
    PROVE  Moves(r, a, pc)
<1>1. attempt \in [Requests -> [Attempts -> Stages]]
  BY DEF TypeOK, Stages
<1>2. attempt' = [attempt EXCEPT ![r] = [attempt[r] EXCEPT ![a] = pc]]
  BY DEF Goto
<1>3. [attempt[r] EXCEPT ![a] = pc] \in [Attempts -> Stages]
  BY <1>1
<1>. QED
  BY <1>1, <1>2, <1>3 DEF Moves

\* The workflow of a request moves on alone.
RunTyped ==
    /\ workflow' \in [Requests -> {"none", "connect", "compensate", "succeeded", "failed"}]
    /\ current' \in [Requests -> 0 .. MaxAttempts]
    /\ tries' \in [Requests -> 0 .. MaxAttempts]

RunElsewhereKept(r) ==
    \A q \in Requests \ {r} : /\ workflow'[q] = workflow[q]
                              /\ current'[q] = current[q]
                              /\ tries'[q] = tries[q]

\* An outcome closes the attempt the workflow waits for: the workflow succeeds
\* with it, has another attempt, or compensates.
LEMMA SettleCloses ==
    ASSUME TypeOK, NEW r \in Requests, NEW outcome, Settle(r, outcome), workflow[r] = "connect"
    PROVE  /\ RunTyped /\ RunElsewhereKept(r)
           /\ current'[r] = 0
           /\ workflow'[r] = IF outcome = "success" THEN "succeeded"
                            ELSE IF outcome = "retryable" /\ tries[r] < MaxAttempts THEN "connect"
                            ELSE "compensate"
<1>. DEFINE again == outcome = "retryable" /\ tries[r] < MaxAttempts
            over == outcome # "success" /\ ~again
            w == IF over THEN "compensate" ELSE IF again THEN workflow[r] ELSE "succeeded"
            t == IF over THEN 0 ELSE tries[r]
<1>1. /\ workflow' = [workflow EXCEPT ![r] = w]
      /\ tries' = [tries EXCEPT ![r] = t]
      /\ current' = [current EXCEPT ![r] = 0]
  BY DEF Settle
<1>2. /\ w \in {"connect", "compensate", "succeeded"}
      /\ t \in 0 .. MaxAttempts
      /\ 0 \in 0 .. MaxAttempts
  BY MaxAttemptsAssumption DEF TypeOK
<1>3. RunTyped
  BY <1>1, <1>2 DEF TypeOK, RunTyped
<1>4. RunElsewhereKept(r)
  BY <1>1 DEF TypeOK, RunElsewhereKept
<1>5. current'[r] = 0 /\ workflow'[r] = w
  BY <1>1 DEF TypeOK
<1>. QED
  BY <1>3, <1>4, <1>5

\* What the report of an attempt does to the workflow: nothing unless it is the
\* one waited for.
LEMMA ReportCloses ==
    ASSUME TypeOK, NEW r \in Requests, NEW a \in Attempts, NEW outcome, Report(r, a, outcome)
    PROVE  /\ Moves(r, a, "ended")
           /\ RunTyped /\ RunElsewhereKept(r)
           /\ IF current[r] = a /\ workflow[r] = "connect"
              THEN /\ current'[r] = 0
                   /\ workflow'[r] = IF outcome = "success" THEN "succeeded"
                                     ELSE IF outcome = "retryable" /\ tries[r] < MaxAttempts
                                          THEN "connect"
                                     ELSE "compensate"
              ELSE UNCHANGED run
<1>1. Moves(r, a, "ended")
  BY GotoMoves DEF Report, Stages
<1>2. CASE current[r] = a /\ workflow[r] = "connect"
  BY <1>1, <1>2, SettleCloses DEF Report
<1>3. CASE ~(current[r] = a /\ workflow[r] = "connect")
  BY <1>1, <1>3 DEF Report, run, TypeOK, RunTyped, RunElsewhereKept
<1>. QED
  BY <1>2, <1>3

\* Every step of the system keeps the types.
LEMMA TypesKept == TypeOK /\ [Next]_vars => TypeOK'
<1>. SUFFICES ASSUME TypeOK, [Next]_vars PROVE TypeOK'
  OBVIOUS
<1>. USE DEF server, run, Handle
<1>1. CASE UNCHANGED vars
  BY <1>1 DEF TypeOK, vars
<1>2. ASSUME NEW r \in Requests, Receive(r) \/ Await(r) \/ HandlerDies(r) PROVE TypeOK'
  BY <1>2 DEF Receive, Await, HandlerDies, TypeOK
<1>3. ASSUME NEW r \in Requests, CreateCredential(r) PROVE TypeOK'
  BY <1>3 DEF CreateCredential, TypeOK
<1>4. ASSUME NEW r \in Requests, Start(r) PROVE TypeOK'
  <2>1. handler' \in [Requests -> {"idle", "credential", "start", "wait", "done"}]
    BY <1>4 DEF Start, TypeOK
  <2>2. RunTyped
    <3>1. CASE Open(r)
      BY <3>1, MaxAttemptsAssumption DEF Open, RunTyped, TypeOK
    <3>2. CASE UNCHANGED run
      BY <3>2 DEF RunTyped, TypeOK
    <3>. QED BY <1>4, <3>1, <3>2 DEF Start
  <2>. QED BY <1>4, <2>1, <2>2 DEF Start, RunTyped, TypeOK
<1>5. ASSUME NEW r \in Requests, Schedule(r) PROVE TypeOK'
  <2>1. tries[r] + 1 \in Attempts /\ tries[r] + 1 \in 0 .. MaxAttempts
    BY <1>5, MaxAttemptsAssumption DEF Schedule, Attempts, TypeOK
  <2>2. Moves(r, tries[r] + 1, "resolve")
    BY <1>5, <2>1, GotoMoves DEF Schedule, Stages
  <2>3. tries' = [tries EXCEPT ![r] = tries[r] + 1] /\ current' = [current EXCEPT ![r] = tries[r] + 1]
    BY <1>5 DEF Schedule
  <2>4. tries' \in [Requests -> 0 .. MaxAttempts] /\ current' \in [Requests -> 0 .. MaxAttempts]
    BY <2>1, <2>3 DEF TypeOK
  <2>. QED BY <1>5, <2>2, <2>4 DEF Schedule, Moves, Stages, TypeOK
<1>6. ASSUME NEW r \in Requests, Timeout(r) PROVE TypeOK'
  <2>1. RunTyped
    BY <1>6, SettleCloses DEF Timeout
  <2>. QED BY <1>6, <2>1 DEF Timeout, RunTyped, TypeOK
<1>7. ASSUME NEW r \in Requests, Compensate(r) PROVE TypeOK'
  <2>1. tries' \in [Requests -> 0 .. MaxAttempts]
    <3>1. CASE UNCHANGED tries
      BY <3>1 DEF TypeOK
    <3>2. CASE tries[r] + 1 < MaxAttempts /\ tries' = [tries EXCEPT ![r] = tries[r] + 1]
      BY <3>2, MaxAttemptsAssumption DEF TypeOK
    <3>. QED BY <1>7, <3>1, <3>2 DEF Compensate
  <2>. QED BY <1>7, <2>1 DEF Compensate, TypeOK
<1>8. ASSUME NEW r \in Requests, NEW a \in Attempts, Resolve(r, a) PROVE TypeOK'
  <2>1. (Moves(r, a, "create") /\ UNCHANGED run) \/ \E outcome : Report(r, a, outcome)
    BY <1>8, GotoMoves DEF Resolve, Stages
  <2>2. RunTyped /\ attempt' \in [Requests -> [Attempts -> Stages]]
    BY <2>1, ReportCloses DEF Moves, RunTyped, TypeOK
  <2>. QED BY <1>8, <2>2 DEF Resolve, RunTyped, Stages, TypeOK
<1>9. ASSUME NEW r \in Requests, NEW a \in Attempts, Create(r, a) PROVE TypeOK'
  <2>1. (Moves(r, a, "view") /\ UNCHANGED run) \/ \E outcome : Report(r, a, outcome)
    BY <1>9, GotoMoves DEF Create, Stages
  <2>2. RunTyped /\ attempt' \in [Requests -> [Attempts -> Stages]]
    BY <2>1, ReportCloses DEF Moves, RunTyped, TypeOK
  <2>. QED BY <1>9, <2>2 DEF Create, RunTyped, Stages, TypeOK
<1>10. ASSUME NEW r \in Requests, NEW a \in Attempts, View(r, a) PROVE TypeOK'
  <2>1. \E outcome : Report(r, a, outcome)
    BY <1>10 DEF View
  <2>2. RunTyped /\ attempt' \in [Requests -> [Attempts -> Stages]]
    BY <2>1, ReportCloses DEF Moves
  <2>. QED BY <1>10, <2>2 DEF View, RunTyped, Stages, TypeOK
<1>11. ASSUME NEW r \in Requests, NEW a \in Attempts, WorkerDies(r, a) PROVE TypeOK'
  <2>1. Moves(r, a, "ended")
    BY <1>11, GotoMoves DEF WorkerDies, Stages
  <2>. QED BY <1>11, <2>1 DEF WorkerDies, Moves, Stages, TypeOK
<1>12. ASSUME NEW r \in Requests, NEW a \in Attempts, DeleteProvider(r, a) PROVE TypeOK'
  BY <1>12 DEF DeleteProvider, TypeOK
<1>. QED
  BY <1>1, <1>2, <1>3, <1>4, <1>5, <1>6, <1>7, <1>8, <1>9, <1>10, <1>11, <1>12
     DEF Next, RunWorkflow

--------------------------------------------------------------------------------
(* A step is about one request; the others stay sane.                            *)

Kept(q) ==
    /\ handler'[q] = handler[q] /\ credential'[q] = credential[q]
    /\ workflow'[q] = workflow[q] /\ current'[q] = current[q]
    /\ attempt'[q] = attempt[q]
    /\ \A a \in Attempts : <<q, a>> \in provider' <=> <<q, a>> \in provider
    /\ q \in unsure' <=> q \in unsure
    /\ q \in broken' <=> q \in broken

OthersKept(r) == \A q \in Requests \ {r} : Kept(q)

LEMMA KeptStaysSane ==
    ASSUME NEW q \in Requests, Sane(q), Kept(q)
    PROVE  Sane(q)'
<1>1. HandlerInOrder(q)' /\ CredentialKept(q)'
  BY DEF Sane, Kept, HandlerInOrder, CredentialKept
<1>2. OneAtWork(q)'
  BY DEF Sane, Kept, OneAtWork, Running
<1>. QED
  BY <1>1, <1>2 DEF Sane

\* The steps of the handler.
LEMMA HandlerStaysSane ==
    ASSUME TypeOK, NEW r \in Requests, Sane(r),
           Receive(r) \/ CreateCredential(r) \/ Start(r) \/ Await(r) \/ HandlerDies(r)
    PROVE  OthersKept(r) /\ Sane(r)'
<1>. USE DEF run, Handle, TypeOK
<1>. DEFINE pcs == {"idle", "credential", "start", "wait", "done"}
<1>1. OthersKept(r)
  BY DEF Receive, CreateCredential, Start, Await, HandlerDies, Open, OthersKept, Kept
<1>2. CASE Start(r) /\ Open(r)
  <2>1. workflow[r] = "none" /\ workflow'[r] = "connect" /\ credential[r] /\ UNCHANGED credential
    BY <1>2 DEF Start, Open, Sane, HandlerInOrder, CredentialKept
  <2>2. handler'[r] \in {"wait", "done"}
    BY <1>2 DEF Start
  <2>3. OneAtWork(r)'
    BY <1>2, <2>1 DEF Start, Sane, OneAtWork, Running
  <2>. QED BY <1>1, <2>1, <2>2, <2>3 DEF Sane, HandlerInOrder, CredentialKept
<1>3. CASE UNCHANGED run
  <2>1. OneAtWork(r)'
    BY <1>3 DEF Receive, CreateCredential, Start, Await, HandlerDies, Sane, OneAtWork, Running
  <2>2. HandlerInOrder(r)'
    BY <1>3 DEF Receive, CreateCredential, Start, Await, HandlerDies, Sane, HandlerInOrder, Open
  <2>3. CredentialKept(r)'
    <3>1. CASE Receive(r)
      BY <1>3, <3>1 DEF Receive, Sane, HandlerInOrder, CredentialKept
    <3>2. CASE CreateCredential(r)
      BY <1>3, <3>2 DEF CreateCredential, Sane, HandlerInOrder, CredentialKept
    <3>3. CASE Start(r)
      BY <1>3, <3>3 DEF Start, Sane, HandlerInOrder, CredentialKept, Open
    <3>4. CASE Await(r)
      BY <1>3, <3>4 DEF Await, Sane, HandlerInOrder, CredentialKept
    <3>5. CASE HandlerDies(r)
      BY <1>3, <3>5 DEF HandlerDies, Sane, HandlerInOrder, CredentialKept
    <3>. QED BY <3>1, <3>2, <3>3, <3>4, <3>5
  <2>. QED BY <1>1, <2>1, <2>2, <2>3 DEF Sane
<1>. QED
  BY <1>2, <1>3 DEF Receive, CreateCredential, Start, Await, HandlerDies

\* The steps of the workflow.
LEMMA WorkflowStaysSane ==
    ASSUME TypeOK, NEW r \in Requests, Sane(r), RunWorkflow(r)
    PROVE  OthersKept(r) /\ Sane(r)'
<1>. USE DEF server
<1>1. CASE Schedule(r)
  <2>. DEFINE a == tries[r] + 1
  <2>1. a \in Attempts /\ a # 0
    BY <1>1, MaxAttemptsAssumption DEF Schedule, Attempts, TypeOK
  <2>2. Moves(r, a, "resolve")
    BY <1>1, <2>1, GotoMoves DEF Schedule, Stages
  <2>3. current' = [current EXCEPT ![r] = a]
    BY <1>1 DEF Schedule
  <2>4. current'[r] = a /\ current[r] = 0 /\ workflow[r] = "connect"
    BY <1>1, <2>3 DEF Schedule, TypeOK
  <2>5. UNCHANGED <<handler, credential, broken, workflow, provider, unsure>>
    BY <1>1 DEF Schedule
  <2>6. OthersKept(r)
    BY <2>2, <2>3, <2>5 DEF OthersKept, Kept, Moves, TypeOK
  <2>7. OneAtWork(r)'
    <3>1. r \notin unsure => \A b \in Attempts : ~Running(r, b) /\ <<r, b>> \notin provider
      BY <2>4 DEF Sane, OneAtWork, Attempts
    <3>. HIDE DEF a
    <3>. QED BY <2>1, <2>2, <2>4, <2>5, <3>1 DEF Moves, OneAtWork, Running
  <2>. QED BY <2>5, <2>6, <2>7 DEF Sane, HandlerInOrder, CredentialKept
<1>2. CASE Timeout(r)
  <2>1. /\ RunElsewhereKept(r) /\ current'[r] = 0
        /\ workflow'[r] \in {"connect", "compensate"} /\ workflow[r] = "connect"
    BY <1>2, SettleCloses DEF Timeout
  <2>2. UNCHANGED <<handler, credential, broken, attempt, provider>>
    BY <1>2 DEF Timeout
  <2>3. unsure' = IF attempt[r][current[r]] = "ended" THEN unsure ELSE unsure \cup {r}
    BY <1>2 DEF Timeout
  <2>4. OthersKept(r)
    BY <2>1, <2>2, <2>3 DEF OthersKept, Kept, RunElsewhereKept
  <2>5. OneAtWork(r)'
    <3>1. SUFFICES ASSUME r \notin unsure' PROVE OneAtWork(r)'
      BY DEF OneAtWork
    <3>2. attempt[r][current[r]] = "ended" /\ r \notin unsure
      BY <2>3, <3>1
    <3>3. \A b \in Attempts : ~Running(r, b) /\ <<r, b>> \notin provider
      BY <2>1, <3>2 DEF Sane, OneAtWork, Running
    <3>. QED BY <2>2, <3>3 DEF OneAtWork, Running
  <2>6. HandlerInOrder(r)' /\ CredentialKept(r)'
    BY <2>1, <2>2 DEF Sane, HandlerInOrder, CredentialKept
  <2>. QED BY <2>4, <2>5, <2>6 DEF Sane
<1>3. CASE Compensate(r)
  <2>1. OthersKept(r)
    BY <1>3 DEF Compensate, OthersKept, Kept, TypeOK
  <2>2. workflow[r] = "compensate" /\ workflow'[r] \in {"compensate", "failed"}
    BY <1>3 DEF Compensate, TypeOK
  <2>3. workflow'[r] = "failed" /\ credential'[r] => r \in broken'
    BY <1>3 DEF Compensate, TypeOK
  <2>4. UNCHANGED <<handler, current, attempt, provider, unsure>>
    BY <1>3 DEF Compensate
  <2>5. OneAtWork(r)'
    BY <2>2, <2>4 DEF Sane, OneAtWork, Running
  <2>6. HandlerInOrder(r)' /\ CredentialKept(r)'
    BY <2>2, <2>3, <2>4 DEF Sane, HandlerInOrder, CredentialKept, TypeOK
  <2>. QED BY <2>1, <2>5, <2>6 DEF Sane
<1>. QED
  BY <1>1, <1>2, <1>3 DEF RunWorkflow

\* The end of an attempt is about its request, and leaves it sane when what the
\* attempt registered is the workflow's success, is nothing, or is unsure.
LEMMA ReportStaysSane ==
    ASSUME TypeOK, NEW r \in Requests, Sane(r), NEW a \in Attempts, Running(r, a),
           NEW outcome, Report(r, a, outcome), UNCHANGED server,
           \A q \in Requests \ {r} : q \in unsure' <=> q \in unsure,
           unsure \subseteq unsure',
           \A q \in Requests, b \in Attempts :
               <<q, b>> # <<r, a>> => (<<q, b>> \in provider' <=> <<q, b>> \in provider),
           <<r, a>> \in provider' /\ outcome # "success" => r \in unsure'
    PROVE  OthersKept(r) /\ Sane(r)'
<1>. USE DEF server
<1>1. Moves(r, a, "ended") /\ RunTyped /\ RunElsewhereKept(r)
  BY ReportCloses
<1>2. OthersKept(r)
  BY <1>1 DEF OthersKept, Kept, Moves, RunElsewhereKept
<1>3. HandlerInOrder(r)' /\ CredentialKept(r)'
  <2>1. CASE current[r] = a /\ workflow[r] = "connect"
    <3>1. workflow'[r] \in {"connect", "compensate", "succeeded"}
      BY <2>1, ReportCloses
    <3>. QED BY <2>1, <3>1 DEF Sane, HandlerInOrder, CredentialKept
  <2>2. CASE ~(current[r] = a /\ workflow[r] = "connect")
    <3>1. UNCHANGED run
      BY <2>2, ReportCloses
    <3>. QED BY <3>1 DEF Sane, HandlerInOrder, CredentialKept, run
  <2>. QED BY <2>1, <2>2
<1>4. OneAtWork(r)'
  <2>1. SUFFICES ASSUME r \notin unsure' PROVE OneAtWork(r)'
    BY DEF OneAtWork
  <2>2. r \notin unsure /\ current[r] = a /\ workflow[r] = "connect"
    BY <2>1 DEF Sane, OneAtWork
  <2>3. \A b \in Attempts : Running(r, b) => b = a
    BY <2>2 DEF Sane, OneAtWork
  <2>4. \A b \in Attempts : <<r, b>> \in provider => b = a
    BY <2>2 DEF Sane, OneAtWork
  <2>5. \A b \in Attempts : ~Running(r, b)'
    BY <1>1, <2>3 DEF Moves, Running
  <2>6. \A b \in Attempts : <<r, b>> \in provider' => b = a
    BY <2>4
  <2>7. <<r, a>> \in provider' => workflow'[r] = "succeeded"
    BY <2>1, <2>2, ReportCloses
  <2>. QED BY <2>5, <2>6, <2>7 DEF OneAtWork
<1>. QED
  BY <1>2, <1>3, <1>4 DEF Sane

\* The steps of an attempt, and of the user who deletes what it has made.
LEMMA AttemptStaysSane ==
    ASSUME TypeOK, NEW r \in Requests, Sane(r), NEW a \in Attempts,
           \/ Resolve(r, a) \/ Create(r, a) \/ View(r, a) \/ WorkerDies(r, a)
           \/ DeleteProvider(r, a)
    PROVE  OthersKept(r) /\ Sane(r)'
<1>. USE DEF server, run
<1>0. attempt[r][a] \in {"resolve", "create"} /\ r \notin unsure =>
          /\ workflow[r] = "connect" /\ current[r] = a
          /\ \A b \in Attempts : <<r, b>> \notin provider
  BY DEF Sane, OneAtWork, Running
<1>1. CASE Resolve(r, a) /\ Goto(r, a, "create") /\ UNCHANGED run
  <2>1. Moves(r, a, "create")
    BY <1>1, GotoMoves DEF Stages
  <2>2. OthersKept(r)
    BY <1>1, <2>1 DEF Resolve, OthersKept, Kept, Moves
  <2>3. OneAtWork(r)'
    BY <1>0, <1>1, <2>1 DEF Resolve, Moves, Sane, OneAtWork, Running
  <2>. QED BY <1>1, <2>2, <2>3 DEF Resolve, Sane, HandlerInOrder, CredentialKept
<1>2. CASE Create(r, a) /\ Goto(r, a, "view") /\ UNCHANGED <<run, unsure>>
  <2>1. Moves(r, a, "view")
    BY <1>2, GotoMoves DEF Stages
  <2>2. \A q \in Requests, b \in Attempts :
            <<q, b>> # <<r, a>> => (<<q, b>> \in provider' <=> <<q, b>> \in provider)
    BY <1>2 DEF Create, Goto
  <2>3. OthersKept(r)
    BY <1>2, <2>1, <2>2 DEF Create, OthersKept, Kept, Moves
  <2>4. OneAtWork(r)'
    BY <1>0, <1>2, <2>1, <2>2 DEF Create, Moves, Sane, OneAtWork, Running
  <2>. QED BY <1>2, <2>3, <2>4 DEF Create, Sane, HandlerInOrder, CredentialKept
<1>3. ASSUME NEW outcome, Resolve(r, a), Report(r, a, outcome) PROVE OthersKept(r) /\ Sane(r)'
  <2>1. Running(r, a) /\ (<<r, a>> \in provider => r \in unsure)
    BY <1>0, <1>3 DEF Resolve, Running
  <2>. QED BY <1>3, <2>1, ReportStaysSane DEF Resolve
<1>4. ASSUME Create(r, a), NEW outcome, Report(r, a, outcome),
             \/ UNCHANGED <<provider, unsure>>
             \/ provider' = provider \cup {<<r, a>>} /\ unsure' = unsure \cup {r}
      PROVE  OthersKept(r) /\ Sane(r)'
  <2>1. Running(r, a) /\ UNCHANGED server /\ (<<r, a>> \in provider => r \in unsure)
    BY <1>0, <1>4 DEF Create, Running
  <2>2. /\ <<r, a>> \in provider' => r \in unsure'
        /\ \A q \in Requests \ {r} : q \in unsure' <=> q \in unsure
        /\ unsure \subseteq unsure'
    BY <1>4, <2>1
  <2>3. \A q \in Requests, b \in Attempts :
            <<q, b>> # <<r, a>> => (<<q, b>> \in provider' <=> <<q, b>> \in provider)
    BY <1>4
  <2>. QED BY <1>4, <2>1, <2>2, <2>3, ReportStaysSane
<1>5. CASE View(r, a)
  <2>1. Running(r, a) /\ UNCHANGED server /\ UNCHANGED provider
    BY <1>5 DEF View, Running
  <2>2. PICK outcome : /\ Report(r, a, outcome)
                       /\ IF outcome = "success" THEN UNCHANGED unsure
                          ELSE unsure' = unsure \cup {r}
    BY <1>5 DEF View
  <2>. QED BY <2>1, <2>2, ReportStaysSane
<1>6. CASE WorkerDies(r, a)
  <2>1. Moves(r, a, "ended") /\ Running(r, a)
    BY <1>6, GotoMoves DEF WorkerDies, Running, Stages
  <2>2. OthersKept(r)
    BY <1>6, <2>1 DEF WorkerDies, OthersKept, Kept, Moves
  <2>3. OneAtWork(r)'
    BY <1>6, <2>1 DEF WorkerDies, Moves, Sane, OneAtWork, Running
  <2>. QED BY <1>6, <2>2, <2>3 DEF WorkerDies, Sane, HandlerInOrder, CredentialKept
<1>7. CASE DeleteProvider(r, a)
  <2>1. OthersKept(r)
    BY <1>7 DEF DeleteProvider, OthersKept, Kept
  <2>2. OneAtWork(r)'
    BY <1>7 DEF DeleteProvider, Sane, OneAtWork, Running
  <2>. QED BY <1>7, <2>1, <2>2 DEF DeleteProvider, Sane, HandlerInOrder, CredentialKept
<1>8. Resolve(r, a) => OthersKept(r) /\ Sane(r)'
  BY <1>1, <1>3 DEF Resolve
<1>9. Create(r, a) => OthersKept(r) /\ Sane(r)'
  BY <1>2, <1>4 DEF Create
<1>. QED
  BY <1>5, <1>6, <1>7, <1>8, <1>9

--------------------------------------------------------------------------------
\* The invariant holds before the first request, and every step keeps it.
LEMMA InductiveInvariant == Spec => []IInv
<1>1. Init => IInv
  <2>. SUFFICES ASSUME Init PROVE IInv
    OBVIOUS
  <2>1. TypeOK
    BY MaxAttemptsAssumption DEF Init, TypeOK
  <2>2. ASSUME NEW r \in Requests PROVE Sane(r)
    BY DEF Init, Sane, HandlerInOrder, CredentialKept, OneAtWork, Running
  <2>. QED BY <2>1, <2>2 DEF IInv
<1>2. IInv /\ [Next]_vars => IInv'
  <2>. SUFFICES ASSUME IInv, [Next]_vars PROVE IInv'
    OBVIOUS
  <2>1. TypeOK /\ TypeOK' /\ \A r \in Requests : Sane(r)
    BY TypesKept DEF IInv
  <2>2. CASE UNCHANGED vars
    <3>1. \A q \in Requests : Kept(q)
      BY <2>2 DEF vars, Kept
    <3>. QED BY <2>1, <3>1, KeptStaysSane DEF IInv
  <2>3. CASE Next
    <3>1. PICK r \in Requests : OthersKept(r) /\ Sane(r)'
      BY <2>1, <2>3, HandlerStaysSane, WorkflowStaysSane, AttemptStaysSane DEF Next
    <3>2. \A q \in Requests \ {r} : Sane(q)'
      BY <2>1, <3>1, KeptStaysSane DEF OthersKept
    <3>. QED BY <2>1, <3>1, <3>2 DEF IInv
  <2>. QED BY <2>2, <2>3
<1>. QED
  BY <1>1, <1>2, PTL DEF Spec

\* A connect that succeeded has its credential, whatever the attempts that were
\* given up do and whoever dies on the way.
THEOREM SuccessHasCredential == Spec => []SuccessKeepsCredential
<1>1. IInv => SuccessKeepsCredential
  BY DEF IInv, Sane, CredentialKept, SuccessKeepsCredential
<1>. QED
  BY <1>1, InductiveInvariant, PTL

\* A request whose attempts were all done when they were given up has made at most
\* one provider, for any number of attempts.
THEOREM OneProviderPerRequest == Spec => []OneProviderUnlessUnsure
<1>1. ASSUME IInv, NEW r \in Requests, r \notin unsure PROVE ~(Cardinality(ProvidersOf(r)) > 1)
  <2>1. \A a, b \in ProvidersOf(r) : a = b
    BY <1>1 DEF IInv, Sane, OneAtWork, ProvidersOf
  <2>2. CASE ProvidersOf(r) = {}
    BY <2>2, FS_EmptySet
  <2>3. CASE ProvidersOf(r) # {}
    <3>1. PICK a : ProvidersOf(r) = {a}
      BY <2>1, <2>3
    <3>. QED BY <3>1, FS_Singleton
  <2>. QED BY <2>2, <2>3
<1>2. IInv => OneProviderUnlessUnsure
  BY <1>1 DEF OneProviderUnlessUnsure
<1>. QED
  BY <1>2, InductiveInvariant, PTL

\* The compensation never deletes the credential of a provider the workflow knows.
THEOREM ReferencesHold == Spec => []NoDanglingReference
<1>1. IInv => NoDanglingReference
  BY DEF IInv, Sane, OneAtWork, CredentialKept, ProvidersOf, NoDanglingReference
<1>. QED
  BY <1>1, InductiveInvariant, PTL

\* A credential outlives its failed connect only where the handler failed before
\* the workflow took charge of it, or the compensation did.
THEOREM OrphansAreKnown == Spec => []NoOrphanCredential
<1>1. IInv => NoOrphanCredential
  BY DEF IInv, Sane, CredentialKept, NoOrphanCredential
<1>. QED
  BY <1>1, InductiveInvariant, PTL

================================================================================
