------------------------ MODULE CatalogProbeLeaseProofs ------------------------
(* Proofs about CatalogProbeLease for any workers, processes, keys, duration and *)
(* number of tries.                                                              *)
EXTENDS CatalogProbeLease, TLAPS

--------------------------------------------------------------------------------
(* The inductive invariant.                                                      *)

\* A call that is to be read for its Update has a try left.
TriesLeft ==
    \A w \in Workers : /\ call[w].pc = "create" => call[w].tries = 0
                       /\ call[w].pc = "get" => call[w].tries < MaxTries

\* The version an Update is based on, while it is the lease's, may be taken over.
FreshMayBeTaken ==
    \A w \in Workers : call[w].pc = "update" /\ call[w].fresh =>
        /\ lease[Key(w)] # NoLease
        /\ lease[Key(w)].holder = ProcessOf[w] \/ Expired(lease[Key(w)].stamp)

\* The history has every probe that outlives its lease and every pair of flights
\* of a process for one provider.
Noted ==
    /\ \A w \in Workers : Holds(w) /\ Expired(call[w].stamp) => Key(w) \in overran
    /\ \A v, w \in Workers : /\ v # w /\ ProcessOf[v] = ProcessOf[w] /\ Key(v) = Key(w)
                             /\ Holds(v) /\ Holds(w)
                             => Key(v) \in shared

IInv == TriesLeft /\ FreshMayBeTaken /\ Noted /\ LeaseBacksProbe

--------------------------------------------------------------------------------
(* What the parts of a step do to the calls.                                     *)

Pcs == {"idle", "create", "get", "update", "probe", "releaseGet", "releaseDelete", "wait"}

\* A call is a record: an edit of it changes the fields it names.
LEMMA CallMoves ==
    ASSUME NEW c \in Calls, NEW pc \in Pcs
    PROVE  LET a == [c EXCEPT !.pc = pc] IN
           /\ a \in Calls
           /\ a.pc = pc /\ a.key = c.key /\ a.stamp = c.stamp /\ a.tries = c.tries
  BY DEF Calls, Pcs

LEMMA CallGoesStale ==
    ASSUME NEW c \in Calls, NEW b, b = [c EXCEPT !.fresh = FALSE]
    PROVE  /\ b \in Calls
           /\ b.pc = c.pc /\ b.key = c.key /\ b.stamp = c.stamp /\ b.tries = c.tries
           /\ ~b.fresh
<1>1. b \in Calls
  BY DEF Calls
<1>2. b.pc = c.pc /\ b.key = c.key /\ b.stamp = c.stamp /\ b.tries = c.tries
  BY DEF Calls
<1>3. ~b.fresh
  BY DEF Calls
<1>. QED
  BY <1>1, <1>2, <1>3

LEMMA CallProbes ==
    ASSUME NEW c \in Calls, NEW d, d = [c EXCEPT !.pc = "probe", !.fresh = FALSE, !.tries = 0]
    PROVE  d \in Calls /\ d.pc = "probe" /\ d.key = c.key /\ d.stamp = c.stamp
<1>1. 0 \in 0 .. MaxTries
  BY BoundsAssumption
<1>2. d \in Calls
  BY <1>1 DEF Calls
<1>. QED
  BY <1>2 DEF Calls

LEMMA IdleCallTyped == IdleCall \in Calls /\ IdleCall.pc = "idle"
  BY BoundsAssumption, KeysAssumption DEF IdleCall, Calls

\* The calls of Do: one that leads its flight and one that joins it.
LEMMA CallLeads ==
    ASSUME TypeOK, NEW k \in LeaseKeys, NEW f \in FlightKeys, NEW a,
           a = [IdleCall EXCEPT !.pc = "create", !.key = k, !.flight = f, !.stamp = now]
    PROVE  a \in Calls /\ a.pc = "create" /\ a.tries = 0
<1>1. IdleCall \in Calls /\ IdleCall.tries = 0 /\ now \in 0 .. MaxTime
  BY IdleCallTyped DEF IdleCall, TypeOK
<1>2. a \in Calls
  BY <1>1 DEF Calls
<1>. QED
  BY <1>1, <1>2 DEF Calls

LEMMA CallJoins ==
    ASSUME NEW k \in LeaseKeys, NEW f \in FlightKeys, NEW u \in Workers, NEW b,
           b = [IdleCall EXCEPT !.pc = "wait", !.key = k, !.flight = f, !.waitsFor = u]
    PROVE  b \in Calls /\ b.pc = "wait"
  BY IdleCallTyped DEF Calls

\* The call of Get that has found the lease free or its own.
LEMMA CallUpdates ==
    ASSUME TypeOK, NEW c \in Calls, c.tries < MaxTries, NEW d,
           d = [c EXCEPT !.pc = "update", !.fresh = TRUE, !.stamp = now, !.tries = c.tries + 1]
    PROVE  d \in Calls /\ d.pc = "update" /\ d.key = c.key
<1>1. c.tries + 1 \in 0 .. MaxTries /\ now \in 0 .. MaxTime
  BY BoundsAssumption DEF Calls, TypeOK
<1>2. d \in Calls
  BY <1>1 DEF Calls
<1>. QED
  BY <1>2 DEF Calls

--------------------------------------------------------------------------------
(* The shapes of a step.                                                         *)

\* The call of v, the lease as it was.
Quiet(v) ==
    \/ call'[v] = call[v]
    \/ call'[v].pc \in {"idle", "wait"}
    \/ call'[v].pc = "create" /\ call'[v].tries = 0
    \/ call'[v].pc = "get" /\ call'[v].tries < MaxTries
    \/ /\ call'[v].pc = "update" /\ call'[v].key = Key(v)
       /\ lease[Key(v)] # NoLease /\ ~HeldByOther(v)
    \/ /\ Holds(v) /\ call'[v].pc \in {"probe", "releaseGet", "releaseDelete"}
       /\ call'[v].key = Key(v) /\ call'[v].stamp = call[v].stamp

\* The call of v while another worker writes the lease of k.
Carried(v, k) ==
    /\ call'[v].pc = call[v].pc /\ call'[v].key = call[v].key
    /\ call'[v].stamp = call[v].stamp /\ call'[v].tries = call[v].tries
    /\ call'[v].fresh => call[v].fresh /\ Key(v) # k

Quietly == UNCHANGED lease /\ \A v \in Workers : Quiet(v)

Stamped(w) ==
    /\ \/ call[w].pc = "create" /\ lease[Key(w)] = NoLease
       \/ call[w].pc = "update" /\ call[w].fresh
    /\ lease' = [lease EXCEPT ![Key(w)] = [holder |-> ProcessOf[w], stamp |-> call[w].stamp]]
    /\ call'[w].pc = "probe" /\ call'[w].key = Key(w) /\ call'[w].stamp = call[w].stamp
    /\ \A v \in Workers \ {w} : Carried(v, Key(w))

Released(w) ==
    /\ Holds(w) /\ call'[w].pc = "idle"
    /\ lease' = [lease EXCEPT ![Key(w)] = NoLease]
    /\ \A v \in Workers \ {w} : call'[v].pc = "idle" \/ Carried(v, Key(w))

CallsTyped ==
    /\ call' \in [Workers -> Calls]
    /\ lease' \in [LeaseKeys -> Leases \cup {NoLease}]
    /\ leader' \in [Processes -> [FlightKeys -> Workers \cup {NoWorker}]]

\* A worker whose call goes on to another place of the code.
LEMMA GotoShape ==
    ASSUME TypeOK, NEW w \in Workers, NEW pc \in Pcs, Goto(w, pc)
    PROVE  /\ call' \in [Workers -> Calls]
           /\ call'[w].pc = pc /\ call'[w].key = call[w].key
           /\ call'[w].stamp = call[w].stamp /\ call'[w].tries = call[w].tries
           /\ \A v \in Workers \ {w} : call'[v] = call[v]
<1>1. call[w] \in Calls /\ call' = [call EXCEPT ![w] = [call[w] EXCEPT !.pc = pc]]
  BY DEF TypeOK, Goto
<1>. QED
  BY <1>1, CallMoves DEF TypeOK

\* A flight that ends leaves its workers idle.
LEMMA FinishShape ==
    ASSUME TypeOK, NEW w \in Workers, Finish(w)
    PROVE  CallsTyped /\ Quietly /\ call'[w].pc = "idle"
<1>1. \A v \in Workers : call'[v] = IdleCall \/ call'[v] = call[v]
  BY DEF Finish, FinishedCalls
<1>2. call' \in [Workers -> Calls] /\ call'[w].pc = "idle"
  BY IdleCallTyped DEF Finish, FinishedCalls, TypeOK
<1>3. leader' \in [Processes -> [FlightKeys -> Workers \cup {NoWorker}]]
  <2>1. ProcessOf[w] \in Processes /\ call[w].flight \in FlightKeys
    BY ProcessesAssumption DEF TypeOK, Calls
  <2>. DEFINE flights == [leader[ProcessOf[w]] EXCEPT ![call[w].flight] = NoWorker]
  <2>2. leader' = [leader EXCEPT ![ProcessOf[w]] = flights]
    BY DEF Finish
  <2>3. flights \in [FlightKeys -> Workers \cup {NoWorker}]
    BY <2>1 DEF TypeOK
  <2>. HIDE DEF flights
  <2>. QED BY <2>1, <2>2, <2>3 DEF TypeOK
<1>. QED
  BY <1>1, <1>2, <1>3, IdleCallTyped DEF Finish, CallsTyped, Quietly, Quiet, TypeOK

\* A worker that writes the lease makes the versions others have read stale.
LEMMA StampShape ==
    ASSUME TypeOK, NEW w \in Workers, Stamp(w, "probe"), UNCHANGED leader,
           \/ call[w].pc = "create" /\ lease[Key(w)] = NoLease
           \/ call[w].pc = "update" /\ call[w].fresh
    PROVE  CallsTyped /\ Stamped(w)
<1>1. call[w] \in Calls /\ ProcessOf[w] \in Processes
  BY ProcessesAssumption DEF TypeOK
<1>2. Key(w) \in LeaseKeys /\ call[w].stamp \in 0 .. MaxTime
  BY <1>1 DEF Key, Calls
<1>3. lease' \in [LeaseKeys -> Leases \cup {NoLease}]
  BY <1>1, <1>2 DEF Stamp, Leases, TypeOK
<1>4. call'[w] = [call[w] EXCEPT !.pc = "probe", !.fresh = FALSE, !.tries = 0]
  BY DEF Stamp
<1>5. \A v \in Workers \ {w} : call'[v] = IF Key(v) = Key(w) THEN [call[v] EXCEPT !.fresh = FALSE]
                                          ELSE call[v]
  BY DEF Stamp
<1>6. /\ call'[w] \in Calls
      /\ call'[w].pc = "probe" /\ call'[w].key = Key(w) /\ call'[w].stamp = call[w].stamp
  <2>1. /\ call'[w] \in Calls
        /\ call'[w].pc = "probe" /\ call'[w].key = call[w].key /\ call'[w].stamp = call[w].stamp
    <3>. DEFINE before == call[w]  after == call'[w]
    <3>1. before \in Calls /\ after = [before EXCEPT !.pc = "probe", !.fresh = FALSE, !.tries = 0]
      BY <1>1, <1>4
    <3>. HIDE DEF before, after
    <3>2. after \in Calls /\ after.pc = "probe" /\ after.key = before.key /\ after.stamp = before.stamp
      BY <3>1, CallProbes
    <3>. QED BY <3>2 DEF before, after
  <2>. QED BY <2>1 DEF Key
<1>7. ASSUME NEW v \in Workers \ {w} PROVE call'[v] \in Calls /\ Carried(v, Key(w))
  <2>1. call[v] \in Calls
    BY DEF TypeOK
  <2>2. CASE Key(v) = Key(w)
    <3>1. call'[v] = [call[v] EXCEPT !.fresh = FALSE]
      BY <1>5, <2>2
    <3>2. /\ call'[v] \in Calls /\ ~call'[v].fresh
          /\ call'[v].pc = call[v].pc /\ call'[v].key = call[v].key
          /\ call'[v].stamp = call[v].stamp /\ call'[v].tries = call[v].tries
      BY <2>1, <3>1, CallGoesStale
    <3>. QED BY <3>2 DEF Carried
  <2>3. CASE Key(v) # Key(w)
    <3>1. call'[v] = call[v]
      BY <1>5, <2>3
    <3>. QED BY <2>1, <2>3, <3>1 DEF Carried
  <2>. QED BY <2>2, <2>3
<1>8. call' \in [Workers -> Calls]
  <2>1. \A v \in Workers : call'[v] \in Calls
    BY <1>6, <1>7
  <2>2. call' = [v \in Workers |-> call'[v]]
    BY DEF Stamp
  <2>. QED BY <2>1, <2>2
<1>. QED
  BY <1>3, <1>6, <1>7, <1>8 DEF CallsTyped, Stamped, Stamp, TypeOK

\* Every step of a worker is of one of the three shapes.
LEMMA WorkerShape ==
    ASSUME TypeOK, TriesLeft, NEW w \in Workers, Do(w) \/ Step(w)
    PROVE  CallsTyped /\ (Quietly \/ Stamped(w) \/ Released(w))
<1>0. call[w] \in Calls /\ ProcessOf[w] \in Processes /\ Key(w) \in LeaseKeys
  BY ProcessesAssumption DEF TypeOK, Calls, Key
<1>1. CASE Do(w)
  <2>1. PICK k \in LeaseKeys, f \in FlightKeys :
            \/ /\ leader' = [leader EXCEPT ![ProcessOf[w]] = [@ EXCEPT ![f] = w]]
               /\ call' = [call EXCEPT ![w] = [IdleCall EXCEPT !.pc = "create", !.key = k,
                                                               !.flight = f, !.stamp = now]]
            \/ /\ leader[ProcessOf[w]][f] # NoWorker
               /\ call' = [call EXCEPT ![w] = [IdleCall EXCEPT !.pc = "wait", !.key = k,
                              !.flight = f, !.waitsFor = leader[ProcessOf[w]][f]]]
               /\ UNCHANGED leader
    BY <1>1 DEF Do
  <2>2. leader[ProcessOf[w]][f] \in Workers \cup {NoWorker}
    BY <1>0 DEF TypeOK
  <2>3. PICK c \in Calls : /\ call' = [call EXCEPT ![w] = c]
                           /\ c.pc = "wait" \/ (c.pc = "create" /\ c.tries = 0)
    <3>1. CASE UNCHANGED leader /\ leader[ProcessOf[w]][f] # NoWorker
                  /\ call' = [call EXCEPT ![w] = [IdleCall EXCEPT !.pc = "wait", !.key = k,
                                 !.flight = f, !.waitsFor = leader[ProcessOf[w]][f]]]
      <4>. DEFINE u == leader[ProcessOf[w]][f]
                  b == [IdleCall EXCEPT !.pc = "wait", !.key = k, !.flight = f, !.waitsFor = u]
      <4>1. u \in Workers
        BY <2>2, <3>1
      <4>2. b \in Calls /\ b.pc = "wait"
        BY <4>1, CallJoins
      <4>3. call' = [call EXCEPT ![w] = b]
        BY <3>1
      <4>. HIDE DEF b
      <4>. QED BY <4>2, <4>3
    <3>2. CASE call' = [call EXCEPT ![w] = [IdleCall EXCEPT !.pc = "create", !.key = k,
                                                            !.flight = f, !.stamp = now]]
      BY <3>2, CallLeads
    <3>. QED BY <2>1, <3>1, <3>2
  <2>4. leader' \in [Processes -> [FlightKeys -> Workers \cup {NoWorker}]]
    <3>. DEFINE flights == [leader[ProcessOf[w]] EXCEPT ![f] = w]
    <3>1. flights \in [FlightKeys -> Workers \cup {NoWorker}]
      BY <1>0 DEF TypeOK
    <3>2. leader' = [leader EXCEPT ![ProcessOf[w]] = flights] \/ leader' = leader
      BY <2>1
    <3>. HIDE DEF flights
    <3>. QED BY <1>0, <3>1, <3>2 DEF TypeOK
  <2>5. Quietly
    BY <1>1, <2>3 DEF Do, Quietly, Quiet, TypeOK
  <2>. QED BY <1>1, <2>3, <2>4, <2>5 DEF Do, CallsTyped, TypeOK
<1>2. CASE Finish(w)
  BY <1>2, FinishShape
<1>3. ASSUME NEW pc \in Pcs, Goto(w, pc), UNCHANGED <<lease, leader>>,
             \/ pc = "get" /\ call[w].tries < MaxTries
             \/ Holds(w) /\ pc \in {"releaseGet", "releaseDelete"}
      PROVE  CallsTyped /\ Quietly
  BY <1>3, GotoShape DEF CallsTyped, Quietly, Quiet, Key, TypeOK
<1>4. CASE Create(w)
  <2>1. CASE lease[Key(w)] = NoLease /\ Stamp(w, "probe")
    BY <1>4, <2>1, StampShape DEF Create
  <2>2. CASE Goto(w, "get") /\ UNCHANGED lease
    BY <1>3, <1>4, <2>2, BoundsAssumption DEF Create, Pcs, TriesLeft
  <2>. QED BY <1>4, <2>1, <2>2 DEF Create
<1>5. CASE Get(w)
  <2>1. CASE ~Finish(w)
    <3>1. /\ lease[Key(w)] # NoLease /\ ~HeldByOther(w)
          /\ call' = [call EXCEPT ![w] = [call[w] EXCEPT !.pc = "update", !.fresh = TRUE,
                                              !.stamp = now, !.tries = call[w].tries + 1]]
          /\ UNCHANGED <<lease, leader>>
      BY <1>5, <2>1 DEF Get
    <3>2. call[w].tries < MaxTries
      BY <1>5 DEF Get, TriesLeft
    <3>3. PICK d \in Calls : call' = [call EXCEPT ![w] = d] /\ d.pc = "update" /\ d.key = Key(w)
      <4>. DEFINE d == [call[w] EXCEPT !.pc = "update", !.fresh = TRUE, !.stamp = now,
                                       !.tries = call[w].tries + 1]
      <4>1. d \in Calls /\ d.pc = "update" /\ d.key = call[w].key
        BY <1>0, <3>2, CallUpdates
      <4>2. call' = [call EXCEPT ![w] = d]
        BY <3>1
      <4>. HIDE DEF d
      <4>. QED BY <4>1, <4>2 DEF Key
    <3>. QED BY <3>1, <3>3 DEF CallsTyped, Quietly, Quiet, TypeOK
  <2>. QED BY <1>2, <2>1
<1>6. CASE Update(w)
  <2>1. CASE call[w].fresh /\ Stamp(w, "probe") /\ UNCHANGED leader
    BY <1>6, <2>1, StampShape DEF Update
  <2>2. CASE call[w].tries < MaxTries /\ Goto(w, "get") /\ UNCHANGED <<lease, leader>>
    BY <1>3, <2>2 DEF Pcs
  <2>. QED BY <1>2, <1>6, <2>1, <2>2 DEF Update
<1>7. CASE Probe(w)
  BY <1>3, <1>7 DEF Probe, Holds, Pcs
<1>8. CASE ReleaseGet(w)
  BY <1>2, <1>3, <1>8 DEF ReleaseGet, Holds, Pcs
<1>9. CASE ReleaseDelete(w)
  <2>. DEFINE stale == [v \in Workers |-> IF Key(v) = Key(w) THEN [call[v] EXCEPT !.fresh = FALSE]
                                          ELSE call[v]]
  <2>1. call' = [v \in Workers |-> IF v = w \/ stale[v].waitsFor = w THEN IdleCall ELSE stale[v]]
    BY <1>9 DEF ReleaseDelete, FinishedCalls
  <2>2. ASSUME NEW v \in Workers
        PROVE  stale[v] \in Calls /\ (stale[v] = call'[v] => Carried(v, Key(w)))
    <3>1. call[v] \in Calls
      BY DEF TypeOK
    <3>2. stale[v] = IF Key(v) = Key(w) THEN [call[v] EXCEPT !.fresh = FALSE] ELSE call[v]
      OBVIOUS
    <3>. HIDE DEF stale
    <3>3. CASE Key(v) = Key(w)
      BY <3>1, <3>2, <3>3, CallGoesStale DEF Carried
    <3>4. CASE Key(v) # Key(w)
      BY <3>1, <3>2, <3>4 DEF Carried
    <3>. QED BY <3>3, <3>4
  <2>. HIDE DEF stale
  <2>3. \A v \in Workers : call'[v] = IdleCall \/ call'[v] = stale[v]
    BY <2>1
  <2>4. call' \in [Workers -> Calls] /\ call'[w].pc = "idle"
    BY <2>1, <2>2, IdleCallTyped
  <2>5. \A v \in Workers \ {w} : call'[v].pc = "idle" \/ Carried(v, Key(w))
    BY <2>2, <2>3, IdleCallTyped
  <2>6. lease' = [lease EXCEPT ![Key(w)] = NoLease] /\ Holds(w)
    BY <1>9 DEF ReleaseDelete, Holds
  <2>7. leader' \in [Processes -> [FlightKeys -> Workers \cup {NoWorker}]]
    <3>1. call[w].flight \in FlightKeys
      BY <1>0 DEF Calls
    <3>. DEFINE flights == [leader[ProcessOf[w]] EXCEPT ![call[w].flight] = NoWorker]
    <3>2. flights \in [FlightKeys -> Workers \cup {NoWorker}]
      BY <1>0, <3>1 DEF TypeOK
    <3>3. leader' = [leader EXCEPT ![ProcessOf[w]] = flights]
      BY <1>9 DEF ReleaseDelete
    <3>. HIDE DEF flights
    <3>. QED BY <1>0, <3>2, <3>3 DEF TypeOK
  <2>8. lease' \in [LeaseKeys -> Leases \cup {NoLease}]
    BY <1>0, <2>6 DEF TypeOK
  <2>. QED BY <2>4, <2>5, <2>6, <2>7, <2>8 DEF CallsTyped, Released
<1>. QED
  BY <1>1, <1>2, <1>4, <1>5, <1>6, <1>7, <1>8, <1>9 DEF Step, Fail, ReleaseFails

\* A process that dies leaves its workers idle and its leases.
LEMMA CrashShape ==
    ASSUME TypeOK, NEW p \in Processes, Crash(p)
    PROVE  CallsTyped /\ Quietly
<1>1. \A v \in Workers : call'[v] = IdleCall \/ call'[v] = call[v]
  BY DEF Crash
<1>2. call' \in [Workers -> Calls]
  BY IdleCallTyped DEF Crash, TypeOK
<1>3. leader' \in [Processes -> [FlightKeys -> Workers \cup {NoWorker}]]
  <2>. DEFINE none == [f \in FlightKeys |-> NoWorker]
  <2>1. none \in [FlightKeys -> Workers \cup {NoWorker}] /\ leader' = [leader EXCEPT ![p] = none]
    BY DEF Crash
  <2>. HIDE DEF none
  <2>. QED BY <2>1 DEF TypeOK
<1>. QED
  BY <1>1, <1>2, <1>3, IdleCallTyped DEF Crash, CallsTyped, Quietly, Quiet, TypeOK

--------------------------------------------------------------------------------
\* Every step keeps the types, and the history of the overruns and of the flights
\* for one provider takes in what the step has made.
LEMMA TypesKept == TypeOK /\ TriesLeft /\ [Next]_vars => TypeOK'
<1>. SUFFICES ASSUME TypeOK, TriesLeft, [Next]_vars PROVE TypeOK'
  OBVIOUS
<1>1. CASE UNCHANGED vars
  BY <1>1 DEF vars, TypeOK
<1>2. CASE Next
  <2>1. CallsTyped /\ now' \in 0 .. MaxTime
    <3>1. CASE Tick
      BY <3>1, BoundsAssumption DEF Tick, CallsTyped, TypeOK
    <3>2. CASE ~Tick
      BY <1>2, <3>2, WorkerShape, CrashShape DEF Next, TypeOK
    <3>. QED BY <3>1, <3>2
  <2>2. \A w \in Workers : Key(w)' \in LeaseKeys
    BY <2>1 DEF CallsTyped, Calls, Key
  <2>3. overran' \subseteq LeaseKeys /\ shared' \subseteq LeaseKeys
    BY <1>2, <2>2 DEF Next, Record, TypeOK
  <2>. QED BY <2>1, <2>3 DEF CallsTyped, TypeOK
<1>. QED
  BY <1>1, <1>2

LEMMA HistoryKept ==
    ASSUME Record
    PROVE  Noted' /\ overran \subseteq overran' /\ shared \subseteq shared'
<1>1. overran \subseteq overran' /\ shared \subseteq shared'
  BY DEF Record
<1>2. ASSUME NEW w \in Workers, Holds(w)', Expired(call[w].stamp)' PROVE Key(w)' \in overran'
  BY <1>2 DEF Record
<1>3. ASSUME NEW v \in Workers, NEW w \in Workers, v # w, ProcessOf[v] = ProcessOf[w],
             Key(v)' = Key(w)', Holds(v)', Holds(w)'
      PROVE  Key(v)' \in shared'
  BY <1>3 DEF Record
<1>. QED
  BY <1>1, <1>2, <1>3 DEF Noted

--------------------------------------------------------------------------------
\* What each shape of step does to the lease behind the probes.
StepKeeps == TriesLeft' /\ FreshMayBeTaken' /\ LeaseBacksProbe'

LEMMA QuietKeeps ==
    ASSUME IInv, TypeOK', Noted', overran \subseteq overran', shared \subseteq shared',
           UNCHANGED now, Quietly
    PROVE  StepKeeps
<1>. USE DEF IInv, Quietly
<1>1. TriesLeft'
  BY DEF TriesLeft, Quiet, Holds
<1>2. ASSUME NEW v \in Workers, call'[v].pc = "update", call'[v].fresh
      PROVE  /\ lease'[Key(v)'] # NoLease
             /\ lease'[Key(v)'].holder = ProcessOf[v] \/ Expired(lease[Key(v)].stamp)'
  <2>1. CASE call'[v] = call[v]
    BY <1>2, <2>1 DEF FreshMayBeTaken, Key, Expired
  <2>2. CASE call'[v] # call[v]
    <3>1. call'[v].key = Key(v) /\ lease[Key(v)] # NoLease /\ ~HeldByOther(v)
      BY <1>2, <2>2 DEF Quiet
    <3>. QED BY <3>1 DEF HeldByOther, Expired, Key
  <2>. QED BY <2>1, <2>2
<1>3. FreshMayBeTaken'
  BY <1>2 DEF FreshMayBeTaken
<1>4. ASSUME NEW v \in Workers, Holds(v)', Key(v)' \notin overran' \cup shared'
      PROVE  lease'[Key(v)'] = [holder |-> ProcessOf[v], stamp |-> call'[v].stamp]
  <2>1. Holds(v) /\ Key(v)' = Key(v) /\ call'[v].stamp = call[v].stamp
    BY <1>4 DEF Quiet, Holds, Key
  <2>. QED BY <1>4, <2>1 DEF LeaseBacksProbe
<1>5. LeaseBacksProbe'
  BY <1>4 DEF LeaseBacksProbe
<1>. QED
  BY <1>1, <1>3, <1>5 DEF StepKeeps

\* Two probes of a provider whose lease is in order are of one process.
LEMMA OneProcessProbes ==
    ASSUME IInv, NEW v \in Workers, NEW w \in Workers, Holds(v), Holds(w), Key(v) = Key(w),
           Key(v) \notin overran \cup shared
    PROVE  ProcessOf[v] = ProcessOf[w]
<1>1. /\ lease[Key(v)] = [holder |-> ProcessOf[v], stamp |-> call[v].stamp]
      /\ lease[Key(w)] = [holder |-> ProcessOf[w], stamp |-> call[w].stamp]
  BY DEF IInv, LeaseBacksProbe
<1>2. lease[Key(v)].holder = ProcessOf[v] /\ lease[Key(w)].holder = ProcessOf[w]
  BY <1>1
<1>. QED
  BY <1>2

LEMMA StampKeeps ==
    ASSUME IInv, TypeOK', Noted', overran \subseteq overran', shared \subseteq shared',
           UNCHANGED now, NEW w \in Workers, Stamped(w)
    PROVE  StepKeeps
<1>. USE DEF IInv
<1>0. /\ TypeOK
      /\ \A v \in Workers : Key(v) \in LeaseKeys /\ call[v].stamp \in Nat
  BY BoundsAssumption DEF LeaseBacksProbe, TypeOK, Calls, Key
<1>1. \A v \in Workers \ {w} : Carried(v, Key(w))
  BY DEF Stamped
<1>2. TriesLeft'
  BY <1>1 DEF TriesLeft, Stamped, Carried
<1>3. ASSUME NEW v \in Workers, call'[v].pc = "update", call'[v].fresh
      PROVE  /\ lease'[Key(v)'] # NoLease
             /\ lease'[Key(v)'].holder = ProcessOf[v] \/ Expired(lease[Key(v)].stamp)'
  <2>1. v # w
    BY <1>3 DEF Stamped
  <2>2. call[v].pc = "update" /\ call[v].fresh /\ Key(v) # Key(w) /\ Key(v)' = Key(v)
    BY <1>1, <1>3, <2>1 DEF Carried, Key
  <2>3. lease'[Key(v)] = lease[Key(v)]
    BY <1>0, <2>2 DEF Stamped, TypeOK
  <2>. QED BY <2>2, <2>3 DEF FreshMayBeTaken, Expired
<1>4. FreshMayBeTaken'
  BY <1>3 DEF FreshMayBeTaken
<1>5. ASSUME NEW v \in Workers, Holds(v)', Key(v)' \notin overran' \cup shared'
      PROVE  lease'[Key(v)'] = [holder |-> ProcessOf[v], stamp |-> call'[v].stamp]
  <2>1. CASE v = w
    BY <1>0, <2>1 DEF Stamped, Key, TypeOK
  <2>2. CASE v # w
    <3>1. Holds(v) /\ Key(v)' = Key(v) /\ call'[v].stamp = call[v].stamp
      BY <1>1, <1>5, <2>2 DEF Carried, Holds, Key
    <3>2. lease[Key(v)] = [holder |-> ProcessOf[v], stamp |-> call[v].stamp]
      BY <1>5, <3>1 DEF LeaseBacksProbe
    <3>3. ASSUME Key(v) = Key(w) PROVE FALSE
      <4>1. ProcessOf[v] # ProcessOf[w]
        BY <1>5, <2>2, <3>1, <3>3 DEF Noted, Stamped, Holds, Key
      <4>2. ProcessOf[v] \in Processes /\ call[v].stamp \in Nat
        BY <1>0, ProcessesAssumption
      <4>3. lease[Key(v)] # NoLease /\ lease[Key(v)].holder = ProcessOf[v]
        BY <3>2, <4>2, NullsAssumption
      <4>4. Expired(call[v].stamp)
        BY <3>2, <3>3, <4>1, <4>3 DEF Stamped, FreshMayBeTaken
      <4>5. Key(v) \in overran
        BY <3>1, <4>4 DEF Noted
      <4>. QED BY <1>5, <3>1, <4>5
    <3>4. lease'[Key(v)] = lease[Key(v)]
      BY <1>0, <3>3 DEF Stamped, TypeOK
    <3>. QED BY <3>1, <3>2, <3>4
  <2>. QED BY <2>1, <2>2
<1>6. LeaseBacksProbe'
  BY <1>5 DEF LeaseBacksProbe
<1>. QED
  BY <1>2, <1>4, <1>6 DEF StepKeeps

LEMMA ReleaseKeeps ==
    ASSUME IInv, TypeOK', Noted', overran \subseteq overran', shared \subseteq shared',
           UNCHANGED now, NEW w \in Workers, Released(w)
    PROVE  StepKeeps
<1>. USE DEF IInv
<1>0. TypeOK /\ \A v \in Workers : Key(v) \in LeaseKeys
  BY DEF LeaseBacksProbe, TypeOK, Calls, Key
<1>1. \A v \in Workers : call'[v].pc # "idle" => v # w /\ Carried(v, Key(w))
  BY DEF Released
<1>2. TriesLeft'
  BY <1>1 DEF TriesLeft, Carried
<1>3. ASSUME NEW v \in Workers, call'[v].pc = "update", call'[v].fresh
      PROVE  /\ lease'[Key(v)'] # NoLease
             /\ lease'[Key(v)'].holder = ProcessOf[v] \/ Expired(lease[Key(v)].stamp)'
  <2>1. call[v].pc = "update" /\ call[v].fresh /\ Key(v) # Key(w) /\ Key(v)' = Key(v)
    BY <1>1, <1>3 DEF Carried, Key
  <2>2. lease'[Key(v)] = lease[Key(v)]
    BY <1>0, <2>1 DEF Released, TypeOK
  <2>. QED BY <2>1, <2>2 DEF FreshMayBeTaken, Expired
<1>4. FreshMayBeTaken'
  BY <1>3 DEF FreshMayBeTaken
<1>5. ASSUME NEW v \in Workers, Holds(v)', Key(v)' \notin overran' \cup shared'
      PROVE  lease'[Key(v)'] = [holder |-> ProcessOf[v], stamp |-> call'[v].stamp]
  <2>1. v # w /\ Holds(v) /\ Key(v)' = Key(v) /\ call'[v].stamp = call[v].stamp
    BY <1>1, <1>5 DEF Carried, Holds, Key
  <2>2. lease[Key(v)] = [holder |-> ProcessOf[v], stamp |-> call[v].stamp]
    BY <1>5, <2>1 DEF LeaseBacksProbe
  <2>3. ASSUME Key(v) = Key(w) PROVE FALSE
    <3>1. Holds(w) /\ Key(v) \notin overran \cup shared
      BY <1>5, <2>1 DEF Released
    <3>2. ProcessOf[v] = ProcessOf[w]
      BY <2>1, <2>3, <3>1, OneProcessProbes
    <3>. QED BY <2>1, <2>3, <3>1, <3>2 DEF Noted
  <2>4. lease'[Key(v)] = lease[Key(v)]
    BY <1>0, <2>3 DEF Released, TypeOK
  <2>. QED BY <2>1, <2>2, <2>4
<1>6. LeaseBacksProbe'
  BY <1>5 DEF LeaseBacksProbe
<1>. QED
  BY <1>2, <1>4, <1>6 DEF StepKeeps

LEMMA TickKeeps ==
    ASSUME IInv, TypeOK', Noted', overran \subseteq overran', shared \subseteq shared', Tick
    PROVE  StepKeeps
<1>. USE DEF IInv, Tick
<1>1. TriesLeft'
  BY DEF TriesLeft
<1>2. FreshMayBeTaken'
  <2>1. ASSUME NEW v \in Workers, lease[Key(v)] # NoLease, Expired(lease[Key(v)].stamp)
        PROVE  Expired(lease[Key(v)].stamp)'
    <3>1. lease[Key(v)] \in Leases /\ now \in Nat
      BY <2>1, BoundsAssumption DEF LeaseBacksProbe, TypeOK, Calls, Key
    <3>2. lease[Key(v)].stamp \in Nat
      BY <3>1, BoundsAssumption DEF Leases
    <3>. QED BY <2>1, <3>1, <3>2, BoundsAssumption DEF Expired, Key
  <2>. QED BY <2>1 DEF FreshMayBeTaken, Key
<1>3. LeaseBacksProbe'
  BY DEF LeaseBacksProbe, Holds, Key
<1>. QED
  BY <1>1, <1>2, <1>3 DEF StepKeeps

--------------------------------------------------------------------------------
\* The invariant holds before the first call, and every step keeps it.
LEMMA InductiveInvariant == Spec => []IInv
<1>1. Init => IInv
  <2>. SUFFICES ASSUME Init PROVE IInv
    OBVIOUS
  <2>1. TypeOK
    BY IdleCallTyped, BoundsAssumption DEF Init, TypeOK
  <2>2. \A w \in Workers : call[w].pc = "idle"
    BY IdleCallTyped DEF Init
  <2>. QED BY <2>1, <2>2 DEF IInv, TriesLeft, FreshMayBeTaken, Noted, LeaseBacksProbe, Holds
<1>2. IInv /\ [Next]_vars => IInv'
  <2>. SUFFICES ASSUME IInv, [Next]_vars PROVE IInv'
    OBVIOUS
  <2>1. TypeOK /\ TypeOK' /\ TriesLeft
    BY TypesKept DEF IInv, LeaseBacksProbe
  <2>2. CASE UNCHANGED vars
    BY <2>2 DEF vars, IInv, TriesLeft, FreshMayBeTaken, Noted, LeaseBacksProbe, TypeOK, Holds,
                Key, Expired
  <2>3. CASE Next
    <3>1. Noted' /\ overran \subseteq overran' /\ shared \subseteq shared'
      BY <2>3, HistoryKept DEF Next
    <3>2. StepKeeps
      <4>1. CASE Tick
        BY <2>1, <3>1, <4>1, TickKeeps
      <4>2. CASE ~Tick
        <5>1. UNCHANGED now /\ (Quietly \/ \E w \in Workers : Stamped(w) \/ Released(w))
          BY <2>1, <2>3, <4>2, WorkerShape, CrashShape DEF Next
        <5>. QED BY <2>1, <3>1, <5>1, QuietKeeps, StampKeeps, ReleaseKeeps
      <4>. QED BY <4>1, <4>2
    <3>. QED BY <3>1, <3>2 DEF IInv, StepKeeps
  <2>. QED BY <2>2, <2>3
<1>. QED
  BY <1>1, <1>2, PTL DEF Spec

\* The lease of a probe within its time is in place with its holder and its stamp,
\* unless a second flight of its process has disturbed it.
THEOREM ProbesAreBacked == Spec => []LeaseBacksProbe
<1>1. IInv => LeaseBacksProbe
  BY DEF IInv
<1>. QED
  BY <1>1, InductiveInvariant, PTL

\* Two processes never probe a provider at once while every probe ends within its
\* lease and no process runs two flights for the provider.
THEOREM ProbesAreExclusive == Spec => []ExclusiveUnlessOverrun
<1>1. IInv => ExclusiveUnlessOverrun
  BY OneProcessProbes DEF ExclusiveUnlessOverrun
<1>. QED
  BY <1>1, InductiveInvariant, PTL

\* No step gives a lease of one process to another before it has expired, however
\* many Gets and Updates of other workers lie between.
THEOREM TakeoversWait == Spec => TakeoverOnlyAfterExpiry
<1>1. ASSUME IInv, [Next]_vars, NEW k \in LeaseKeys, lease[k] # NoLease, lease'[k] # NoLease,
             lease'[k].holder # lease[k].holder
      PROVE  Expired(lease[k].stamp)
  <2>1. TypeOK /\ TriesLeft
    BY <1>1 DEF IInv, LeaseBacksProbe
  <2>2. lease' # lease
    BY <1>1
  <2>3. PICK w \in Workers : Stamped(w) \/ Released(w)
    BY <1>1, <2>1, <2>2, WorkerShape, CrashShape DEF Next, Tick, vars, Quietly
  <2>4. Key(w) \in LeaseKeys
    BY <2>1 DEF TypeOK, Calls, Key
  <2>5. k = Key(w) /\ Stamped(w)
    BY <1>1, <2>1, <2>3, <2>4 DEF Stamped, Released, TypeOK
  <2>6. lease'[k].holder = ProcessOf[w]
    BY <2>1, <2>4, <2>5 DEF Stamped, TypeOK
  <2>. QED BY <1>1, <2>5, <2>6 DEF Stamped, IInv, FreshMayBeTaken
<1>2. IInv /\ [Next]_vars =>
        [\A k \in LeaseKeys :
            lease[k] # NoLease /\ lease'[k] # NoLease /\ lease'[k].holder # lease[k].holder
              => Expired(lease[k].stamp)]_vars
  BY <1>1
<1>. QED
  BY <1>2, InductiveInvariant, PTL DEF Spec, TakeoverOnlyAfterExpiry

================================================================================
