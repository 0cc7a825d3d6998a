--------------------------- MODULE CatalogProbeLease ---------------------------
(***************************************************************************)
(* CatalogProbeExecutor.ProbeModelIDs: callers of one process that ask for *)
(* the same request key share one flight (singleflight), and the leader of *)
(* a flight takes a Kubernetes Lease for the provider before it probes the *)
(* network and deletes it afterwards.  The holder of a lease is a process  *)
(* (hostname and pid, which a restarted container gets again), the lease   *)
(* is stamped once and never renewed while the probe runs.                 *)
(***************************************************************************)
EXTENDS Integers, FiniteSets

CONSTANTS
  Workers,    \* goroutines that call ProbeModelIDs
  Processes,  \* holder identities
  ProcessOf,  \* the process a worker runs in
  LeaseKeys,  \* providers: the concurrency key of a request
  FlightKeys, \* protocol, base URL, surface and operation of a request
  NoLease, NoWorker,
  Duration,   \* lease duration, in ticks
  MaxTime,    \* bound: the clock stops here
  MaxTries    \* attempts of RetryOnConflict

ASSUME ProcessesAssumption == ProcessOf \in [Workers -> Processes]
ASSUME BoundsAssumption ==
  Duration \in Nat /\ MaxTime \in Nat /\ MaxTries \in Nat \ {0}
ASSUME NullsAssumption ==
  NoWorker \notin Workers /\ NoLease \notin [holder : Processes, stamp : Nat]
ASSUME KeysAssumption == LeaseKeys # {} /\ FlightKeys # {}

VARIABLES
  now,      \* the wall clock
  lease,    \* per provider: the Lease object, or NoLease
  call,     \* per worker: the call it executes
  leader,   \* per process and request key: the worker leading the flight
  overran,  \* history: providers a probe or its release outlived the lease of
  shared    \* history: providers one process held two flights' leases of

vars == <<now, lease, call, leader, overran, shared>>

\* fresh says that the Lease object is the version the worker last read, which
\* is what the API server's resourceVersion check compares.
Calls ==
  [pc : {"idle", "create", "get", "update", "probe", "releaseGet",
         "releaseDelete", "wait"},
   key : LeaseKeys, flight : FlightKeys, stamp : 0 .. MaxTime,
   fresh : BOOLEAN, tries : 0 .. MaxTries, waitsFor : Workers \cup {NoWorker}]

Leases == [holder : Processes, stamp : 0 .. MaxTime]

TypeOK ==
  /\ now \in 0 .. MaxTime
  /\ lease \in [LeaseKeys -> Leases \cup {NoLease}]
  /\ call \in [Workers -> Calls]
  /\ leader \in [Processes -> [FlightKeys -> Workers \cup {NoWorker}]]
  /\ overran \subseteq LeaseKeys
  /\ shared \subseteq LeaseKeys

IdleCall ==
  [pc |-> "idle", key |-> CHOOSE k \in LeaseKeys : TRUE,
   flight |-> CHOOSE f \in FlightKeys : TRUE, stamp |-> 0,
   fresh |-> FALSE, tries |-> 0, waitsFor |-> NoWorker]

Init ==
  /\ now = 0
  /\ lease = [k \in LeaseKeys |-> NoLease]
  /\ call = [w \in Workers |-> IdleCall]
  /\ leader = [p \in Processes |-> [f \in FlightKeys |-> NoWorker]]
  /\ overran = {}
  /\ shared = {}

Key(w) == call[w].key
Goto(w, pc) == call' = [call EXCEPT ![w] = [@ EXCEPT !.pc = pc]]

\* Between acquiring the lease and the end of its release.
Holds(w) == call[w].pc \in {"probe", "releaseGet", "releaseDelete"}

Expired(stamp) == stamp + Duration < now

\* Fault: the comparison with the renew time the wrong way round.
HeldByOtherInverted(w) ==
  /\ lease[Key(w)].holder # ProcessOf[w]
  /\ Expired(lease[Key(w)].stamp)

\* catalogProbeLeaseHeldByOther
HeldByOther(w) ==
  /\ lease[Key(w)].holder # ProcessOf[w]
  /\ ~Expired(lease[Key(w)].stamp)

\* Fault: a takeover that leaves the renew time of the former holder.
StampHolderOnly(w, pc) ==
  /\ lease' = [lease EXCEPT ![Key(w)] =
                 [holder |-> ProcessOf[w],
                  stamp |-> IF lease[Key(w)] = NoLease THEN call[w].stamp
                            ELSE lease[Key(w)].stamp]]
  /\ call' = [v \in Workers |->
                IF v = w THEN [call[v] EXCEPT !.pc = pc, !.fresh = FALSE, !.tries = 0]
                ELSE IF Key(v) = Key(w) THEN [call[v] EXCEPT !.fresh = FALSE]
                ELSE call[v]]

\* w moves to pc having stamped the lease of its provider; every version of it
\* that another worker has read is out of date.
Stamp(w, pc) ==
  /\ lease' = [lease EXCEPT ![Key(w)] = [holder |-> ProcessOf[w],
                                         stamp |-> call[w].stamp]]
  /\ call' = [v \in Workers |->
                IF v = w THEN [call[v] EXCEPT !.pc = pc, !.fresh = FALSE, !.tries = 0]
                ELSE IF Key(v) = Key(w) THEN [call[v] EXCEPT !.fresh = FALSE]
                ELSE call[v]]

\* The flight of w ends: singleflight hands its result to all who joined it.
FinishedCalls(w, calls) ==
  [v \in Workers |->
     IF v = w \/ calls[v].waitsFor = w THEN IdleCall ELSE calls[v]]

Finish(w) ==
  /\ call' = FinishedCalls(w, call)
  /\ leader' = [leader EXCEPT ![ProcessOf[w]] = [@ EXCEPT ![call[w].flight] = NoWorker]]
  /\ UNCHANGED lease

-------------------------------------------------------------------------------
(* ProbeModelIDs: group.Do.                                                  *)

Do(w) ==
  /\ call[w].pc = "idle"
  /\ \E k \in LeaseKeys, f \in FlightKeys :
       LET first == leader[ProcessOf[w]][f] IN
       \/ /\ first = NoWorker
          /\ leader' = [leader EXCEPT ![ProcessOf[w]] = [@ EXCEPT ![f] = w]]
          /\ call' = [call EXCEPT ![w] = [IdleCall EXCEPT !.pc = "create", !.key = k,
                                                          !.flight = f, !.stamp = now]]
       \/ /\ first # NoWorker
          /\ call' = [call EXCEPT ![w] = [IdleCall EXCEPT !.pc = "wait", !.key = k,
                                                          !.flight = f, !.waitsFor = first]]
          /\ UNCHANGED leader
  /\ UNCHANGED lease

-------------------------------------------------------------------------------
(* acquireCatalogProbeLease                                                  *)

Create(w) ==
  /\ call[w].pc = "create"
  /\ \/ /\ lease[Key(w)] = NoLease
        /\ Stamp(w, "probe")
     \/ /\ lease[Key(w)] # NoLease
        /\ Goto(w, "get")
        /\ UNCHANGED lease
  /\ UNCHANGED leader

\* The lease is gone since Create found it, or another process holds it and
\* the call fails; otherwise its version is what Update will be based on.
Get(w) ==
  /\ call[w].pc = "get"
  /\ \/ /\ lease[Key(w)] = NoLease
        /\ Finish(w)
     \/ /\ lease[Key(w)] # NoLease
        /\ HeldByOther(w)
        /\ Finish(w)
     \/ /\ lease[Key(w)] # NoLease
        /\ ~HeldByOther(w)
        /\ call' = [call EXCEPT ![w] = [@ EXCEPT !.pc = "update", !.fresh = TRUE,
                                                 !.stamp = now, !.tries = call[w].tries + 1]]
        /\ UNCHANGED <<lease, leader>>

\* Fault: an update that carries no resourceVersion.
UpdateBlindly(w) ==
  /\ call[w].pc = "update"
  /\ \/ /\ lease[Key(w)] # NoLease
        /\ Stamp(w, "probe")
        /\ UNCHANGED leader
     \/ /\ lease[Key(w)] = NoLease
        /\ Finish(w)

\* Fault: retrying conflicts without end.
UpdateForever(w) ==
  /\ call[w].pc = "update"
  /\ \/ /\ call[w].fresh
        /\ Stamp(w, "probe")
        /\ UNCHANGED leader
     \/ /\ ~call[w].fresh /\ lease[Key(w)] # NoLease
        /\ call' = [call EXCEPT ![w] = [@ EXCEPT !.pc = "get", !.tries = 0]]
        /\ UNCHANGED <<lease, leader>>
     \/ /\ ~call[w].fresh /\ lease[Key(w)] = NoLease
        /\ Finish(w)

\* The update succeeds on the version read, conflicts on another (and is tried
\* again from Get), and fails on a lease that is gone.
Update(w) ==
  /\ call[w].pc = "update"
  /\ \/ /\ call[w].fresh
        /\ Stamp(w, "probe")
        /\ UNCHANGED leader
     \/ /\ ~call[w].fresh /\ lease[Key(w)] # NoLease
        /\ call[w].tries < MaxTries
        /\ Goto(w, "get")
        /\ UNCHANGED <<lease, leader>>
     \/ /\ ~call[w].fresh /\ (lease[Key(w)] = NoLease \/ call[w].tries = MaxTries)
        /\ Finish(w)

\* A request to the API server fails, for one when the context of the caller
\* that leads the flight is cancelled.
Fail(w) ==
  /\ call[w].pc \in {"create", "get", "update"}
  /\ Finish(w)

-------------------------------------------------------------------------------
(* The probe, whatever its result, and the deferred release.                 *)

Probe(w) ==
  /\ call[w].pc = "probe"
  /\ Goto(w, "releaseGet")
  /\ UNCHANGED <<lease, leader>>

ReleaseGet(w) ==
  LET mine == lease[Key(w)] # NoLease /\ lease[Key(w)].holder = ProcessOf[w] IN
  /\ call[w].pc = "releaseGet"
  /\ \/ /\ mine
        /\ Goto(w, "releaseDelete")
        /\ UNCHANGED <<lease, leader>>
     \/ /\ ~mine
        /\ Finish(w)

\* Delete carries no precondition: it removes whatever lease is there by now.
ReleaseDelete(w) ==
  /\ call[w].pc = "releaseDelete"
  /\ lease' = [lease EXCEPT ![Key(w)] = NoLease]
  /\ call' = FinishedCalls(w, [v \in Workers |->
                IF Key(v) = Key(w) THEN [call[v] EXCEPT !.fresh = FALSE] ELSE call[v]])
  /\ leader' = [leader EXCEPT ![ProcessOf[w]] = [@ EXCEPT ![call[w].flight] = NoWorker]]

\* The release gets five seconds and its errors are dropped.
ReleaseFails(w) ==
  /\ call[w].pc \in {"releaseGet", "releaseDelete"}
  /\ Finish(w)

\* The process dies with its calls; its leases stay.  The container that
\* replaces it may have the same holder identity.
Crash(p) ==
  /\ \E w \in Workers : ProcessOf[w] = p /\ call[w].pc # "idle"
  /\ call' = [w \in Workers |-> IF ProcessOf[w] = p THEN IdleCall ELSE call[w]]
  /\ leader' = [leader EXCEPT ![p] = [f \in FlightKeys |-> NoWorker]]
  /\ UNCHANGED lease

Step(w) ==
  \/ Create(w) \/ Get(w) \/ Update(w) \/ Fail(w)
  \/ Probe(w) \/ ReleaseGet(w) \/ ReleaseDelete(w) \/ ReleaseFails(w)

Tick ==
  /\ now < MaxTime
  /\ now' = now + 1
  /\ UNCHANGED <<lease, call, leader>>

\* The history of what went against the lease's assumptions.
Record ==
  /\ overran' = overran \cup {Key(w)' : w \in {v \in Workers :
                                 Holds(v)' /\ Expired(call[v].stamp)'}}
  /\ shared' = shared \cup {Key(w)' : w \in {v \in Workers :
                                 /\ Holds(v)'
                                 /\ \E u \in Workers \ {v} :
                                      /\ ProcessOf[u] = ProcessOf[v]
                                      /\ Holds(u)' /\ Key(u)' = Key(v)'}}

Next ==
  /\ \/ Tick
     \/ /\ \/ \E w \in Workers : Do(w) \/ Step(w)
           \/ \E p \in Processes : Crash(p)
        /\ UNCHANGED now
  /\ Record

\* A call that has been started is carried on: API requests and probes have
\* deadlines, after which they return.  Nothing obliges anyone to start one.
Fairness == \A w \in Workers : WF_vars(Step(w) /\ UNCHANGED now /\ Record)

Spec == Init /\ [][Next]_vars
FairSpec == Spec /\ Fairness

-------------------------------------------------------------------------------
(* Properties.                                                               *)

\* Two processes probe the same provider at once only if some probe of it and
\* its release outlived the lease, or one process ran two flights for it (it
\* re-enters its own lease, and the first of them to end releases it for both).
ExclusiveUnlessOverrun ==
  \A v, w \in Workers :
    /\ Holds(v) /\ Holds(w)
    /\ Key(v) = Key(w)
    /\ ProcessOf[v] # ProcessOf[w]
    => Key(v) \in overran \cup shared

\* The lease of a probe that is within its time, undisturbed, is in place, with
\* the holder and the stamp of the probe.
LeaseBacksProbe ==
  TypeOK /\ \A w \in Workers :
    Holds(w) /\ Key(w) \notin overran \cup shared =>
      lease[Key(w)] = [holder |-> ProcessOf[w], stamp |-> call[w].stamp]

\* A process never takes a lease another process holds before it has expired,
\* however its Get and Update interleave with the holder's own.
TakeoverOnlyAfterExpiry ==
  [][\A k \in LeaseKeys :
       lease[k] # NoLease /\ lease'[k] # NoLease /\ lease'[k].holder # lease[k].holder
         => Expired(lease[k].stamp)]_vars

\* Whoever joins a flight asks for the same provider as the worker that leads
\* it.  The key of a flight has neither the provider nor its credential, so a
\* provider is given the models another one's credential was shown.
FlightsAreRequestSpecific ==
  \A w \in Workers : call[w].pc = "wait" => Key(call[w].waitsFor) = Key(w)

\* Every call returns: neither a conflict on the lease nor a flight led by
\* another caller keeps it for ever.
EveryCallReturns == \A w \in Workers : call[w].pc # "idle" ~> call[w].pc = "idle"
===============================================================================
