---------------------------- MODULE ProviderStore ----------------------------
(***************************************************************************)
(* The provider aggregate store and the service operations over it:        *)
(* providerstate.ProviderRepository on one Postgres table, providers.      *)
(* Service on top, and the catalog MaterializationSyncer, which probes the *)
(* network between the read and the write of one repository Update.  Both  *)
(* the provider service and the orchestration service run these handlers   *)
(* against the same table, so callers interleave at every database call.   *)
(* A row carries a generation, which every write increments and no write   *)
(* checks.                                                                 *)
(***************************************************************************)
EXTENDS Integers

CONSTANTS Providers, Values, Unset, Absent,
          Callers,     \* request goroutines of either service
          MaxRequests  \* bound: how many requests are ever started

VARIABLES
  table,       \* payload of each row, or Absent
  generation,  \* generation column of each row, 0 without one
  births,      \* history: how many times the id's row was inserted
  req,         \* what each caller is executing
  started      \* bound counter: requests started so far

vars == <<table, generation, births, req, started>>

Registry ==
  INSTANCE ProviderRegistry
  WITH Providers <- Providers, Values <- Values, Unset <- Unset, Absent <- Absent,
       table <- table

Fields == Registry!Fields
Settable == Registry!Settable
Payloads == Registry!Payloads
NewPayloads == Registry!NewPayloads

ASSUME UnsetIsNoValue == Unset \notin Values
ASSUME AbsentIsNoPayload == Absent \notin Payloads
ASSUME MaxRequestsIsNat == MaxRequests \in Nat

-------------------------------------------------------------------------------
(* Requests.  pc names the database call (or the probe) the handler makes    *)
(* next; held is the provider it has in memory, sawBirth and sawGeneration   *)
(* the version of the row it was read from.                                  *)

Ops == {"none", "create", "set", "sync", "delete"}
PCs == {"idle", "put", "project", "read", "probe", "write", "view", "check", "erase"}

Requests ==
  [pc : PCs, op : Ops, id : Providers \cup {Absent}, field : Settable,
   value : Values \cup {Unset}, held : Payloads \cup {Absent},
   sawBirth : Nat, sawGeneration : Nat, todo : SUBSET Providers]

Idle ==
  [pc |-> "idle", op |-> "none", id |-> Absent, field |-> "name",
   value |-> Unset, held |-> Absent,
   sawBirth |-> 0, sawGeneration |-> 0, todo |-> {}]

TypeOK ==
  /\ table \in [Providers -> Payloads \cup {Absent}]
  /\ generation \in [Providers -> Nat]
  /\ births \in [Providers -> Nat]
  /\ req \in [Callers -> Requests]
  /\ started \in Nat

Init ==
  /\ table = [p \in Providers |-> Absent]
  /\ generation = [p \in Providers |-> 0]
  /\ births = [p \in Providers |-> 0]
  /\ req = [c \in Callers |-> Idle]
  /\ started = 0

Exists(p) == table[p] # Absent

Goto(c, pc) == req' = [req EXCEPT ![c] = [@ EXCEPT !.pc = pc]]
Answer(c) == req' = [req EXCEPT ![c] = Idle]

Begin(c, request) ==
  /\ req[c].pc = "idle"
  /\ started < MaxRequests
  /\ started' = started + 1
  /\ req' = [req EXCEPT ![c] = request]
  /\ UNCHANGED <<table, generation, births>>

\* Fault: an upsert that forgets the generation when it updates.
StoreKeepingGeneration(p, v) ==
  /\ table' = [table EXCEPT ![p] = v]
  /\ generation' = IF Exists(p) THEN generation ELSE [generation EXCEPT ![p] = 1]
  /\ births' = IF Exists(p) THEN births ELSE [births EXCEPT ![p] = @ + 1]

\* Fault: an insert that leaves the generation at the column's zero value.
StoreInsertingZero(p, v) ==
  /\ table' = [table EXCEPT ![p] = v]
  /\ generation' = IF Exists(p) THEN [generation EXCEPT ![p] = @ + 1] ELSE generation
  /\ births' = IF Exists(p) THEN births ELSE [births EXCEPT ![p] = @ + 1]

\* One SQL statement that stores payload v in row p.
Store(p, v) ==
  /\ table' = [table EXCEPT ![p] = v]
  /\ generation' = [generation EXCEPT ![p] = @ + 1]
  /\ births' = IF Exists(p) THEN births ELSE [births EXCEPT ![p] = @ + 1]

Rows == <<table, generation, births>>

-------------------------------------------------------------------------------
(* Service.CreateProvider: Upsert (insert, on conflict update), then Get.    *)

StartCreate(c) ==
  \E p \in Providers, v \in NewPayloads :
    Begin(c, [Idle EXCEPT !.pc = "put", !.op = "create", !.id = p, !.held = v])

Put(c) ==
  /\ req[c].pc = "put"
  /\ Store(req[c].id, req[c].held)
  /\ Goto(c, "view")
  /\ UNCHANGED started

-------------------------------------------------------------------------------
(* Service.Update (rename), ApplyModelCatalog and ApplyProbeStatus differ in *)
(* the field their mutator assigns.                                          *)

StartSet(c) ==
  \E p \in Providers, f \in Settable, v \in Values :
    Begin(c, [Idle EXCEPT !.pc = "project", !.op = "set", !.id = p,
                          !.field = f, !.value = v])

StartDelete(c) ==
  \E p \in Providers :
    Begin(c, [Idle EXCEPT !.pc = "project", !.op = "delete", !.id = p])

\* getProviderProjection, then the validation of the command, which may
\* reject it (a blank name, invalid models, an unspecified probe kind).
Project(c) ==
  /\ req[c].pc = "project"
  /\ \/ Exists(req[c].id) /\ Goto(c, IF req[c].op = "delete" THEN "check" ELSE "read")
     \/ Answer(c)
  /\ UNCHANGED <<Rows, started>>

\* The Get inside ProviderRepository.Update.
Read(c) ==
  LET p == req[c].id IN
  /\ req[c].pc = "read"
  /\ \/ /\ Exists(p)
        /\ req' = [req EXCEPT ![c] =
                     [@ EXCEPT !.pc = IF req[c].op = "sync" THEN "probe" ELSE "write",
                               !.held = table[p],
                               !.sawBirth = births[p],
                               !.sawGeneration = generation[p]]]
     \/ ~Exists(p) /\ Answer(c)
  /\ UNCHANGED <<Rows, started>>

\* Fault: ApplyProbeStatus replacing the whole probe status message.
MutatedWholeStatus(c) ==
  IF req[c].op = "set"
  THEN IF req[c].field \in {"catalog", "quota"}
       THEN [req[c].held EXCEPT !["catalog"] = Unset, !["quota"] = Unset,
                                ![req[c].field] = req[c].value]
       ELSE [req[c].held EXCEPT ![req[c].field] = req[c].value]
  ELSE req[c].held

\* The provider a mutator leaves for the UPDATE: the row as it was read with
\* the field of the request assigned (the syncer's mutator ran at "probe").
Mutated(c) ==
  IF req[c].op = "set"
  THEN [req[c].held EXCEPT ![req[c].field] = req[c].value]
  ELSE req[c].held

\* Fault: the syncer's loop carrying the materialized provider to its next id.
NextIdReusing(c) ==
  IF req[c].todo = {}
  THEN Answer(c)
  ELSE \E p \in req[c].todo :
         req' = [req EXCEPT ![c] = [@ EXCEPT !.pc = "write", !.id = p,
                                             !.todo = req[c].todo \ {p}]]

\* MaterializationSyncer goes on to its next id, or is done.
NextId(c) ==
  IF req[c].todo = {}
  THEN Answer(c)
  ELSE \E p \in req[c].todo :
         req' = [req EXCEPT ![c] = [Idle EXCEPT !.pc = "read", !.op = "sync",
                                                !.id = p, !.todo = req[c].todo \ {p}]]

\* Fault: the repository's Update saving with the upsert statement.
WriteUpserting(c) ==
  /\ req[c].pc = "write"
  /\ Store(req[c].id, Mutated(c))
  /\ IF req[c].op = "sync" THEN NextId(c) ELSE Goto(c, "view")
  /\ UNCHANGED started

\* The UPDATE ... WHERE id, of the whole payload and whatever the generation.
Write(c) ==
  LET p == req[c].id IN
  /\ req[c].pc = "write"
  /\ \/ /\ Exists(p)
        /\ Store(p, Mutated(c))
        /\ IF req[c].op = "sync" THEN NextId(c) ELSE Goto(c, "view")
     \/ /\ ~Exists(p)
        /\ Answer(c)
        /\ UNCHANGED Rows
  /\ UNCHANGED started

\* The Get that builds the answer of a create or a set.
View(c) ==
  /\ req[c].pc = "view"
  /\ Answer(c)
  /\ UNCHANGED <<Rows, started>>

-------------------------------------------------------------------------------
(* MaterializationSyncer.Sync over the ids given, or over all that List      *)
(* returns when none is given.                                               *)

StartSync(c) ==
  \E ids \in (SUBSET Providers \ {{}}) \cup {{q \in Providers : Exists(q)}} :
    \E p \in ids :
      Begin(c, [Idle EXCEPT !.pc = "read", !.op = "sync",
                            !.id = p, !.todo = ids \ {p}])

\* MaterializeProvider inside the mutator: the network probe answers with a
\* model list, the surface has no probe or the list is current (the provider
\* is kept), or it fails and Sync stops.
Probe(c) ==
  /\ req[c].pc = "probe"
  /\ \/ \E v \in Values :
          req' = [req EXCEPT ![c] = [@ EXCEPT !.pc = "write",
                                              !.held = [req[c].held EXCEPT !["models"] = v]]]
     \/ Goto(c, "write")
     \/ Answer(c)
  /\ UNCHANGED <<Rows, started>>

-------------------------------------------------------------------------------
(* ProviderRepository.Delete: Get, then DELETE.                              *)

Check(c) ==
  /\ req[c].pc = "check"
  /\ \/ Exists(req[c].id) /\ Goto(c, "erase")
     \/ ~Exists(req[c].id) /\ Answer(c)
  /\ UNCHANGED <<Rows, started>>

\* Fault: a soft delete that counts the generation down.
EraseCountingDown(c) ==
  LET p == req[c].id IN
  /\ req[c].pc = "erase"
  /\ table' = [table EXCEPT ![p] = Absent]
  /\ generation' = [generation EXCEPT ![p] = IF Exists(p) THEN 0 ELSE 0 - 1]
  /\ Answer(c)
  /\ UNCHANGED <<births, started>>

Erase(c) ==
  LET p == req[c].id IN
  /\ req[c].pc = "erase"
  /\ table' = [table EXCEPT ![p] = Absent]
  /\ generation' = [generation EXCEPT ![p] = 0]
  /\ Answer(c)
  /\ UNCHANGED <<births, started>>

\* A database error, a cancelled context or the end of the process, before or
\* after the pending call took effect.
Abandon(c) ==
  /\ req[c].pc # "idle"
  /\ Answer(c)
  /\ UNCHANGED <<Rows, started>>

Step(c) ==
  \/ StartCreate(c) \/ StartSet(c) \/ StartSync(c) \/ StartDelete(c)
  \/ Put(c) \/ Project(c) \/ Read(c) \/ Probe(c) \/ Write(c) \/ View(c)
  \/ Check(c) \/ Erase(c) \/ Abandon(c)

Next == \E c \in Callers : Step(c)

Spec == Init /\ [][Next]_vars

-------------------------------------------------------------------------------
(* Properties.                                                               *)

Holding(c) == req[c].pc \in {"probe", "write"}

\* The row c is about to overwrite is not the one it read.
Stale(c) ==
  \/ req[c].sawBirth # births[req[c].id]
  \/ req[c].sawGeneration # generation[req[c].id]

\* A row has a generation exactly while it exists.
GenerationMarksRow == \A p \in Providers : Exists(p) <=> generation[p] > 0

\* The generation column tells versions of one row apart: a provider held in
\* memory whose version still is the row's has the row's fields, but for the
\* model list a finished catalog probe has put into it.  This is what an
\* optimistic check in JSONRepository.Update could rely on; births is needed
\* with it because a row inserted again after a delete starts at 1 again.
VersionIdentifiesRow ==
  \A c \in Callers :
    Holding(c) /\ Exists(req[c].id) /\ ~Stale(c) =>
      \A f \in Fields :
        \/ req[c].held[f] = table[req[c].id][f]
        \/ /\ f = "models" /\ req[c].op = "sync" /\ req[c].pc = "write"
           /\ req[c].held[f] \in Values

\* Every step is one atomic step of the registry, or none, unless it is an
\* UPDATE of a row that was written since its payload was read: only an
\* overlap of two writers can make a rename, a model list, a probe status or
\* a new credential disappear from a provider.
AtomicUnlessStale ==
  [][(\E c \in Callers : Write(c) /\ Stale(c)) \/ [Registry!Next]_table]_vars

\* A deleted provider comes back only by CreateProvider: the slow writers that
\* were reading it when it was deleted never insert it.
OnlyCreateInserts ==
  [][\A p \in Providers :
       ~Exists(p) /\ Exists(p)' =>
         \E c \in Callers : req[c].op = "create" /\ req[c].id = p]_vars

\* With the table to itself a caller sees every operation take effect in one
\* step, whichever of its database calls fails.
ImplementsRegistry == Registry!Spec
===============================================================================
