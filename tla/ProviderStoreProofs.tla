-------------------------- MODULE ProviderStoreProofs --------------------------
(***************************************************************************)
(* Proofs about ProviderStore for any providers, values and callers.       *)
(***************************************************************************)
EXTENDS ProviderStore, TLAPS

-------------------------------------------------------------------------------
(* Typing.                                                                   *)

\* An idle caller is a request.
LEMMA IdleTyped == Idle \in Requests
  BY DEF Idle, Requests, PCs, Ops, Settable, Registry!Settable

\* What a connect path registers is a payload.
LEMMA NewPayloadsArePayloads == NewPayloads \subseteq Payloads
  BY DEF NewPayloads, Payloads, Registry!NewPayloads

\* Assigning one field of a payload gives a payload.
LEMMA AssignTyped ==
  ASSUME NEW h \in Payloads, NEW f \in Fields, NEW v \in Values \cup {Unset}
  PROVE  [h EXCEPT ![f] = v] \in Payloads
  BY DEF Payloads, Registry!Payloads, Fields

\* A statement that stores a payload keeps the types of the rows.
LEMMA StoreTyped ==
  ASSUME TypeOK, NEW p \in Providers, NEW v \in Payloads, Store(p, v)
  PROVE  /\ table' \in [Providers -> Payloads \cup {Absent}]
         /\ generation' \in [Providers -> Nat]
         /\ births' \in [Providers -> Nat]
  BY DEF Store, TypeOK


\* What a request has in hand at each point of its handler.
Working ==
  \A c \in Callers :
    /\ req[c].pc # "idle" => req[c].id \in Providers
    /\ req[c].pc \in {"put", "probe", "write"} => req[c].held \in Payloads
    /\ req[c].pc = "put" => req[c].op = "create" /\ req[c].held \in NewPayloads
    /\ req[c].pc \in {"read", "write"} => req[c].op \in {"set", "sync"}
    /\ req[c].pc \in {"probe"} => req[c].op = "sync"
    /\ req[c].pc = "project" => req[c].op \in {"set", "delete"}
    /\ req[c].op = "set" => req[c].value \in Values

\* What a mutator leaves for the UPDATE is a payload.
LEMMA MutatedTyped ==
  ASSUME TypeOK, Working, NEW c \in Callers, req[c].pc = "write"
  PROVE  Mutated(c) \in Payloads
<1>1. req[c] \in Requests
  BY DEF TypeOK
<1>2. req[c].held \in Payloads /\ req[c].field \in Fields
  BY <1>1 DEF Working, Requests, Fields, Settable, Registry!Fields
<1>3. req[c].value \in Values \cup {Unset}
  BY <1>1 DEF Requests
<1>. QED
  BY <1>2, <1>3, AssignTyped DEF Mutated

\* What every step needs about requests: a caller's request becomes a request
\* that still has in hand what its handler needs, and no other changes.
OneRequestChanges(c, r) ==
  /\ r \in Requests
  /\ req' = [req EXCEPT ![c] = r]
  /\ r.pc # "idle" => r.id \in Providers
  /\ r.pc \in {"put", "probe", "write"} => r.held \in Payloads
  /\ r.pc = "put" => r.op = "create" /\ r.held \in NewPayloads
  /\ r.pc \in {"read", "write"} => r.op \in {"set", "sync"}
  /\ r.pc = "probe" => r.op = "sync"
  /\ r.pc = "project" => r.op \in {"set", "delete"}
  /\ r.op = "set" => r.value \in Values

\* A step of a caller changes its own request only, into another request.
LEMMA StepChangesOneRequest ==
  ASSUME TypeOK, Working, NEW c \in Callers, Step(c)
  PROVE  \E r : OneRequestChanges(c, r)
<1>. USE DEF OneRequestChanges
<1>0. req[c] \in Requests
  BY DEF TypeOK
<1>1. ASSUME Answer(c) PROVE \E r : OneRequestChanges(c, r)
  <2>1. OneRequestChanges(c, Idle)
    BY <1>1, IdleTyped DEF Answer, Idle
  <2>. QED BY <2>1
<1>2. CASE StartCreate(c)
  <2>1. PICK p \in Providers, v \in NewPayloads :
          Begin(c, [Idle EXCEPT !.pc = "put", !.op = "create", !.id = p, !.held = v])
    BY <1>2 DEF StartCreate
  <2>. DEFINE r == [Idle EXCEPT !.pc = "put", !.op = "create", !.id = p, !.held = v]
  <2>2. OneRequestChanges(c, r)
    BY <2>1, IdleTyped, NewPayloadsArePayloads DEF Begin, Idle, Requests, PCs, Ops
  <2>. QED BY <2>2
<1>3. CASE StartSet(c)
  <2>1. PICK p \in Providers, f \in Settable, v \in Values :
          Begin(c, [Idle EXCEPT !.pc = "project", !.op = "set", !.id = p,
                                !.field = f, !.value = v])
    BY <1>3 DEF StartSet
  <2>. DEFINE r == [Idle EXCEPT !.pc = "project", !.op = "set", !.id = p,
                                !.field = f, !.value = v]
  <2>2. OneRequestChanges(c, r)
    BY <2>1, IdleTyped DEF Begin, Idle, Requests, PCs, Ops
  <2>. QED BY <2>2
<1>4. CASE StartSync(c)
  <2>1. PICK ids \in SUBSET Providers : \E p \in ids :
          Begin(c, [Idle EXCEPT !.pc = "read", !.op = "sync",
                                !.id = p, !.todo = ids \ {p}])
    BY <1>4 DEF StartSync
  <2>3. PICK p \in ids : Begin(c, [Idle EXCEPT !.pc = "read", !.op = "sync",
                                               !.id = p, !.todo = ids \ {p}])
    BY <2>1
  <2>. DEFINE r == [Idle EXCEPT !.pc = "read", !.op = "sync",
                                !.id = p, !.todo = ids \ {p}]
  <2>2. OneRequestChanges(c, r)
    BY <2>3, IdleTyped DEF Begin, Idle, Requests, PCs, Ops
  <2>. QED BY <2>2
<1>5. CASE StartDelete(c)
  <2>1. PICK p \in Providers :
          Begin(c, [Idle EXCEPT !.pc = "project", !.op = "delete", !.id = p])
    BY <1>5 DEF StartDelete
  <2>. DEFINE r == [Idle EXCEPT !.pc = "project", !.op = "delete", !.id = p]
  <2>2. OneRequestChanges(c, r)
    BY <2>1, IdleTyped DEF Begin, Idle, Requests, PCs, Ops
  <2>. QED BY <2>2
<1>6. ASSUME NEW pc \in {"view", "check", "erase"}, req[c].pc # "idle", Goto(c, pc)
      PROVE  \E r : OneRequestChanges(c, r)
  <2>. DEFINE r == [req[c] EXCEPT !.pc = pc]
  <2>1. OneRequestChanges(c, r)
    BY <1>6, <1>0 DEF Goto, Requests, PCs, Working
  <2>. QED BY <2>1
<1>7. CASE Project(c)
  <2>1. CASE Goto(c, "read") /\ req[c].op # "delete"
    <3>. DEFINE r == [req[c] EXCEPT !.pc = "read"]
    <3>1. OneRequestChanges(c, r)
      BY <1>7, <2>1, <1>0 DEF Project, Goto, Requests, PCs, Working
    <3>. QED BY <3>1
  <2>. QED BY <1>7, <1>6, <1>1, <2>1 DEF Project
<1>8. CASE Read(c)
  <2>1. CASE Exists(req[c].id)
    <3>. DEFINE p == req[c].id
    <3>1. PICK pc \in {"probe", "write"} :
            /\ pc = "probe" => req[c].op = "sync"
            /\ req' = [req EXCEPT ![c] =
                 [@ EXCEPT !.pc = pc, !.held = table[p], !.sawBirth = births[p],
                           !.sawGeneration = generation[p]]]
      BY <1>8, <2>1 DEF Read
    <3>. DEFINE r == [req[c] EXCEPT !.pc = pc, !.held = table[p], !.sawBirth = births[p],
                                    !.sawGeneration = generation[p]]
    <3>2. p \in Providers /\ req[c].op \in {"set", "sync"}
      BY <1>8 DEF Read, Working
    <3>3. table[p] \in Payloads /\ births[p] \in Nat /\ generation[p] \in Nat
      BY <3>2, <2>1 DEF TypeOK, Exists
    <3>4. OneRequestChanges(c, r)
      BY <3>1, <3>2, <3>3, <1>0 DEF Requests, PCs, Working
    <3>. QED BY <3>4
  <2>. QED BY <1>8, <1>1, <2>1 DEF Read
<1>9. ASSUME NextId(c), req[c].op = "sync"
      PROVE  \E r : OneRequestChanges(c, r)
  <2>1. CASE req[c].todo # {}
    <3>1. PICK p \in req[c].todo :
            req' = [req EXCEPT ![c] = [Idle EXCEPT !.pc = "read", !.op = "sync",
                                                   !.id = p, !.todo = req[c].todo \ {p}]]
      BY <1>9, <2>1 DEF NextId
    <3>. DEFINE r == [Idle EXCEPT !.pc = "read", !.op = "sync",
                                  !.id = p, !.todo = req[c].todo \ {p}]
    <3>2. req[c].todo \in SUBSET Providers
      BY <1>0 DEF Requests
    <3>3. OneRequestChanges(c, r)
      BY <3>1, <3>2, IdleTyped DEF Idle, Requests, PCs, Ops
    <3>. QED BY <3>3
  <2>. QED BY <1>9, <1>1, <2>1 DEF NextId
<1>10. CASE Write(c)
  BY <1>10, <1>9, <1>6, <1>1 DEF Write
<1>11. CASE Probe(c)
  <2>1. req[c].held \in Payloads /\ req[c].op = "sync" /\ req[c].id \in Providers
    BY <1>11 DEF Probe, Working
  <2>2. ASSUME NEW v \in Values,
               req' = [req EXCEPT ![c] = [@ EXCEPT !.pc = "write",
                                                   !.held = [req[c].held EXCEPT !["models"] = v]]]
        PROVE  \E r : OneRequestChanges(c, r)
    <3>. DEFINE h == [req[c].held EXCEPT !["models"] = v]
                r == [req[c] EXCEPT !.pc = "write", !.held = h]
    <3>1. h \in Payloads
      BY <2>1, AssignTyped DEF Fields, Registry!Fields, Registry!Settable
    <3>2. OneRequestChanges(c, r)
      BY <2>1, <2>2, <3>1, <1>0 DEF Requests, PCs
    <3>. QED BY <3>2
  <2>3. CASE Goto(c, "write")
    <3>. DEFINE r == [req[c] EXCEPT !.pc = "write"]
    <3>1. OneRequestChanges(c, r)
      BY <2>1, <2>3, <1>0 DEF Goto, Requests, PCs
    <3>. QED BY <3>1
  <2>. QED BY <1>11, <1>1, <2>2, <2>3 DEF Probe
<1>12. CASE Put(c)
  BY <1>12, <1>6 DEF Put
<1>13. CASE Check(c)
  BY <1>13, <1>6, <1>1 DEF Check
<1>14. CASE View(c) \/ Erase(c) \/ Abandon(c)
  BY <1>14, <1>1 DEF View, Erase, Abandon
<1>. QED
  BY <1>2, <1>3, <1>4, <1>5, <1>7, <1>8, <1>10, <1>11, <1>12, <1>13, <1>14 DEF Step

\* A step of a caller keeps the types.
LEMMA StepTyped ==
  ASSUME TypeOK, Working, NEW c \in Callers, Step(c)
  PROVE  TypeOK' /\ Working'
<1>1. PICK r : OneRequestChanges(c, r)
  BY StepChangesOneRequest
<1>2. req' \in [Callers -> Requests] /\ Working'
  BY <1>1 DEF OneRequestChanges, TypeOK, Working
<1>3. started' \in Nat
  <2>1. ASSUME NEW r1, Begin(c, r1) PROVE started' \in Nat
    BY <2>1 DEF Begin, TypeOK
  <2>2. CASE StartCreate(c) \/ StartSet(c) \/ StartSync(c) \/ StartDelete(c)
    BY <2>1, <2>2 DEF StartCreate, StartSet, StartSync, StartDelete
  <2>3. CASE ~(StartCreate(c) \/ StartSet(c) \/ StartSync(c) \/ StartDelete(c))
    BY <2>3 DEF Step, Put, Project, Read, Probe, Write, View, Check, Erase, Abandon, TypeOK
  <2>. QED BY <2>2, <2>3
<1>4. /\ table' \in [Providers -> Payloads \cup {Absent}]
      /\ generation' \in [Providers -> Nat]
      /\ births' \in [Providers -> Nat]
  <2>1. CASE Put(c)
    BY <2>1, StoreTyped DEF Put, Working
  <2>2. CASE Write(c)
    BY <2>2, StoreTyped, MutatedTyped DEF Write, Rows, Working, TypeOK
  <2>3. CASE Erase(c)
    BY <2>3 DEF Erase, TypeOK
  <2>4. CASE StartCreate(c) \/ StartSet(c) \/ StartSync(c) \/ StartDelete(c)
    BY <2>4 DEF StartCreate, StartSet, StartSync, StartDelete, Begin, TypeOK
  <2>5. CASE Project(c) \/ Read(c) \/ Probe(c) \/ View(c) \/ Check(c) \/ Abandon(c)
    BY <2>5 DEF Project, Read, Probe, View, Check, Abandon, Rows, TypeOK
  <2>. QED BY <2>1, <2>2, <2>3, <2>4, <2>5 DEF Step
<1>. QED BY <1>2, <1>3, <1>4 DEF TypeOK

\* The types hold initially.
LEMMA InitTyped == Init => TypeOK /\ Working
<1>1. Init => TypeOK
  BY IdleTyped, MaxRequestsIsNat DEF Init, TypeOK
<1>2. Init => Working
  BY DEF Init, Working, Idle
<1>. QED BY <1>1, <1>2

\* Every step keeps the types.
LEMMA NextTyped == TypeOK /\ Working /\ [Next]_vars => TypeOK' /\ Working'
<1>1. ASSUME TypeOK, Working, Next PROVE TypeOK' /\ Working'
  BY <1>1, StepTyped DEF Next
<1>2. ASSUME TypeOK, Working, UNCHANGED vars PROVE TypeOK' /\ Working'
  BY <1>2 DEF vars, TypeOK, Working
<1>. QED BY <1>1, <1>2

\* The variables of the store keep their types, for any number of requests.
THEOREM StoreTypeOK == Spec => []TypeOK
<1>1. Init => TypeOK /\ Working
  BY InitTyped
<1>2. TypeOK /\ Working /\ [Next]_vars => TypeOK' /\ Working'
  BY NextTyped
<1>. QED BY <1>1, <1>2, PTL DEF Spec

-------------------------------------------------------------------------------
(* Versions.  The version a writer saw never lies ahead of its row: a row of *)
(* the same birth only counts up, and a later birth has a larger number.     *)

SeenVersions ==
  \A c \in Callers :
    Holding(c) =>
      /\ req[c].sawGeneration > 0
      /\ req[c].sawBirth <= births[req[c].id]
      /\ req[c].sawBirth = births[req[c].id] /\ Exists(req[c].id) =>
           req[c].sawGeneration <= generation[req[c].id]

IInv == TypeOK /\ Working /\ GenerationMarksRow /\ SeenVersions /\ VersionIdentifiesRow

\* How a step may change the rows.
LEMMA RowsStep ==
  ASSUME TypeOK, Working, NEW c \in Callers, Step(c)
  PROVE  \/ UNCHANGED Rows
         \/ /\ req[c].id \in Providers
            /\ \E v \in Payloads : Store(req[c].id, v)
         \/ /\ req[c].id \in Providers
            /\ table' = [table EXCEPT ![req[c].id] = Absent]
            /\ generation' = [generation EXCEPT ![req[c].id] = 0]
            /\ UNCHANGED births
<1>1. CASE Put(c)
  BY <1>1 DEF Put, Working
<1>2. CASE Write(c)
  BY <1>2, MutatedTyped DEF Write, Working
<1>3. CASE Erase(c)
  BY <1>3 DEF Erase, Working
<1>4. CASE StartCreate(c) \/ StartSet(c) \/ StartSync(c) \/ StartDelete(c)
  BY <1>4 DEF StartCreate, StartSet, StartSync, StartDelete, Begin, Rows
<1>5. CASE Project(c) \/ Read(c) \/ Probe(c) \/ View(c) \/ Check(c) \/ Abandon(c)
  BY <1>5 DEF Project, Read, Probe, View, Check, Abandon
<1>. QED BY <1>1, <1>2, <1>3, <1>4, <1>5 DEF Step

\* A caller that holds a provider after its own step has just read it, or has
\* just finished its probe of it; either way the rows did not change.
LEMMA HoldingStep ==
  ASSUME TypeOK, Working, NEW c \in Callers, Step(c), Holding(c)'
  PROVE  /\ UNCHANGED Rows
         /\ (Read(c) /\ Exists(req[c].id)) \/ Probe(c)
<1>1. req \in [Callers -> Requests] /\ req[c] \in Requests
  BY DEF TypeOK
<1>2. ~Answer(c)
  BY <1>1 DEF Answer, Holding, Idle
<1>3. ASSUME NEW pc \in {"view", "check", "erase", "read"} PROVE ~Goto(c, pc)
  BY <1>1, <1>3 DEF Goto, Holding, Requests
<1>4. ASSUME NEW r, Begin(c, r) PROVE r.pc \in {"probe", "write"}
  BY <1>1, <1>4 DEF Begin, Holding
<1>5. ~StartCreate(c)
  <2>. SUFFICES ASSUME NEW p \in Providers, NEW v \in NewPayloads,
                       Begin(c, [Idle EXCEPT !.pc = "put", !.op = "create",
                                             !.id = p, !.held = v])
                PROVE  FALSE
    BY DEF StartCreate
  <2>1. [Idle EXCEPT !.pc = "put", !.op = "create", !.id = p, !.held = v].pc = "put"
    BY DEF Idle
  <2>. QED BY <2>1, <1>4
<1>6. ~StartSet(c)
  <2>. SUFFICES ASSUME NEW p \in Providers, NEW f \in Settable, NEW v \in Values,
                       Begin(c, [Idle EXCEPT !.pc = "project", !.op = "set", !.id = p,
                                             !.field = f, !.value = v])
                PROVE  FALSE
    BY DEF StartSet
  <2>1. [Idle EXCEPT !.pc = "project", !.op = "set", !.id = p,
                     !.field = f, !.value = v].pc = "project"
    BY DEF Idle
  <2>. QED BY <2>1, <1>4
<1>7. ~StartSync(c)
  <2>. SUFFICES ASSUME NEW ids, NEW p \in ids,
                       Begin(c, [Idle EXCEPT !.pc = "read", !.op = "sync",
                                             !.id = p, !.todo = ids \ {p}])
                PROVE  FALSE
    BY DEF StartSync
  <2>1. [Idle EXCEPT !.pc = "read", !.op = "sync", !.id = p, !.todo = ids \ {p}].pc = "read"
    BY DEF Idle
  <2>. QED BY <2>1, <1>4
<1>8. ~StartDelete(c)
  <2>. SUFFICES ASSUME NEW p \in Providers,
                       Begin(c, [Idle EXCEPT !.pc = "project", !.op = "delete", !.id = p])
                PROVE  FALSE
    BY DEF StartDelete
  <2>1. [Idle EXCEPT !.pc = "project", !.op = "delete", !.id = p].pc = "project"
    BY DEF Idle
  <2>. QED BY <2>1, <1>4
<1>9. ~NextId(c)
  <2>. SUFFICES ASSUME NEW p,
                       req' = [req EXCEPT ![c] = [Idle EXCEPT !.pc = "read", !.op = "sync",
                                                              !.id = p, !.todo = req[c].todo \ {p}]]
                PROVE  FALSE
    BY <1>2 DEF NextId
  <2>1. [Idle EXCEPT !.pc = "read", !.op = "sync", !.id = p, !.todo = req[c].todo \ {p}].pc = "read"
    BY DEF Idle
  <2>2. req'[c].pc = "read"
    BY <1>1, <2>1
  <2>. QED BY <2>2 DEF Holding
<1>10. ~Write(c)
  BY <1>2, <1>3, <1>9 DEF Write
<1>11. ~Project(c) /\ ~Put(c) /\ ~View(c) /\ ~Check(c) /\ ~Erase(c) /\ ~Abandon(c)
  BY <1>2, <1>3 DEF Project, Put, View, Check, Erase, Abandon
<1>12. Read(c) \/ Probe(c)
  BY <1>5, <1>6, <1>7, <1>8, <1>10, <1>11 DEF Step
<1>. QED BY <1>12, <1>2 DEF Read, Probe

\* What a caller holds once it has read its row, and once its probe is done.
LEMMA ReadHolds ==
  ASSUME TypeOK, Working, NEW c \in Callers, Read(c), Exists(req[c].id)
  PROVE  /\ req'[c].id = req[c].id /\ req[c].id \in Providers
         /\ req'[c].held = table[req[c].id]
         /\ req'[c].sawBirth = births[req[c].id]
         /\ req'[c].sawGeneration = generation[req[c].id]
<1>0. req \in [Callers -> Requests] /\ req[c] \in Requests
  BY DEF TypeOK
<1>1. req[c].id \in Providers
  BY DEF Read, Working
<1>2. PICK pc \in PCs :
        req' = [req EXCEPT ![c] =
                  [@ EXCEPT !.pc = pc, !.held = table[req[c].id],
                            !.sawBirth = births[req[c].id],
                            !.sawGeneration = generation[req[c].id]]]
  BY DEF Read, PCs
<1>. QED BY <1>0, <1>1, <1>2 DEF Requests

\* A catalog probe leaves every field it holds but the model list.
LEMMA ProbeKeeps ==
  ASSUME TypeOK, Working, NEW c \in Callers, Probe(c), Holding(c)'
  PROVE  /\ Holding(c)
         /\ req'[c].id = req[c].id /\ req[c].id \in Providers
         /\ req'[c].op = "sync" /\ req'[c].pc = "write"
         /\ req'[c].sawBirth = req[c].sawBirth
         /\ req'[c].sawGeneration = req[c].sawGeneration
         /\ \/ req'[c].held = req[c].held
            \/ /\ \A f \in Fields \ {"models"} : req'[c].held[f] = req[c].held[f]
               /\ req'[c].held["models"] \in Values
<1>0. req \in [Callers -> Requests] /\ req[c] \in Requests
  BY DEF TypeOK
<1>1. /\ Holding(c) /\ req[c].pc # "write" /\ req[c].op = "sync"
      /\ req[c].id \in Providers /\ req[c].held \in Payloads
  BY DEF Probe, Holding, Working
<1>2. ~Answer(c)
  BY <1>0 DEF Answer, Idle, Holding
<1>3. ASSUME Goto(c, "write")
      PROVE  /\ req'[c].id = req[c].id
             /\ req'[c].op = "sync" /\ req'[c].pc = "write"
             /\ req'[c].sawBirth = req[c].sawBirth
             /\ req'[c].sawGeneration = req[c].sawGeneration
             /\ req'[c].held = req[c].held
  BY <1>0, <1>1, <1>3 DEF Goto, Requests
<1>4. ASSUME NEW v \in Values,
             req' = [req EXCEPT ![c] = [@ EXCEPT !.pc = "write",
                                                 !.held = [req[c].held EXCEPT !["models"] = v]]]
      PROVE  /\ req'[c].id = req[c].id
             /\ req'[c].op = "sync" /\ req'[c].pc = "write"
             /\ req'[c].sawBirth = req[c].sawBirth
             /\ req'[c].sawGeneration = req[c].sawGeneration
             /\ req'[c].held = [req[c].held EXCEPT !["models"] = v]
  BY <1>0, <1>1, <1>4 DEF Requests
<1>5. ASSUME NEW v \in Values
      PROVE  /\ \A f \in Fields \ {"models"} :
                   [req[c].held EXCEPT !["models"] = v][f] = req[c].held[f]
             /\ [req[c].held EXCEPT !["models"] = v]["models"] = v
  BY <1>1 DEF Payloads, Registry!Payloads, Fields, Registry!Fields, Registry!Settable
<1>6. CASE \E v \in Values :
             req' = [req EXCEPT ![c] = [@ EXCEPT !.pc = "write",
                                                 !.held = [req[c].held EXCEPT !["models"] = v]]]
  <2>1. PICK v \in Values :
          req' = [req EXCEPT ![c] = [@ EXCEPT !.pc = "write",
                                              !.held = [req[c].held EXCEPT !["models"] = v]]]
    BY <1>6
  <2>2. /\ req'[c].id = req[c].id
        /\ req'[c].op = "sync" /\ req'[c].pc = "write"
        /\ req'[c].sawBirth = req[c].sawBirth
        /\ req'[c].sawGeneration = req[c].sawGeneration
        /\ req'[c].held = [req[c].held EXCEPT !["models"] = v]
    BY <2>1, <1>4
  <2>3. /\ \A f \in Fields \ {"models"} : req'[c].held[f] = req[c].held[f]
        /\ req'[c].held["models"] = v
    BY <2>2, <1>5
  <2>. QED BY <1>1, <2>2, <2>3
<1>7. CASE Goto(c, "write")
  BY <1>1, <1>3, <1>7
<1>. QED BY <1>2, <1>6, <1>7 DEF Probe

\* A step of a caller preserves the inductive invariant.
LEMMA StepPreservesIInv ==
  ASSUME IInv, NEW c \in Callers, Step(c)
  PROVE  IInv'
<1>. USE DEF IInv
<1>1. TypeOK' /\ Working'
  BY StepTyped
<1>2. PICK r : OneRequestChanges(c, r)
  BY StepChangesOneRequest
<1>3. GenerationMarksRow'
  <2>1. CASE UNCHANGED Rows
    BY <2>1 DEF Rows, GenerationMarksRow, Exists
  <2>2. ASSUME req[c].id \in Providers, NEW v \in Payloads, Store(req[c].id, v)
        PROVE  GenerationMarksRow'
    BY <2>2, AbsentIsNoPayload DEF Store, GenerationMarksRow, Exists, TypeOK
  <2>3. CASE /\ req[c].id \in Providers
             /\ table' = [table EXCEPT ![req[c].id] = Absent]
             /\ generation' = [generation EXCEPT ![req[c].id] = 0]
             /\ UNCHANGED births
    BY <2>3 DEF GenerationMarksRow, Exists, TypeOK
  <2>. QED BY <2>1, <2>2, <2>3, RowsStep
<1>4. ASSUME NEW d \in Callers, Holding(d)', d # c
      PROVE  /\ Holding(d) /\ req'[d] = req[d]
             /\ req[d].id \in Providers /\ req[d].held \in Payloads
             /\ req[d].sawGeneration \in Nat /\ req[d].sawBirth \in Nat
  BY <1>2, <1>4 DEF OneRequestChanges, Holding, TypeOK, Requests, Working
<1>7. ASSUME Holding(c)'
      PROVE  /\ UNCHANGED Rows
             /\ req'[c].sawGeneration > 0
             /\ req'[c].sawBirth <= births[req'[c].id]
             /\ req'[c].sawBirth = births[req'[c].id] /\ Exists(req'[c].id) =>
                  req'[c].sawGeneration <= generation[req'[c].id]
  <2>1. CASE Read(c) /\ Exists(req[c].id)
    BY <2>1, <1>7, ReadHolds, HoldingStep DEF GenerationMarksRow, TypeOK
  <2>2. CASE Probe(c)
    BY <2>2, <1>7, ProbeKeeps, HoldingStep DEF SeenVersions
  <2>. QED BY <1>7, <2>1, <2>2, HoldingStep
<1>8. ASSUME (Holding(c) /\ Exists(req[c].id) /\ ~Stale(c))', NEW f \in Fields
      PROVE  \/ req'[c].held[f] = table'[req'[c].id][f]
             \/ /\ f = "models" /\ req'[c].op = "sync" /\ req'[c].pc = "write"
                /\ req'[c].held[f] \in Values
  <2>0. UNCHANGED Rows
    BY <1>8, HoldingStep
  <2>1. CASE Read(c) /\ Exists(req[c].id)
    BY <2>0, <2>1, ReadHolds DEF Rows
  <2>2. CASE Probe(c)
    <3>1. Holding(c) /\ Exists(req[c].id) /\ ~Stale(c)
      BY <2>0, <2>2, <1>8, ProbeKeeps DEF Rows, Exists, Stale
    <3>2. req[c].held[f] = table[req[c].id][f]
      BY <3>1, <2>2 DEF VersionIdentifiesRow, Probe
    <3>. QED BY <2>0, <2>2, <3>2, <1>8, ProbeKeeps DEF Rows
  <2>. QED BY <1>8, <2>1, <2>2, HoldingStep
<1>5. SeenVersions'
  <2>. SUFFICES ASSUME NEW d \in Callers, Holding(d)'
                PROVE  /\ req'[d].sawGeneration > 0
                       /\ req'[d].sawBirth <= births'[req'[d].id]
                       /\ req'[d].sawBirth = births'[req'[d].id] /\ Exists(req[d].id)' =>
                            req'[d].sawGeneration <= generation'[req'[d].id]
    BY DEF SeenVersions
  <2>1. CASE d # c /\ UNCHANGED Rows
    BY <1>4, <2>1 DEF SeenVersions, Rows, Exists
  <2>2. ASSUME d # c, req[c].id \in Providers, NEW v \in Payloads, Store(req[c].id, v)
        PROVE  /\ req[d].sawGeneration > 0
               /\ req[d].sawBirth <= births'[req[d].id]
               /\ req[d].sawBirth = births'[req[d].id] /\ Exists(req[d].id)' =>
                    req[d].sawGeneration <= generation'[req[d].id]
    BY <1>4, <2>2, AbsentIsNoPayload DEF SeenVersions, Store, Exists, TypeOK
  <2>3. CASE /\ d # c
             /\ req[c].id \in Providers
             /\ table' = [table EXCEPT ![req[c].id] = Absent]
             /\ generation' = [generation EXCEPT ![req[c].id] = 0]
             /\ UNCHANGED births
    BY <1>4, <2>3 DEF SeenVersions, Exists, TypeOK
  <2>4. CASE d = c
    BY <2>4, <1>7 DEF SeenVersions, Rows, Exists
  <2>. QED BY <2>1, <2>2, <2>3, <2>4, <1>4, RowsStep
<1>6. VersionIdentifiesRow'
  <2>. SUFFICES ASSUME NEW d \in Callers, (Holding(d) /\ Exists(req[d].id) /\ ~Stale(d))',
                       NEW f \in Fields
                PROVE  \/ req'[d].held[f] = table'[req'[d].id][f]
                       \/ /\ f = "models" /\ req'[d].op = "sync" /\ req'[d].pc = "write"
                          /\ req'[d].held[f] \in Values
    BY DEF VersionIdentifiesRow
  <2>1. CASE d # c /\ UNCHANGED Rows
    BY <1>4, <2>1 DEF VersionIdentifiesRow, Rows, Exists, Stale
  <2>2. ASSUME d # c, req[c].id \in Providers, NEW v \in Payloads, Store(req[c].id, v)
        PROVE  req[d].id # req[c].id /\ UNCHANGED <<table[req[d].id], births[req[d].id],
                                                    generation[req[d].id]>>
    <3>1. CASE req[d].id = req[c].id
      BY <1>4, <2>2, <3>1 DEF Stale, Store, SeenVersions, Exists, TypeOK, GenerationMarksRow
    <3>. QED BY <3>1, <2>2, <1>4 DEF Store, TypeOK
  <2>3. CASE /\ d # c
             /\ req[c].id \in Providers
             /\ table' = [table EXCEPT ![req[c].id] = Absent]
             /\ generation' = [generation EXCEPT ![req[c].id] = 0]
             /\ UNCHANGED births
    BY <1>4, <2>3 DEF VersionIdentifiesRow, Exists, Stale, TypeOK
  <2>4. CASE d = c
    BY <2>4, <1>8 DEF VersionIdentifiesRow
  <2>5. ASSUME d # c, req[c].id \in Providers, NEW v \in Payloads, Store(req[c].id, v)
        PROVE  \/ req'[d].held[f] = table'[req'[d].id][f]
               \/ /\ f = "models" /\ req'[d].op = "sync" /\ req'[d].pc = "write"
                  /\ req'[d].held[f] \in Values
    BY <1>4, <2>2, <2>5 DEF VersionIdentifiesRow, Exists, Stale
  <2>. QED BY <2>1, <2>3, <2>4, <2>5, RowsStep
<1>. QED BY <1>1, <1>3, <1>5, <1>6

\* The inductive invariant holds initially.
LEMMA InitIInv == Init => IInv
<1>. SUFFICES ASSUME Init PROVE IInv
  OBVIOUS
<1>1. TypeOK /\ Working
  BY InitTyped
<1>2. GenerationMarksRow
  <2>. SUFFICES ASSUME NEW p \in Providers PROVE Exists(p) <=> generation[p] > 0
    BY DEF GenerationMarksRow
  <2>1. table[p] = Absent /\ generation[p] = 0
    BY DEF Init
  <2>. QED BY <2>1 DEF Exists
<1>3. \A c \in Callers : ~Holding(c)
  BY DEF Init, Holding, Idle
<1>. QED BY <1>1, <1>2, <1>3 DEF IInv, SeenVersions, VersionIdentifiesRow

\* Every step preserves the inductive invariant.
LEMMA NextIInv == IInv /\ [Next]_vars => IInv'
<1>1. ASSUME IInv, Next PROVE IInv'
  BY <1>1, StepPreservesIInv DEF Next
<1>2. ASSUME IInv, UNCHANGED vars PROVE IInv'
  BY <1>2, NextTyped DEF IInv, vars, GenerationMarksRow, SeenVersions, VersionIdentifiesRow,
                        Holding, Exists, Stale
<1>. QED BY <1>1, <1>2

\* The inductive invariant holds in every behaviour.
LEMMA InductiveInvariant == Spec => []IInv
<1>. QED BY InitIInv, NextIInv, PTL DEF Spec

\* A row has a positive generation exactly while it exists.
THEOREM StoreGenerations == Spec => []GenerationMarksRow
<1>1. IInv => GenerationMarksRow
  BY DEF IInv
<1>. QED BY <1>1, InductiveInvariant, PTL

\* Birth and generation together identify the contents of a row: a provider
\* held in memory under the row's version agrees with the row.
THEOREM StoreVersions == Spec => []VersionIdentifiesRow
<1>1. IInv => VersionIdentifiesRow
  BY DEF IInv
<1>. QED BY <1>1, InductiveInvariant, PTL

-------------------------------------------------------------------------------
(* Steps as steps of the registry.                                           *)

\* Two payloads with equal fields are equal.
LEMMA PayloadsEqual ==
  ASSUME NEW h \in Payloads, NEW g \in Payloads, \A f \in Fields : h[f] = g[f]
  PROVE  h = g
  BY DEF Payloads, Registry!Payloads, Fields

\* An UPDATE of the row version that was read sets one field of the row.
LEMMA FreshWriteIsRegistryStep ==
  ASSUME IInv, NEW c \in Callers, Write(c), ~Stale(c)
  PROVE  [Registry!Next]_table
<1>. DEFINE p == req[c].id
<1>1. CASE ~Exists(p)
  BY <1>1 DEF Write, Rows
<1>2. CASE Exists(p)
  <2>1. /\ p \in Providers /\ table[p] \in Payloads /\ req[c].held \in Payloads
        /\ req[c].op \in {"set", "sync"} /\ req[c] \in Requests
        /\ req[c].op = "set" => req[c].value \in Values
    BY <1>2 DEF Write, IInv, TypeOK, Working, Exists
  <2>2. table' = [table EXCEPT ![p] = Mutated(c)]
    BY <1>2 DEF Write, Store
  <2>3. \A f \in Fields :
          \/ req[c].held[f] = table[p][f]
          \/ /\ f = "models" /\ req[c].op = "sync"
             /\ req[c].held[f] \in Values
    BY <1>2 DEF IInv, VersionIdentifiesRow, Holding, Write
  <2>4. CASE req[c].op = "set"
    <3>1. req[c].held = table[p]
      BY <2>1, <2>3, <2>4, PayloadsEqual
    <3>2. table' = [table EXCEPT ![p] = [table[p] EXCEPT ![req[c].field] = req[c].value]]
      BY <2>2, <2>4, <3>1 DEF Mutated
    <3>3. req[c].field \in Settable /\ req[c].value \in Values
      BY <2>1, <2>4 DEF Requests
    <3>4. Registry!Set(p, req[c].field)
      BY <1>2, <2>1, <3>2, <3>3 DEF Registry!Set, Exists, TypeOK, IInv
    <3>. QED BY <2>1, <3>3, <3>4 DEF Registry!Next, Settable
  <2>5. CASE req[c].op = "sync"
    <3>1. table' = [table EXCEPT ![p] = req[c].held]
      BY <2>2, <2>5 DEF Mutated
    <3>2. CASE req[c].held["models"] = table[p]["models"]
      <4>1. req[c].held = table[p]
        BY <2>1, <2>3, <3>2, PayloadsEqual
      <4>. QED BY <3>1, <4>1, <2>1 DEF IInv, TypeOK
    <3>3. CASE req[c].held["models"] # table[p]["models"]
      <4>. DEFINE v == req[c].held["models"]
                  h == [table[p] EXCEPT !["models"] = v]
      <4>1. v \in Values
        BY <2>3, <3>3 DEF Fields, Registry!Fields, Registry!Settable
      <4>2. h \in Payloads
        BY <2>1, <4>1, AssignTyped DEF Fields, Registry!Fields, Registry!Settable
      <4>3. \A f \in Fields : req[c].held[f] = h[f]
        BY <2>1, <2>3 DEF Payloads, Registry!Payloads, Fields
      <4>4. req[c].held = h
        BY <2>1, <4>2, <4>3, PayloadsEqual
      <4>5. Registry!Set(p, "models")
        BY <1>2, <2>1, <3>1, <4>1, <4>4 DEF Registry!Set, Exists, TypeOK, IInv
      <4>. QED BY <2>1, <4>5 DEF Registry!Next, Registry!Settable
    <3>. QED BY <3>2, <3>3
  <2>. QED BY <2>1, <2>4, <2>5
<1>. QED BY <1>1, <1>2

\* A step of a caller is one of the registry unless it is a stale UPDATE.
LEMMA StepIsRegistryStep ==
  ASSUME IInv, NEW c \in Callers, Step(c), Write(c) => ~Stale(c)
  PROVE  [Registry!Next]_table
<1>1. CASE Write(c)
  BY <1>1, FreshWriteIsRegistryStep
<1>2. CASE Put(c)
  <2>1. Registry!Register(req[c].id) /\ req[c].id \in Providers
    BY <1>2 DEF Put, Store, Registry!Register, IInv, Working, NewPayloads
  <2>. QED BY <2>1 DEF Registry!Next
<1>3. CASE Erase(c)
  <2>1. Registry!Remove(req[c].id) /\ req[c].id \in Providers
    BY <1>3 DEF Erase, Registry!Remove, IInv, Working
  <2>. QED BY <2>1 DEF Registry!Next
<1>4. CASE StartCreate(c) \/ StartSet(c) \/ StartSync(c) \/ StartDelete(c)
  BY <1>4 DEF StartCreate, StartSet, StartSync, StartDelete, Begin
<1>5. CASE Project(c) \/ Read(c) \/ Probe(c) \/ View(c) \/ Check(c) \/ Abandon(c)
  BY <1>5 DEF Project, Read, Probe, View, Check, Abandon, Rows
<1>. QED BY <1>1, <1>2, <1>3, <1>4, <1>5 DEF Step

\* Every step is an atomic registry step, or none, unless it is an UPDATE over
\* a row that was written after its payload was read.
THEOREM StoreAtomicUnlessStale == Spec => AtomicUnlessStale
<1>1. IInv /\ [Next]_vars =>
        [(\E c \in Callers : Write(c) /\ Stale(c)) \/ [Registry!Next]_table]_vars
  BY StepIsRegistryStep DEF Next
<1>. QED BY <1>1, InductiveInvariant, PTL DEF Spec, AtomicUnlessStale

\* Only a CreateProvider inserts a row: an UPDATE finds the row or fails.
THEOREM StoreOnlyCreateInserts == Spec => OnlyCreateInserts
<1>1. ASSUME IInv, NEW c \in Callers, Step(c), NEW p \in Providers, ~Exists(p), Exists(p)'
      PROVE  req[c].op = "create" /\ req[c].id = p
  <2>1. CASE Put(c)
    BY <1>1, <2>1 DEF Put, Store, Exists, IInv, TypeOK, Working
  <2>2. CASE Write(c)
    BY <1>1, <2>2 DEF Write, Store, Rows, Exists, IInv, TypeOK
  <2>3. CASE Erase(c)
    BY <1>1, <2>3 DEF Erase, Exists, IInv, TypeOK
  <2>4. CASE StartCreate(c) \/ StartSet(c) \/ StartSync(c) \/ StartDelete(c)
    BY <1>1, <2>4 DEF StartCreate, StartSet, StartSync, StartDelete, Begin, Exists
  <2>5. CASE Project(c) \/ Read(c) \/ Probe(c) \/ View(c) \/ Check(c) \/ Abandon(c)
    BY <1>1, <2>5 DEF Project, Read, Probe, View, Check, Abandon, Rows, Exists
  <2>. QED BY <1>1, <2>1, <2>2, <2>3, <2>4, <2>5 DEF Step
<1>2. IInv /\ [Next]_vars =>
        [\A p \in Providers :
           ~Exists(p) /\ Exists(p)' =>
             \E c \in Callers : req[c].op = "create" /\ req[c].id = p]_vars
  BY <1>1 DEF Next
<1>. QED BY <1>2, InductiveInvariant, PTL DEF Spec, OnlyCreateInserts

-------------------------------------------------------------------------------
(* One caller at a time.                                                     *)

NoneStale == \A c \in Callers : Holding(c) => ~Stale(c)

\* A lone caller never holds a stale provider.
LEMMA AloneNoneStale ==
  ASSUME IInv, NoneStale, NEW c \in Callers, Step(c), \A d \in Callers : d = c
  PROVE  NoneStale'
<1>. SUFFICES ASSUME Holding(c)' PROVE ~Stale(c)'
  BY DEF NoneStale
<1>. USE DEF IInv
<1>1. CASE Read(c) /\ Exists(req[c].id)
  BY <1>1, ReadHolds, HoldingStep DEF Stale, Rows
<1>2. CASE Probe(c)
  BY <1>2, ProbeKeeps, HoldingStep DEF Stale, Rows, NoneStale
<1>. QED BY <1>1, <1>2, HoldingStep

\* A lone caller's store implements the registry: each of its operations, cut
\* short or not, takes effect in one step or not at all.
THEOREM StoreImplementsRegistry ==
  ASSUME \A c, d \in Callers : c = d
  PROVE  Spec => ImplementsRegistry
<1>1. Init => NoneStale /\ Registry!Init
  BY DEF Init, NoneStale, Holding, Idle, Registry!Init
<1>2. IInv /\ NoneStale /\ [Next]_vars => NoneStale' /\ [Registry!Next]_table
  <2>1. ASSUME IInv, NoneStale, NEW c \in Callers, Step(c)
        PROVE  NoneStale' /\ [Registry!Next]_table
    <3>1. Write(c) => ~Stale(c)
      BY <2>1 DEF Write, NoneStale, Holding
    <3>. QED BY <2>1, <3>1, AloneNoneStale, StepIsRegistryStep
  <2>2. ASSUME NoneStale, UNCHANGED vars PROVE NoneStale' /\ [Registry!Next]_table
    BY <2>2 DEF vars, NoneStale, Holding, Stale
  <2>. QED BY <2>1, <2>2 DEF Next
<1>. QED
  BY <1>1, <1>2, InductiveInvariant, PTL DEF Spec, ImplementsRegistry, Registry!Spec
===============================================================================
