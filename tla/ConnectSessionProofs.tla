------------------------- MODULE ConnectSessionProofs --------------------------
(* Proofs about ConnectSession for any sessions, callers, providers and names.   *)
EXTENDS ConnectSession, TLAPS

--------------------------------------------------------------------------------
(* The inductive invariant.                                                      *)

\* A target was taken after renames that are over, and after one of its provider's
\* it has the name that rename gave.
Current(t) ==
    /\ t.began <= renames
    /\ /\ provider[t.id] # None
       /\ provider[t.id].renamed > 0 /\ provider[t.id].renamed <= t.began
       => t.name = provider[t.id].name

\* A call has what its place in the code needs, and what it holds of a session is
\* backed by the registrations made and by the user's authorization.
CallInOrder(c) ==
    /\ call[c].pc \in {"start", "create"} => call[c].target \in Targets /\ Current(call[c].target)
    /\ call[c].pc \in OpeningPCs \cup PollPCs =>
           call[c].session \in Sessions /\ oauth[call[c].session] # None
    /\ call[c].pc \in PollPCs =>
           /\ call[c].held \in Records /\ Current(call[c].held.target)
           /\ record[call[c].session] # None
           /\ call[c].seen => call[c].held.connected
           /\ call[c].held.connected => registered[call[c].session] > 0
    /\ call[c].pc \in {"sync", "put"} /\ call[c].held.phase = "succeeded" => call[c].held.connected
    /\ call[c].pc = "finalize" => ~call[c].held.connected /\ oauth[call[c].session] = "succeeded"

RecordInOrder(s) ==
    record[s] # None =>
        /\ oauth[s] # None
        /\ Current(record[s].target)
        /\ record[s].phase = "succeeded" => record[s].connected
        /\ record[s].connected => registered[s] > 0

\* Nothing else is about a session whose record is being created.
CreateAlone(c) ==
    call[c].pc = "create" =>
        /\ record[call[c].session] = None
        /\ \A d \in Callers \ {c} :
               call[d].pc \in OpeningPCs \cup PollPCs => call[d].session # call[c].session

\* The one poll of a session knows whether the session is registered, and its
\* record does when nothing polls it.
RegisteredOnce(s) ==
    /\ \A c, d \in Callers : Polling(c, s) /\ Polling(d, s) => c = d
    /\ registered[s] <= 1
    /\ registered[s] = 1 =>
           \/ record[s] # None /\ record[s].connected
           \/ \E c \in Callers : /\ call[c].pc = "put" /\ call[c].session = s
                                 /\ call[c].held.connected /\ ~call[c].seen
    /\ \A c \in Callers : Polling(c, s) =>
           /\ ~call[c].held.connected => registered[s] = 0
           /\ call[c].seen => record[s].connected

Undisturbed(s) == s \notin overlapped \cup lost => RegisteredOnce(s)

IInv ==
    /\ TypeOK
    /\ \A c \in Callers : CallInOrder(c) /\ CreateAlone(c)
    /\ \A s \in Sessions : RecordInOrder(s) /\ Undisturbed(s)
    /\ RegisteredOnlyAuthorized /\ OpenSessionsAreWatched

--------------------------------------------------------------------------------
(* What each step makes of the call of its caller.                               *)

Becomes(c, n) == n \in Calls /\ call' = [call EXCEPT ![c] = n]

LEMMA IdleTyped == Idle \in Calls /\ Idle.pc = "idle"
  BY DEF Idle, Calls

LEMMA AnswerShape ==
    ASSUME NEW c \in Callers, Answer(c)
    PROVE  Becomes(c, Idle)
  BY IdleTyped DEF Answer, Becomes

LEMMA GotoShape ==
    ASSUME TypeOK, NEW c \in Callers, Goto(c, "cancel")
    PROVE  \E n : Becomes(c, n) /\ n.pc = "cancel" /\ n.session = call[c].session
<1>. DEFINE n == [call[c] EXCEPT !.pc = "cancel"]
<1>1. call[c] \in Calls
  BY DEF TypeOK
<1>2. n \in Calls /\ n.pc = "cancel" /\ n.session = call[c].session
  BY <1>1 DEF Calls, OpeningPCs
<1>3. call' = [call EXCEPT ![c] = n]
  BY DEF Goto
<1>. HIDE DEF n
<1>. QED
  BY <1>2, <1>3 DEF Becomes

\* Begin takes a target as of now.
LEMMA BeginShape ==
    ASSUME TypeOK, NEW c \in Callers, Begin(c)
    PROVE  \E n : /\ Becomes(c, n) /\ n.pc = "start"
                  /\ n.target \in Targets /\ Current(n.target)
<1>1. PICK p \in Providers, name \in Names :
          /\ TargetName(p, name)
          /\ call' = [call EXCEPT ![c] = [Idle EXCEPT !.pc = "start",
                        !.target = [id |-> p, name |-> name, began |-> renames]]]
  BY DEF Begin
<1>. DEFINE t == [id |-> p, name |-> name, began |-> renames]
            n == [Idle EXCEPT !.pc = "start", !.target = t]
<1>2. t \in Targets
  BY DEF TypeOK, Targets
<1>3. Current(t)
  BY <1>1, BoundsAssumption DEF Current, TargetName, TypeOK
<1>4. call' = [call EXCEPT ![c] = n]
  BY <1>1
<1>. HIDE DEF t
<1>5. n \in Calls /\ n.pc = "start" /\ n.target = t
  BY <1>2, IdleTyped DEF Calls
<1>. HIDE DEF n
<1>. QED
  BY <1>2, <1>3, <1>4, <1>5 DEF Becomes

\* StartSession: the call goes on with a new session, or ends.
LEMMA StartShape ==
    ASSUME TypeOK, NEW c \in Callers, StartSession(c)
    PROVE  \/ /\ Becomes(c, Idle)
              /\ \/ UNCHANGED <<oauth, lost>>
                 \/ \E s \in Sessions : /\ oauth[s] = None /\ lost' = lost \cup {s}
                                        /\ oauth' = [oauth EXCEPT ![s] = "open"]
           \/ \E n : /\ Becomes(c, n) /\ n.pc = "create" /\ n.target = call[c].target
                     /\ n.session \in Sessions /\ oauth[n.session] = None
                     /\ oauth' = [oauth EXCEPT ![n.session] = "open"]
                     /\ UNCHANGED lost
<1>1. CASE UNCHANGED <<oauth, lost>> /\ Answer(c)
  BY <1>1, AnswerShape
<1>2. ASSUME NEW s \in Sessions, oauth[s] = None, oauth' = [oauth EXCEPT ![s] = "open"],
             Answer(c), lost' = lost \cup {s}
      PROVE  /\ Becomes(c, Idle)
             /\ \E x \in Sessions : /\ oauth[x] = None /\ lost' = lost \cup {x}
                                    /\ oauth' = [oauth EXCEPT ![x] = "open"]
  BY <1>2, AnswerShape
<1>3. ASSUME NEW s \in Sessions, oauth[s] = None, oauth' = [oauth EXCEPT ![s] = "open"],
             UNCHANGED lost,
             call' = [call EXCEPT ![c] = [@ EXCEPT !.pc = "create", !.session = s]]
      PROVE  \E n : /\ Becomes(c, n) /\ n.pc = "create" /\ n.target = call[c].target
                    /\ n.session \in Sessions /\ oauth[n.session] = None
                    /\ oauth' = [oauth EXCEPT ![n.session] = "open"]
                    /\ UNCHANGED lost
  <2>. DEFINE n == [call[c] EXCEPT !.pc = "create", !.session = s]
  <2>1. call[c] \in Calls /\ call' = [call EXCEPT ![c] = n]
    BY <1>3 DEF TypeOK
  <2>2. n \in Calls /\ n.pc = "create" /\ n.session = s /\ n.target = call[c].target
    BY <2>1 DEF Calls, OpeningPCs
  <2>. HIDE DEF n
  <2>. QED BY <1>3, <2>1, <2>2 DEF Becomes
<1>. QED
  BY <1>1, <1>2, <1>3 DEF StartSession

\* Poll reads the record of its session.
LEMMA PollShape ==
    ASSUME TypeOK, NEW c \in Callers, Poll(c)
    PROVE  \E n : /\ Becomes(c, n) /\ n.pc = "sync" /\ n.session \in Sessions
                  /\ record[n.session] # None /\ n.held = record[n.session]
                  /\ n.seen <=> record[n.session].connected
<1>1. PICK s \in Sessions :
          /\ record[s] # None
          /\ call' = [call EXCEPT ![c] = [Idle EXCEPT !.pc = "sync", !.session = s,
                        !.held = record[s], !.seen = record[s].connected]]
  BY DEF Poll
<1>. DEFINE b == record[s].connected
            n == [Idle EXCEPT !.pc = "sync", !.session = s, !.held = record[s], !.seen = b]
<1>2. record[s] \in Records /\ b \in BOOLEAN
  BY <1>1 DEF TypeOK, Records
<1>3. call' = [call EXCEPT ![c] = n]
  BY <1>1
<1>. HIDE DEF b
<1>4. n \in Calls
  BY <1>2, IdleTyped DEF Calls, PollPCs
<1>5. n.pc = "sync" /\ n.session = s /\ n.held = record[s] /\ (n.seen <=> b)
  BY <1>2, IdleTyped DEF Calls
<1>. HIDE DEF n
<1>. QED
  BY <1>1, <1>3, <1>4, <1>5 DEF Becomes, b

\* A record whose phase is replaced keeps the rest.
LEMMA PhaseEdit ==
    ASSUME NEW r \in Records, NEW phase \in Phases, NEW h, h = [r EXCEPT !.phase = phase]
    PROVE  /\ h \in Records
           /\ h.target = r.target /\ h.phase = phase /\ (h.connected <=> r.connected)
<1>1. h \in Records
  BY DEF Records
<1>2. h.target = r.target /\ h.phase = phase
  BY DEF Records
<1>3. h.connected <=> r.connected
  BY DEF Records
<1>. QED
  BY <1>1, <1>2, <1>3

LEMMA ConnectedEdit ==
    ASSUME NEW r \in Records, NEW h, h = [r EXCEPT !.connected = TRUE]
    PROVE  h \in Records /\ h.target = r.target /\ h.phase = r.phase /\ h.connected
<1>1. h \in Records
  BY DEF Records
<1>2. h.target = r.target /\ h.phase = r.phase
  BY DEF Records
<1>3. h.connected
  BY DEF Records
<1>. QED
  BY <1>1, <1>2, <1>3

\* A poll that goes on with what it now holds.
PollOn(c, n) ==
    /\ Becomes(c, n)
    /\ n.session = call[c].session /\ (n.seen <=> call[c].seen)
    /\ n.held \in Records /\ n.held.target = call[c].held.target

\* A poll goes on with another record in hand.
GoesOn(c, pc, h) == call' = [call EXCEPT ![c] = [call[c] EXCEPT !.pc = pc, !.held = h]]

LEMMA HeldEdit ==
    ASSUME TypeOK, NEW c \in Callers, NEW pc \in PollPCs, NEW h \in Records,
           call[c].held \in Records, h.target = call[c].held.target, GoesOn(c, pc, h)
    PROVE  \E n : PollOn(c, n) /\ n.pc = pc /\ n.held = h
<1>. DEFINE n == [call[c] EXCEPT !.pc = pc, !.held = h]
<1>1. call[c] \in Calls
  BY DEF TypeOK
<1>2. n \in Calls
  BY <1>1 DEF Calls
<1>3. n.pc = pc /\ n.held = h /\ n.session = call[c].session
  BY <1>1 DEF Calls
<1>4. n.seen <=> call[c].seen
  BY <1>1 DEF Calls
<1>. HIDE DEF n
<1>. QED
  BY <1>2, <1>3, <1>4 DEF PollOn, Becomes, n, GoesOn

LEMMA SyncShape ==
    ASSUME TypeOK, NEW c \in Callers, CallInOrder(c), Sync(c)
    PROVE  \E n : /\ PollOn(c, n)
                  /\ n.held.connected <=> call[c].held.connected
                  /\ \/ n.pc = "put" /\ (n.held.phase = "succeeded" => n.held.connected)
                     \/ /\ n.pc = "finalize" /\ ~n.held.connected
                        /\ oauth[n.session] = "succeeded"
<1>. DEFINE s == call[c].session
            r == call[c].held
            phase == IF r.phase = "open" THEN "failed" ELSE r.phase
            h == [r EXCEPT !.phase = phase]
            next == [r EXCEPT !.phase = oauth[s]]
            pc == IF NeedsFinalize(next) THEN "finalize" ELSE "put"
<1>1. /\ s \in Sessions /\ oauth[s] \in Phases /\ r \in Records
      /\ r.phase = "succeeded" => r.connected
  BY DEF Sync, CallInOrder, PollPCs, TypeOK
<1>2. phase \in Phases
  BY <1>1 DEF Records, Phases
<1>3. CASE call' = [call EXCEPT ![c] = [call[c] EXCEPT !.pc = "put", !.held.phase = phase]]
  <2>1. h \in Records /\ h.target = r.target /\ h.phase = phase /\ (h.connected <=> r.connected)
    BY <1>1, <1>2, PhaseEdit
  <2>2. call' = [call EXCEPT ![c] = [call[c] EXCEPT !.pc = "put", !.held = h]]
    BY <1>3
  <2>3. h.phase = "succeeded" => h.connected
    BY <1>1, <2>1
  <2>. HIDE DEF h
  <2>4. PICK n : PollOn(c, n) /\ n.pc = "put" /\ n.held = h
    BY <1>1, <2>1, <2>2, HeldEdit DEF PollPCs, GoesOn
  <2>. QED BY <2>1, <2>3, <2>4
<1>4. CASE call' = [call EXCEPT ![c] = [call[c] EXCEPT !.pc = pc, !.held = next]]
  <2>1. /\ next \in Records /\ next.target = r.target /\ next.phase = oauth[s]
        /\ next.connected <=> r.connected
    BY <1>1, PhaseEdit
  <2>. HIDE DEF next
  <2>0. pc \in PollPCs
    BY DEF PollPCs
  <2>. HIDE DEF pc
  <2>2. PICK n : PollOn(c, n) /\ n.pc = pc /\ n.held = next
    <3>1. next \in Records /\ call[c].held \in Records /\ next.target = call[c].held.target
      BY <1>1, <2>1
    <3>2. GoesOn(c, pc, next)
      BY <1>4 DEF GoesOn
    <3>. QED BY <2>0, <3>1, <3>2, HeldEdit
  <2>3. n.session = s
    BY <2>2 DEF PollOn
  <2>. QED BY <2>1, <2>2, <2>3 DEF NeedsFinalize, pc
<1>5. \/ call' = [call EXCEPT ![c] = [call[c] EXCEPT !.pc = "put", !.held.phase = phase]]
      \/ call' = [call EXCEPT ![c] = [call[c] EXCEPT !.pc = pc, !.held = next]]
  BY DEF Sync, ApplyStatus
<1>. QED
  BY <1>3, <1>4, <1>5

LEMMA FinalizeShape ==
    ASSUME TypeOK, NEW c \in Callers, CallInOrder(c), Finalize(c)
    PROVE  \E n : /\ PollOn(c, n) /\ n.pc = "put"
                  /\ n.held.phase = "succeeded" => n.held.connected
                  /\ \/ /\ n.held.connected /\ UNCHANGED lost
                        /\ registered' = [registered EXCEPT ![n.session] = @ + 1]
                     \/ ~n.held.connected /\ Lose(c)
                     \/ ~n.held.connected /\ UNCHANGED <<provider, registered, lost>>
<1>. DEFINE r == call[c].held
            h == [r EXCEPT !.connected = TRUE]
            f == [r EXCEPT !.phase = "failed"]
<1>1. r \in Records /\ ~r.connected
  BY DEF Finalize, CallInOrder, PollPCs
<1>2. CASE /\ call' = [call EXCEPT ![c] = [call[c] EXCEPT !.pc = "put", !.held.connected = TRUE]]
           /\ UNCHANGED lost
           /\ registered' = [registered EXCEPT ![call[c].session] = @ + 1]
  <2>1. h \in Records /\ h.target = r.target /\ h.connected
    BY <1>1, ConnectedEdit
  <2>2. call' = [call EXCEPT ![c] = [call[c] EXCEPT !.pc = "put", !.held = h]]
    BY <1>2
  <2>. HIDE DEF h
  <2>3. PICK n : PollOn(c, n) /\ n.pc = "put" /\ n.held = h
    BY <1>1, <2>1, <2>2, HeldEdit DEF PollPCs, GoesOn
  <2>. QED BY <1>2, <2>1, <2>3 DEF PollOn
<1>3. CASE /\ call' = [call EXCEPT ![c] = [call[c] EXCEPT !.pc = "put", !.held = f]]
           /\ Lose(c) \/ UNCHANGED <<provider, registered, lost>>
  <2>1. f \in Records /\ f.target = r.target /\ f.phase = "failed" /\ ~f.connected
    BY <1>1, PhaseEdit DEF Phases
  <2>. HIDE DEF f
  <2>2. PICK n : PollOn(c, n) /\ n.pc = "put" /\ n.held = f
    BY <1>1, <1>3, <2>1, HeldEdit DEF PollPCs, GoesOn
  <2>. QED BY <1>3, <2>1, <2>2
<1>. QED
  BY <1>2, <1>3 DEF Finalize, Failed

--------------------------------------------------------------------------------
(* What no step undoes.                                                          *)

\* The world moves on: sessions are not forgotten nor authorizations taken back,
\* registrations count up, and a target stays current.
Onward ==
    /\ \A s \in Sessions :
           /\ oauth[s] # None => oauth'[s] # None
           /\ oauth[s] = "succeeded" => oauth'[s] = "succeeded"
           /\ record[s] # None => record'[s] # None
           /\ registered[s] > 0 => registered'[s] > 0
    /\ \A t \in Targets : Current(t) => Current(t)'

Typed ==
    /\ oauth' \in [Sessions -> Phases \cup {None}]
    /\ record' \in [Sessions -> Records \cup {None}]
    /\ provider' \in [Providers -> Rows \cup {None}]
    /\ registered' \in [Sessions -> Nat]
    /\ drawn' \subseteq Providers
    /\ call' \in [Callers -> Calls]
    /\ polls' \in 0 .. MaxPolls
    /\ renames' \in 0 .. MaxRenames
    /\ lost' \subseteq Sessions

\* A step of c changes no call but its own.
LEMMA BecomesTyped ==
    ASSUME TypeOK, NEW c \in Callers, NEW n, Becomes(c, n)
    PROVE  /\ call' \in [Callers -> Calls] /\ call'[c] = n
           /\ \A d \in Callers \ {c} : call'[d] = call[d]
  BY DEF TypeOK, Becomes

LEMMA SameProvidersSameTargets ==
    ASSUME UNCHANGED <<provider, renames>>
    PROVE  \A t \in Targets : Current(t) => Current(t)'
  BY DEF Current

LEMMA OpeningMovesOn ==
    ASSUME TypeOK, NEW c \in Callers, CallInOrder(c), CreateAlone(c),
           Begin(c) \/ StartSession(c) \/ Create(c) \/ Cancel(c)
    PROVE  Typed /\ Onward
<1>1. \E n : Becomes(c, n)
  BY BeginShape, StartShape, AnswerShape, GotoShape DEF Begin, StartSession, Create, Cancel
<1>2. call' \in [Callers -> Calls]
  BY <1>1, BecomesTyped
<1>3. UNCHANGED <<provider, renames, polls, registered>>
  BY DEF Begin, StartSession, Create, Cancel, world
<1>4. \A t \in Targets : Current(t) => Current(t)'
  BY <1>3, SameProvidersSameTargets
<1>5. CASE Begin(c)
  BY <1>2, <1>3, <1>4, <1>5 DEF Begin, world, Typed, Onward, TypeOK
<1>6. CASE StartSession(c)
  <2>1. lost' \subseteq Sessions /\ UNCHANGED <<record, drawn>>
    BY <1>6, StartShape DEF StartSession, TypeOK
  <2>2. \/ UNCHANGED oauth
        \/ \E s \in Sessions : oauth[s] = None /\ oauth' = [oauth EXCEPT ![s] = "open"]
    BY <1>6 DEF StartSession
  <2>3. "open" \in Phases /\ "open" # None
    BY NoneAssumption DEF Phases
  <2>4. oauth' \in [Sessions -> Phases \cup {None}]
    BY <2>2, <2>3 DEF TypeOK
  <2>5. \A s \in Sessions : /\ oauth[s] # None => oauth'[s] # None
                            /\ oauth[s] = "succeeded" => oauth'[s] = "succeeded"
    BY <2>2, <2>3, NoneAssumption DEF Phases, TypeOK
  <2>. QED BY <1>2, <1>3, <1>4, <2>1, <2>4, <2>5 DEF Typed, Onward, TypeOK
<1>7. CASE Create(c)
  <2>1. call[c].session \in Sessions /\ call[c].target \in Targets
    BY <1>7 DEF Create, CallInOrder, OpeningPCs
  <2>. DEFINE new == NewRecord(call[c].target)
  <2>2. new \in Records /\ new # None
    <3>1. new \in Records
      BY <2>1 DEF NewRecord, Records, Phases
    <3>. QED BY <3>1, NoneAssumption
  <2>3. UNCHANGED record \/ record' = [record EXCEPT ![call[c].session] = new]
    BY <1>7 DEF Create
  <2>. HIDE DEF new
  <2>4. record' \in [Sessions -> Records \cup {None}]
    BY <2>2, <2>3 DEF TypeOK
  <2>5. \A s \in Sessions : record[s] # None => record'[s] # None
    BY <2>2, <2>3 DEF TypeOK
  <2>. QED BY <1>2, <1>3, <1>4, <1>7, <2>4, <2>5 DEF Create, Typed, Onward, TypeOK
<1>8. CASE Cancel(c)
  <2>1. call[c].session \in Sessions
    BY <1>8 DEF Cancel, CallInOrder, OpeningPCs
  <2>. DEFINE s == call[c].session
              ended == IF oauth[s] = "open" THEN "failed" ELSE oauth[s]
  <2>2. UNCHANGED oauth \/ oauth' = [oauth EXCEPT ![s] = ended]
    BY <1>8 DEF Cancel
  <2>3. /\ ended \in Phases \cup {None}
        /\ oauth[s] # None => ended # None
        /\ oauth[s] = "succeeded" => ended = "succeeded"
    BY <2>1, NoneAssumption DEF Phases, TypeOK
  <2>. HIDE DEF ended
  <2>4. oauth' \in [Sessions -> Phases \cup {None}]
    BY <2>2, <2>3 DEF TypeOK
  <2>5. \A x \in Sessions : /\ oauth[x] # None => oauth'[x] # None
                            /\ oauth[x] = "succeeded" => oauth'[x] = "succeeded"
    BY <2>2, <2>3 DEF TypeOK
  <2>6. lost' \subseteq Sessions
    BY <1>8, <2>1 DEF Cancel, Lose, TypeOK
  <2>. QED BY <1>2, <1>3, <1>4, <1>8, <2>4, <2>5, <2>6 DEF Cancel, Typed, Onward, TypeOK
<1>. QED
  BY <1>5, <1>6, <1>7, <1>8

LEMMA PollMovesOn ==
    ASSUME TypeOK, NEW c \in Callers, CallInOrder(c),
           Poll(c) \/ Sync(c) \/ Finalize(c) \/ Put(c) \/ Abandon(c)
    PROVE  Typed /\ Onward
<1>1. \E n : Becomes(c, n)
  BY PollShape, SyncShape, FinalizeShape, AnswerShape DEF Put, Abandon, PollOn
<1>2. call' \in [Callers -> Calls]
  BY <1>1, BecomesTyped
<1>3. CASE Poll(c) \/ Sync(c)
  <2>1. UNCHANGED <<world, drawn, registered, lost>>
    BY <1>3 DEF Poll, Sync
  <2>2. polls' = polls \/ (polls < MaxPolls /\ polls' = polls + 1)
    BY <1>3 DEF Poll, Sync
  <2>3. polls' \in 0 .. MaxPolls
    BY <2>2, BoundsAssumption DEF TypeOK
  <2>. QED BY <1>2, <2>1, <2>3, SameProvidersSameTargets DEF world, Typed, Onward, TypeOK
<1>4. CASE Abandon(c)
  <2>1. UNCHANGED <<world, drawn, polls, registered>>
    BY <1>4 DEF Abandon
  <2>2. Owes(c) => call[c].session \in Sessions
    BY DEF Owes, CallInOrder, PollPCs
  <2>3. lost' \subseteq Sessions
    BY <1>4, <2>2 DEF Abandon, TypeOK
  <2>. QED BY <1>2, <2>1, <2>3, SameProvidersSameTargets DEF world, Typed, Onward, TypeOK
<1>5. CASE Put(c)
  <2>1. call[c].session \in Sessions /\ call[c].held \in Records /\ call[c].held # None
    BY <1>5, NoneAssumption DEF Put, CallInOrder, PollPCs
  <2>2. UNCHANGED <<oauth, provider, renames, drawn, polls, registered, lost>>
    BY <1>5 DEF Put
  <2>3. record' = [record EXCEPT ![call[c].session] = call[c].held]
    BY <1>5 DEF Put
  <2>4. record' \in [Sessions -> Records \cup {None}]
    BY <2>1, <2>3 DEF TypeOK
  <2>5. \A s \in Sessions : record[s] # None => record'[s] # None
    BY <2>1, <2>3 DEF TypeOK
  <2>. QED BY <1>2, <2>2, <2>4, <2>5, SameProvidersSameTargets DEF Typed, Onward, TypeOK
<1>6. CASE Finalize(c)
  <2>. DEFINE s == call[c].session
              t == call[c].held.target
              row == [name |-> t.name, renamed |-> 0]
  <2>1. s \in Sessions /\ t \in Targets
    BY <1>6 DEF Finalize, CallInOrder, PollPCs, Records
  <2>2. row \in Rows /\ row # None /\ row.renamed = 0 /\ t.id \in Providers
    BY <2>1, BoundsAssumption, NoneAssumption DEF Rows, Targets
  <2>3. \/ UNCHANGED <<provider, registered>>
        \/ /\ provider' = [provider EXCEPT ![t.id] = row]
           /\ registered' = [registered EXCEPT ![s] = registered[s] + 1]
    BY <1>6 DEF Finalize
  <2>4. UNCHANGED <<oauth, record, renames, drawn, polls>> /\ lost' \subseteq Sessions
    BY <1>6, <2>1 DEF Finalize, Lose, TypeOK
  <2>. HIDE DEF row
  <2>5. provider' \in [Providers -> Rows \cup {None}] /\ registered' \in [Sessions -> Nat]
    BY <2>1, <2>2, <2>3 DEF TypeOK
  <2>6. \A x \in Sessions : registered[x] > 0 => registered'[x] > 0
    BY <2>1, <2>3 DEF TypeOK
  <2>7. ASSUME NEW u \in Targets, Current(u) PROVE Current(u)'
    <3>1. u.id \in Providers
      BY DEF Targets
    <3>2. provider'[u.id] = provider[u.id] \/ provider'[u.id].renamed = 0
      BY <2>2, <2>3, <3>1 DEF TypeOK
    <3>. QED BY <2>4, <2>7, <3>2 DEF Current
  <2>. QED BY <1>2, <2>4, <2>5, <2>6, <2>7 DEF Typed, Onward, TypeOK
<1>. QED
  BY <1>3, <1>4, <1>5, <1>6

LEMMA EnvironmentMovesOn ==
    ASSUME TypeOK,
           \/ \E s \in Sessions : EndOAuth(s)
           \/ \E p \in Providers : Delete(p) \/ Rename(p)
    PROVE  Typed /\ Onward
<1>1. ASSUME NEW s \in Sessions, EndOAuth(s) PROVE Typed /\ Onward
  <2>1. PICK phase \in {"succeeded", "failed"} : oauth' = [oauth EXCEPT ![s] = phase]
    BY <1>1 DEF EndOAuth
  <2>2. phase \in Phases /\ phase # None /\ oauth[s] = "open"
    BY <1>1, NoneAssumption DEF Phases, EndOAuth
  <2>. QED BY <1>1, <2>1, <2>2, SameProvidersSameTargets DEF EndOAuth, Typed, Onward, TypeOK
<1>2. ASSUME NEW p \in Providers, Delete(p) PROVE Typed /\ Onward
  <2>1. ASSUME NEW u \in Targets, Current(u) PROVE Current(u)'
    <3>1. u.id \in Providers
      BY DEF Targets
    <3>2. provider'[u.id] = provider[u.id] \/ provider'[u.id] = None
      BY <1>2, <3>1 DEF Delete, TypeOK
    <3>. QED BY <1>2, <2>1, <3>2 DEF Delete, Current
  <2>. QED BY <1>2, <2>1 DEF Delete, Typed, Onward, TypeOK
<1>3. ASSUME NEW p \in Providers, Rename(p) PROVE Typed /\ Onward
  <2>0. renames' = renames + 1 /\ renames' \in 0 .. MaxRenames /\ renames \in Nat
    BY <1>3, BoundsAssumption DEF Rename, TypeOK
  <2>1. PICK name \in Names : provider' = [provider EXCEPT ![p] = [name |-> name, renamed |-> renames']]
    BY <1>3 DEF Rename
  <2>. DEFINE row == [name |-> name, renamed |-> renames']
  <2>2. row \in Rows /\ row.renamed = renames + 1
    BY <2>0 DEF Rows
  <2>. HIDE DEF row
  <2>3. provider' = [provider EXCEPT ![p] = row]
    BY <2>1 DEF row
  <2>4. provider' \in [Providers -> Rows \cup {None}]
    BY <2>2, <2>3 DEF TypeOK
  <2>5. ASSUME NEW u \in Targets, Current(u) PROVE Current(u)'
    <3>1. u.id \in Providers /\ u.began \in Nat
      BY BoundsAssumption DEF Targets
    <3>2. provider'[u.id] = provider[u.id] \/ provider'[u.id].renamed = renames + 1
      BY <2>2, <2>3, <3>1 DEF TypeOK
    <3>3. u.began <= renames
      BY <2>5 DEF Current
    <3>. QED BY <2>0, <2>5, <3>1, <3>2, <3>3 DEF Current
  <2>. QED BY <1>3, <2>0, <2>4, <2>5 DEF Rename, Typed, Onward, TypeOK
<1>. QED
  BY <1>1, <1>2, <1>3

--------------------------------------------------------------------------------
(* Calls and records stay in order.                                              *)

LEMMA UntouchedCallInOrder ==
    ASSUME TypeOK, Typed, Onward, NEW d \in Callers, CallInOrder(d), call'[d] = call[d]
    PROVE  CallInOrder(d)'
<1>1. call[d].pc \in PollPCs => call[d].held \in Records /\ call[d].held.target \in Targets
  BY DEF CallInOrder, Records
<1>2. call[d].pc \in OpeningPCs \cup PollPCs => call[d].session \in Sessions
  BY DEF CallInOrder
<1>3. call[d].pc = "finalize" => call[d].pc \in PollPCs
  BY DEF PollPCs
<1>. QED
  BY <1>1, <1>2, <1>3 DEF CallInOrder, Onward

LEMMA IdleInOrder ==
    ASSUME TypeOK, NEW c \in Callers, Becomes(c, Idle)
    PROVE  CallInOrder(c)'
<1>1. call'[c].pc = "idle"
  BY BecomesTyped, IdleTyped
<1>. QED
  BY <1>1 DEF CallInOrder, OpeningPCs, PollPCs

\* The caller of an opening step.
LEMMA OpeningInOrder ==
    ASSUME TypeOK, NEW c \in Callers, CallInOrder(c), Typed, Onward,
           Begin(c) \/ StartSession(c) \/ Create(c) \/ Cancel(c)
    PROVE  CallInOrder(c)'
<1>1. CASE Begin(c)
  <2>1. PICK n : /\ Becomes(c, n) /\ n.pc = "start"
                 /\ n.target \in Targets /\ Current(n.target)
    BY <1>1, BeginShape
  <2>2. call'[c] = n /\ Current(n.target)'
    BY <2>1, BecomesTyped DEF Onward
  <2>. QED BY <2>1, <2>2 DEF CallInOrder, OpeningPCs, PollPCs
<1>2. ASSUME StartSession(c), ~Becomes(c, Idle) PROVE CallInOrder(c)'
  <2>1. PICK n : /\ Becomes(c, n) /\ n.pc = "create" /\ n.target = call[c].target
                 /\ n.session \in Sessions
                 /\ oauth' = [oauth EXCEPT ![n.session] = "open"]
    BY <1>2, StartShape
  <2>2. call[c].target \in Targets /\ Current(call[c].target)
    BY <1>2 DEF StartSession, CallInOrder
  <2>3. call'[c] = n /\ Current(n.target)'
    BY <2>1, <2>2, BecomesTyped DEF Onward
  <2>4. oauth'[n.session] # None
    BY <2>1, NoneAssumption DEF TypeOK, Phases
  <2>. QED BY <2>1, <2>2, <2>3, <2>4 DEF CallInOrder, OpeningPCs, PollPCs
<1>3. ASSUME Create(c), ~Becomes(c, Idle) PROVE CallInOrder(c)'
  <2>1. PICK n : Becomes(c, n) /\ n.pc = "cancel" /\ n.session = call[c].session
    BY <1>3, AnswerShape, GotoShape DEF Create
  <2>2. call[c].session \in Sessions /\ oauth[call[c].session] # None
    BY <1>3 DEF Create, CallInOrder, OpeningPCs
  <2>3. call'[c] = n /\ oauth'[n.session] # None
    BY <2>1, <2>2, BecomesTyped DEF Onward
  <2>. QED BY <2>1, <2>2, <2>3 DEF CallInOrder, OpeningPCs, PollPCs
<1>4. Becomes(c, Idle) => CallInOrder(c)'
  BY IdleInOrder
<1>5. Cancel(c) => Becomes(c, Idle)
  BY AnswerShape DEF Cancel
<1>. QED
  BY <1>1, <1>2, <1>3, <1>4, <1>5

\* The caller of a step of a poll.
LEMMA PollInOrder ==
    ASSUME TypeOK, NEW c \in Callers, CallInOrder(c), \A s \in Sessions : RecordInOrder(s),
           Typed, Onward, Poll(c) \/ Sync(c) \/ Finalize(c) \/ Put(c) \/ Abandon(c)
    PROVE  CallInOrder(c)'
<1>1. CASE Poll(c)
  <2>1. PICK n : /\ Becomes(c, n) /\ n.pc = "sync" /\ n.session \in Sessions
                 /\ record[n.session] # None /\ n.held = record[n.session]
                 /\ n.seen <=> record[n.session].connected
    BY <1>1, PollShape
  <2>2. call'[c] = n
    BY <2>1, BecomesTyped
  <2>3. n.held \in Records /\ n.held.target \in Targets
    BY <2>1 DEF TypeOK, Records
  <2>4. /\ oauth[n.session] # None /\ Current(n.held.target)
        /\ n.held.phase = "succeeded" => n.held.connected
        /\ n.held.connected => registered[n.session] > 0
    BY <2>1 DEF RecordInOrder
  <2>5. /\ oauth'[n.session] # None /\ Current(n.held.target)'
        /\ record'[n.session] # None
        /\ n.held.connected => registered'[n.session] > 0
    BY <2>1, <2>3, <2>4 DEF Onward
  <2>. QED BY <2>1, <2>2, <2>3, <2>4, <2>5 DEF CallInOrder, OpeningPCs, PollPCs
<1>2. ASSUME NEW n, PollOn(c, n), call[c].pc \in PollPCs, n.pc \in {"put", "finalize"},
             n.seen => n.held.connected,
             n.held.connected => registered'[n.session] > 0,
             n.pc = "put" => (n.held.phase = "succeeded" => n.held.connected),
             n.pc = "finalize" => ~n.held.connected /\ oauth[n.session] = "succeeded"
      PROVE  CallInOrder(c)'
  <2>1. call'[c] = n
    BY <1>2, BecomesTyped DEF PollOn
  <2>2. n.session \in Sessions /\ oauth[n.session] # None /\ record[n.session] # None
    BY <1>2 DEF PollOn, CallInOrder
  <2>3. n.held \in Records /\ n.held.target \in Targets /\ Current(n.held.target)
    BY <1>2 DEF PollOn, CallInOrder, Records
  <2>4. /\ oauth'[n.session] # None /\ record'[n.session] # None /\ Current(n.held.target)'
        /\ oauth[n.session] = "succeeded" => oauth'[n.session] = "succeeded"
    BY <2>2, <2>3 DEF Onward
  <2>. QED BY <1>2, <2>1, <2>2, <2>3, <2>4 DEF CallInOrder, OpeningPCs, PollPCs
<1>3. CASE Sync(c)
  <2>1. PICK n : /\ PollOn(c, n)
                 /\ n.held.connected <=> call[c].held.connected
                 /\ \/ n.pc = "put" /\ (n.held.phase = "succeeded" => n.held.connected)
                    \/ /\ n.pc = "finalize" /\ ~n.held.connected
                       /\ oauth[n.session] = "succeeded"
    BY <1>3, SyncShape
  <2>2. /\ call[c].pc \in PollPCs /\ UNCHANGED registered
        /\ call[c].seen => call[c].held.connected
        /\ call[c].held.connected => registered[call[c].session] > 0
    BY <1>3 DEF Sync, CallInOrder, PollPCs
  <2>. QED BY <1>2, <2>1, <2>2 DEF PollOn
<1>4. CASE Finalize(c)
  <2>1. PICK n : /\ PollOn(c, n) /\ n.pc = "put"
                 /\ n.held.phase = "succeeded" => n.held.connected
                 /\ \/ /\ n.held.connected /\ UNCHANGED lost
                       /\ registered' = [registered EXCEPT ![n.session] = @ + 1]
                    \/ ~n.held.connected /\ Lose(c)
                    \/ ~n.held.connected /\ UNCHANGED <<provider, registered, lost>>
    BY <1>4, FinalizeShape
  <2>2. /\ call[c].pc \in PollPCs /\ ~call[c].held.connected /\ ~call[c].seen
        /\ call[c].session \in Sessions
    BY <1>4 DEF Finalize, CallInOrder, PollPCs
  <2>3. n.held.connected => registered'[n.session] > 0
    BY <2>1, <2>2 DEF PollOn, TypeOK
  <2>4. ~n.seen
    BY <2>1, <2>2 DEF PollOn
  <2>. QED BY <1>2, <2>1, <2>2, <2>3, <2>4
<1>5. Put(c) \/ Abandon(c) => CallInOrder(c)'
  BY AnswerShape, IdleInOrder DEF Put, Abandon
<1>. QED
  BY <1>1, <1>3, <1>4, <1>5

LEMMA CallsStayInOrder ==
    ASSUME IInv, Typed, Onward, Next
    PROVE  \A d \in Callers : CallInOrder(d)'
<1>1. ASSUME NEW d \in Callers, call'[d] = call[d] PROVE CallInOrder(d)'
  BY <1>1, UntouchedCallInOrder DEF IInv
<1>2. ASSUME NEW c \in Callers, Step(c), NEW d \in Callers PROVE CallInOrder(d)'
  <2>1. CallInOrder(c)'
    BY <1>2, OpeningInOrder, PollInOrder DEF Step, IInv
  <2>2. PICK n : Becomes(c, n)
    BY <1>2, BeginShape, StartShape, AnswerShape, GotoShape, PollShape, SyncShape, FinalizeShape
       DEF Step, Create, Cancel, Put, Abandon, PollOn, IInv
  <2>3. d # c => call'[d] = call[d]
    BY <2>2, BecomesTyped DEF IInv
  <2>. QED BY <1>1, <2>1, <2>3
<1>3. CASE \/ \E s \in Sessions : EndOAuth(s)
           \/ \E p \in Providers : Delete(p) \/ Rename(p)
  BY <1>1, <1>3 DEF EndOAuth, Delete, Rename
<1>. QED
  BY <1>2, <1>3 DEF Next

\* Only a Create or a Put of the session writes its record.
LEMMA RecordsWritten ==
    ASSUME IInv, Next, NEW s \in Sessions, record'[s] # record[s]
    PROVE  \E c \in Callers :
               /\ call[c].session = s
               /\ \/ Create(c) /\ record'[s] = NewRecord(call[c].target)
                  \/ Put(c) /\ record'[s] = call[c].held
<1>1. PICK c \in Callers : Create(c) \/ Put(c)
  BY DEF Next, Step, Begin, StartSession, Cancel, Poll, Sync, Finalize, Abandon, EndOAuth,
         Delete, Rename, world
<1>2. call[c].session \in Sessions
  BY <1>1 DEF IInv, CallInOrder, Create, Put, OpeningPCs, PollPCs
<1>. QED
  BY <1>1, <1>2 DEF Create, Put, IInv, TypeOK

LEMMA RecordsStayInOrder ==
    ASSUME IInv, Typed, Onward, Next, NEW s \in Sessions
    PROVE  RecordInOrder(s)'
<1>1. CASE record'[s] = record[s]
  <2>1. record[s] # None => record[s].target \in Targets
    BY DEF IInv, TypeOK, Records
  <2>. QED BY <1>1, <2>1 DEF IInv, RecordInOrder, Onward
<1>2. ASSUME NEW c \in Callers, call[c].session = s, Create(c),
             record'[s] = NewRecord(call[c].target)
      PROVE  RecordInOrder(s)'
  <2>1. call[c].target \in Targets /\ Current(call[c].target) /\ oauth[s] # None
    BY <1>2 DEF IInv, CallInOrder, Create, OpeningPCs
  <2>2. /\ record'[s].target = call[c].target
        /\ record'[s].phase = "open" /\ ~record'[s].connected
    BY <1>2 DEF NewRecord
  <2>. QED BY <2>1, <2>2 DEF RecordInOrder, Onward
<1>3. ASSUME NEW c \in Callers, call[c].session = s, Put(c), record'[s] = call[c].held
      PROVE  RecordInOrder(s)'
  <2>1. /\ call[c].held \in Records /\ Current(call[c].held.target) /\ oauth[s] # None
        /\ call[c].held.phase = "succeeded" => call[c].held.connected
        /\ call[c].held.connected => registered[s] > 0
    BY <1>3 DEF IInv, CallInOrder, Put, PollPCs
  <2>2. call[c].held.target \in Targets
    BY <2>1 DEF Records
  <2>. QED BY <1>3, <2>1, <2>2 DEF RecordInOrder, Onward
<1>. QED
  BY <1>1, <1>2, <1>3, RecordsWritten

LEMMA AuthorizedOnlyStays ==
    ASSUME IInv, Typed, Onward, Next
    PROVE  RegisteredOnlyAuthorized'
<1>1. SUFFICES ASSUME NEW s \in Sessions, registered'[s] > 0 PROVE oauth'[s] = "succeeded"
  BY DEF RegisteredOnlyAuthorized
<1>2. CASE registered[s] > 0
  BY <1>2 DEF IInv, RegisteredOnlyAuthorized, Onward
<1>3. CASE ~(registered[s] > 0)
  <2>1. registered'[s] # registered[s]
    BY <1>1, <1>3
  <2>2. PICK c \in Callers : Finalize(c)
    BY <2>1 DEF Next, Step, Begin, StartSession, Create, Cancel, Poll, Sync, Put, Abandon,
                EndOAuth, Delete, Rename
  <2>3. call[c].session = s
    BY <2>1, <2>2 DEF Finalize, IInv, TypeOK
  <2>. QED BY <2>2, <2>3 DEF Finalize, IInv, CallInOrder, Onward
<1>. QED
  BY <1>2, <1>3

--------------------------------------------------------------------------------
(* Who is about which session.                                                   *)

About(c, s) == call[c].pc \in OpeningPCs \cup PollPCs /\ call[c].session = s

\* A call gets its session from a StartSession, which opens it, or from a Poll,
\* which finds its record.
LEMMA SessionSource ==
    ASSUME IInv, NEW c \in Callers, Step(c)
    PROVE  \E n : /\ Becomes(c, n)
                  /\ n.pc = "create" => call[c].pc # "create" /\ oauth[n.session] = None
                                        /\ n.session \in Sessions
                  /\ n.pc \in OpeningPCs \cup PollPCs =>
                         \/ About(c, n.session)
                         \/ oauth[n.session] = None /\ n.session \in Sessions /\ n.pc = "create"
                         \/ record[n.session] # None /\ n.pc = "sync" /\ Poll(c)
<1>. USE DEF IInv, OpeningPCs, PollPCs
<1>0. Becomes(c, Idle) => \E n : Becomes(c, n) /\ n.pc = "idle"
  BY IdleTyped
<1>1. CASE Begin(c)
  BY <1>1, BeginShape
<1>2. CASE StartSession(c)
  BY <1>0, <1>2, StartShape DEF StartSession
<1>3. CASE Create(c)
  BY <1>0, <1>3, AnswerShape, GotoShape DEF Create, About
<1>4. CASE Cancel(c) \/ Put(c) \/ Abandon(c)
  BY <1>0, <1>4, AnswerShape DEF Cancel, Put, Abandon
<1>5. CASE Poll(c)
  BY <1>5, PollShape
<1>6. CASE Sync(c)
  BY <1>6, SyncShape DEF Sync, PollOn, About
<1>7. CASE Finalize(c)
  BY <1>7, FinalizeShape DEF Finalize, PollOn, About
<1>. QED
  BY <1>1, <1>2, <1>3, <1>4, <1>5, <1>6, <1>7 DEF Step

LEMMA CreatesStayAlone ==
    ASSUME IInv, Typed, Onward, Next, NEW d \in Callers
    PROVE  CreateAlone(d)'
<1>1. CASE UNCHANGED <<call, record>>
  BY <1>1 DEF IInv, CreateAlone
<1>2. ASSUME NEW c \in Callers, Step(c) PROVE CreateAlone(d)'
  <2>0. PICK n : /\ Becomes(c, n)
                 /\ n.pc = "create" => call[c].pc # "create" /\ oauth[n.session] = None
                                       /\ n.session \in Sessions
                 /\ n.pc \in OpeningPCs \cup PollPCs =>
                        \/ About(c, n.session)
                        \/ oauth[n.session] = None /\ n.session \in Sessions /\ n.pc = "create"
                        \/ record[n.session] # None /\ n.pc = "sync" /\ Poll(c)
    BY <1>2, SessionSource
  <2>1. call'[c] = n /\ \A e \in Callers \ {c} : call'[e] = call[e]
    BY <2>0, BecomesTyped DEF IInv
  <2>2. \A e \in Callers : call[e].pc \in OpeningPCs \cup PollPCs =>
            call[e].session \in Sessions /\ oauth[call[e].session] # None
    BY DEF IInv, CallInOrder
  <2>3. CASE d = c
    <3>. SUFFICES ASSUME n.pc = "create" PROVE CreateAlone(c)'
      BY <2>1, <2>3 DEF CreateAlone
    <3>1. record[n.session] = None
      BY <2>0 DEF IInv, RecordInOrder
    <3>2. UNCHANGED record
      <4>1. ~Put(c) /\ ~Create(c)
        BY <2>0, <2>1, AnswerShape, GotoShape, IdleTyped, BecomesTyped DEF Put, Create, IInv
      <4>. QED BY <1>2, <4>1 DEF Step, Begin, StartSession, Cancel, Poll, Sync, Finalize,
                                 Abandon, world
    <3>. QED BY <2>0, <2>1, <2>2, <2>3, <3>1, <3>2 DEF CreateAlone
  <2>4. CASE d # c
    <3>. SUFFICES ASSUME call[d].pc = "create" PROVE CreateAlone(d)'
      BY <2>1, <2>4 DEF CreateAlone
    <3>1. /\ record[call[d].session] = None /\ call[d].session \in Sessions
          /\ oauth[call[d].session] # None
          /\ \A e \in Callers \ {d} : ~About(e, call[d].session)
      BY <2>2 DEF IInv, CreateAlone, About, OpeningPCs
    <3>2. record'[call[d].session] = None
      <4>1. ASSUME record'[call[d].session] # record[call[d].session] PROVE FALSE
        <5>1. PICK e \in Callers : call[e].session = call[d].session /\ (Create(e) \/ Put(e))
          BY <3>1, <4>1, RecordsWritten
        <5>2. e = d
          BY <3>1, <5>1 DEF Create, Put, About, OpeningPCs, PollPCs
        <5>3. call'[d].pc # "create"
          BY <5>1, <5>2, AnswerShape, GotoShape, IdleTyped, BecomesTyped DEF Put, Create, IInv
        <5>. QED BY <2>1, <2>4, <5>3
      <4>. QED BY <3>1, <4>1
    <3>3. n.pc \in OpeningPCs \cup PollPCs => n.session # call[d].session
      BY <2>0, <2>4, <3>1
    <3>. QED BY <2>1, <2>4, <3>1, <3>2, <3>3 DEF CreateAlone, About
  <2>. QED BY <2>3, <2>4
<1>3. CASE \/ \E s \in Sessions : EndOAuth(s)
           \/ \E p \in Providers : Delete(p) \/ Rename(p)
  BY <1>1, <1>3 DEF EndOAuth, Delete, Rename
<1>. QED
  BY <1>2, <1>3 DEF Next

LEMMA OpenSessionsStayWatched ==
    ASSUME IInv, Typed, Onward, Next
    PROVE  OpenSessionsAreWatched'
<1>. SUFFICES ASSUME NEW s \in Sessions, oauth'[s] = "open", s \notin lost', record'[s] = None
              PROVE  \E c \in Callers : call'[c].session = s /\ call'[c].pc \in OpeningPCs
  BY DEF OpenSessionsAreWatched
<1>0. record[s] = None /\ TypeOK
  BY DEF Onward, IInv
<1>1. CASE oauth[s] # "open"
  <2>1. PICK c \in Callers : StartSession(c)
    BY <1>1 DEF Next, Step, Begin, Create, Cancel, Poll, Sync, Finalize, Put, Abandon, EndOAuth,
                Delete, Rename, world, IInv, TypeOK
  <2>2. \A x \in Sessions : oauth' = [oauth EXCEPT ![x] = "open"] => x = s
    BY <1>0, <1>1 DEF TypeOK
  <2>3. PICK n : /\ Becomes(c, n) /\ n.pc = "create" /\ n.session \in Sessions
                 /\ oauth' = [oauth EXCEPT ![n.session] = "open"]
    BY <1>0, <1>1, <2>1, <2>2, StartShape
  <2>4. call'[c] = n
    BY <1>0, <2>3, BecomesTyped
  <2>. QED BY <2>2, <2>3, <2>4 DEF OpeningPCs
<1>2. CASE oauth[s] = "open"
  <2>1. s \notin lost
    BY DEF Next, Step, Begin, StartSession, Create, Cancel, Poll, Sync, Finalize, Put, Abandon,
           EndOAuth, Delete, Rename, Lose
  <2>2. PICK c \in Callers : call[c].session = s /\ call[c].pc \in OpeningPCs
    BY <1>0, <1>2, <2>1 DEF IInv, OpenSessionsAreWatched
  <2>3. CASE call'[c] = call[c]
    BY <2>2, <2>3
  <2>4. CASE call'[c] # call[c]
    <3>1. Step(c)
      <4>1. PICK d \in Callers : Step(d)
        BY <2>4 DEF Next, EndOAuth, Delete, Rename
      <4>2. PICK n : Becomes(d, n)
        BY <4>1, SessionSource
      <4>3. d = c
        BY <1>0, <2>4, <4>2, BecomesTyped
      <4>. QED BY <4>1, <4>3
    <3>2. Create(c) \/ Cancel(c) \/ Abandon(c)
      BY <2>2, <3>1 DEF Step, Begin, StartSession, Poll, Sync, Finalize, Put, OpeningPCs
    <3>3. ~Abandon(c)
      BY <2>2 DEF Abandon, Owes
    <3>4. ~Cancel(c)
      BY <1>0, <1>2, <2>2 DEF Cancel, Lose, TypeOK
    <3>5. CASE Create(c)
      <4>1. call[c].target \in Targets
        BY <3>5 DEF IInv, CallInOrder, Create
      <4>2. NewRecord(call[c].target) \in Records
        BY <4>1 DEF NewRecord, Records, Phases
      <4>3. Goto(c, "cancel")
        BY <1>0, <2>2, <3>5, <4>2, NoneAssumption DEF Create, TypeOK
      <4>4. PICK n : Becomes(c, n) /\ n.pc = "cancel" /\ n.session = call[c].session
        BY <1>0, <4>3, GotoShape
      <4>. QED BY <1>0, <2>2, <4>4, BecomesTyped DEF OpeningPCs
    <3>. QED BY <3>2, <3>3, <3>4, <3>5
  <2>. QED BY <2>3, <2>4
<1>. QED
  BY <1>1, <1>2

--------------------------------------------------------------------------------
(* A session is registered once while its polls come one at a time and complete. *)

\* The polls of the session are what they were, but for that of c.
LEMMA OncePolledElsewhere ==
    ASSUME IInv, NEW s \in Sessions, RegisteredOnce(s), NEW c \in Callers,
           NEW n, Becomes(c, n), ~Polling(c, s), ~Polling(c, s)',
           record'[s] = record[s], registered'[s] = registered[s]
    PROVE  RegisteredOnce(s)'
<1>1. \A d \in Callers \ {c} : call'[d] = call[d]
  BY BecomesTyped DEF IInv
<1>2. \A d \in Callers : Polling(d, s)' => d # c /\ Polling(d, s) /\ call'[d] = call[d]
  BY <1>1 DEF Polling
<1>3. \A d \in Callers : call[d].pc = "put" /\ call[d].session = s => d # c
  BY DEF Polling, PollPCs
<1>. QED
  BY <1>1, <1>2, <1>3 DEF RegisteredOnce

\* Every step keeps that, unless it disturbs the session.
LEMMA StaysRegisteredOnce ==
    ASSUME IInv, Typed, NEW s \in Sessions, RegisteredOnce(s), s \notin lost',
           \A c, d \in Callers : Polling(c, s)' /\ Polling(d, s)' => c = d,
           NEW c \in Callers, Step(c)
    PROVE  RegisteredOnce(s)'
<1>0. TypeOK /\ CallInOrder(c) /\ CreateAlone(c) /\ RecordInOrder(s) /\ registered[s] \in Nat
  BY DEF IInv, TypeOK
<1>1. CASE Begin(c) \/ StartSession(c) \/ Cancel(c)
  <2>1. PICK n : Becomes(c, n) /\ n.pc \notin PollPCs
    BY <1>0, <1>1, BeginShape, StartShape, AnswerShape, IdleTyped DEF Cancel, PollPCs
  <2>2. ~Polling(c, s) /\ ~Polling(c, s)'
    BY <1>0, <1>1, <2>1, BecomesTyped DEF Polling, PollPCs, Begin, StartSession, Cancel
  <2>3. UNCHANGED <<record, registered>>
    BY <1>1 DEF Begin, StartSession, Cancel, world
  <2>. QED BY <2>1, <2>2, <2>3, OncePolledElsewhere
<1>2. CASE Create(c)
  <2>1. PICK n : Becomes(c, n) /\ n.pc \notin PollPCs
    BY <1>0, <1>2, AnswerShape, GotoShape, IdleTyped DEF Create, PollPCs
  <2>2. ~Polling(c, s) /\ ~Polling(c, s)'
    BY <1>0, <1>2, <2>1, BecomesTyped DEF Polling, PollPCs, Create
  <2>3. UNCHANGED registered
    BY <1>2 DEF Create
  <2>4. CASE call[c].session # s
    <3>1. record'[s] = record[s]
      BY <1>0, <1>2, <2>4 DEF Create, TypeOK
    <3>. QED BY <2>1, <2>2, <2>3, <3>1, OncePolledElsewhere
  <2>5. CASE call[c].session = s
    <3>1. record[s] = None /\ \A d \in Callers : ~Polling(d, s)
      BY <1>0, <1>2, <2>2, <2>5 DEF Create, CreateAlone, Polling
    <3>2. registered[s] = 0
      BY <1>0, <3>1 DEF RegisteredOnce, Polling, PollPCs
    <3>3. \A d \in Callers : ~Polling(d, s)'
      BY <1>0, <2>1, <2>2, <3>1, BecomesTyped DEF Polling
    <3>. QED BY <2>3, <3>2, <3>3 DEF RegisteredOnce
  <2>. QED BY <2>4, <2>5
<1>3. CASE Poll(c)
  <2>1. PICK n : /\ Becomes(c, n) /\ n.pc = "sync" /\ n.session \in Sessions
                 /\ record[n.session] # None /\ n.held = record[n.session]
                 /\ n.seen <=> record[n.session].connected
    BY <1>0, <1>3, PollShape
  <2>2. call'[c] = n /\ \A d \in Callers \ {c} : call'[d] = call[d]
    BY <1>0, <2>1, BecomesTyped
  <2>3. UNCHANGED <<record, registered>> /\ ~Polling(c, s)
    BY <1>3 DEF Poll, world, Polling, PollPCs
  <2>4. CASE n.session # s
    <3>1. ~Polling(c, s)'
      BY <2>2, <2>4 DEF Polling
    <3>. QED BY <2>1, <2>3, <3>1, OncePolledElsewhere
  <2>5. CASE n.session = s
    <3>1. Polling(c, s)'
      BY <2>1, <2>2, <2>5 DEF Polling, PollPCs
    <3>2. \A d \in Callers : Polling(d, s)' => d = c
      BY <3>1
    <3>3. \A d \in Callers : ~Polling(d, s)
      BY <2>2, <2>3, <3>2 DEF Polling
    <3>4. registered[s] = 1 => record[s].connected
      BY <3>3 DEF RegisteredOnce, Polling, PollPCs
    <3>5. ~n.held.connected => registered[s] = 0
      BY <1>0, <2>1, <2>5, <3>4 DEF RegisteredOnce
    <3>. QED BY <2>1, <2>2, <2>3, <2>5, <3>2, <3>4, <3>5 DEF RegisteredOnce
  <2>. QED BY <2>4, <2>5
<1>4. ASSUME NEW n, Becomes(c, n), n.session = call[c].session, call[c].pc \in PollPCs,
             call[c].session # s, n.pc \in PollPCs \cup {"idle"},
             record'[s] = record[s], registered'[s] = registered[s]
      PROVE  RegisteredOnce(s)'
  <2>1. ~Polling(c, s) /\ ~Polling(c, s)'
    BY <1>0, <1>4, BecomesTyped DEF Polling
  <2>. QED BY <1>4, <2>1, OncePolledElsewhere
<1>5. CASE Sync(c)
  <2>1. PICK n : /\ PollOn(c, n)
                 /\ n.held.connected <=> call[c].held.connected
                 /\ n.pc \in PollPCs
    BY <1>0, <1>5, SyncShape DEF PollPCs
  <2>2. /\ UNCHANGED <<record, registered>> /\ call[c].pc \in PollPCs
        /\ call[c].pc # "put"
    BY <1>5 DEF Sync, world, PollPCs
  <2>3. CASE call[c].session # s
    BY <1>4, <2>1, <2>2, <2>3 DEF PollOn
  <2>4. CASE call[c].session = s
    <3>1. call'[c] = n /\ \A d \in Callers \ {c} : call'[d] = call[d]
      BY <1>0, <2>1, BecomesTyped DEF PollOn
    <3>2. Polling(c, s)
      BY <2>2, <2>4 DEF Polling
    <3>3. \A d \in Callers : Polling(d, s)' => Polling(d, s)
      BY <3>1, <3>2 DEF Polling
    <3>4. registered[s] = 1 =>
              \/ record[s] # None /\ record[s].connected
              \/ \E d \in Callers \ {c} : /\ call[d].pc = "put" /\ call[d].session = s
                                          /\ call[d].held.connected /\ ~call[d].seen
      BY <2>2 DEF RegisteredOnce
    <3>. QED BY <2>1, <2>2, <3>1, <3>2, <3>3, <3>4 DEF RegisteredOnce, PollOn
  <2>. QED BY <2>3, <2>4
<1>6. CASE Finalize(c)
  <2>1. PICK n : /\ PollOn(c, n) /\ n.pc = "put"
                 /\ \/ /\ n.held.connected /\ UNCHANGED lost
                       /\ registered' = [registered EXCEPT ![n.session] = @ + 1]
                    \/ ~n.held.connected /\ Lose(c)
                    \/ ~n.held.connected /\ UNCHANGED <<provider, registered, lost>>
    BY <1>0, <1>6, FinalizeShape
  <2>2. UNCHANGED record /\ call[c].pc = "finalize" /\ "finalize" \in PollPCs /\ "put" \in PollPCs
    BY <1>6 DEF Finalize, PollPCs
  <2>3. CASE call[c].session # s
    <3>1. registered'[s] = registered[s]
      BY <1>0, <1>6, <2>3 DEF Finalize, TypeOK
    <3>. QED BY <1>4, <2>1, <2>2, <2>3, <3>1 DEF PollOn
  <2>4. CASE call[c].session = s
    <3>1. call'[c] = n /\ \A d \in Callers \ {c} : call'[d] = call[d]
      BY <1>0, <2>1, BecomesTyped DEF PollOn
    <3>2. Polling(c, s) /\ Polling(c, s)' /\ ~call[c].held.connected /\ ~call[c].seen
      BY <1>0, <2>1, <2>2, <2>4, <3>1 DEF Polling, CallInOrder, PollOn
    <3>3. registered[s] = 0 /\ \A d \in Callers : Polling(d, s)' => d = c
      BY <3>2 DEF RegisteredOnce
    <3>4. ~Lose(c)
      BY <2>4 DEF Lose
    <3>5. ~n.seen /\ n.session = s
      BY <2>1, <2>4, <3>2 DEF PollOn
    <3>6. CASE n.held.connected
      <4>1. registered'[s] = 1
        BY <1>0, <2>1, <3>3, <3>5, <3>6 DEF TypeOK
      <4>. QED BY <2>1, <3>1, <3>3, <3>5, <3>6, <4>1 DEF RegisteredOnce
    <3>7. CASE ~n.held.connected
      <4>1. registered'[s] = 0
        BY <2>1, <3>3, <3>4, <3>7
      <4>. QED BY <3>1, <3>3, <3>5, <4>1 DEF RegisteredOnce
    <3>. QED BY <3>6, <3>7
  <2>. QED BY <2>3, <2>4
<1>7. CASE Put(c)
  <2>1. /\ Becomes(c, Idle) /\ Idle.pc = "idle" /\ UNCHANGED registered
        /\ call[c].pc \in PollPCs /\ call[c].session \in Sessions /\ call[c].held # None
        /\ record' = [record EXCEPT ![call[c].session] = call[c].held]
    BY <1>0, <1>7, AnswerShape, IdleTyped, NoneAssumption DEF Put, CallInOrder, PollPCs
  <2>2. CASE call[c].session # s
    <3>1. ~Polling(c, s) /\ ~Polling(c, s)' /\ record'[s] = record[s]
      BY <1>0, <2>1, <2>2, BecomesTyped DEF Polling, PollPCs, TypeOK
    <3>. QED BY <2>1, <3>1, OncePolledElsewhere
  <2>3. CASE call[c].session = s
    <3>1. Polling(c, s) /\ record'[s] = call[c].held
      BY <1>0, <2>1, <2>3 DEF Polling, TypeOK
    <3>2. \A d \in Callers : ~Polling(d, s)'
      BY <1>0, <2>1, <3>1, BecomesTyped DEF RegisteredOnce, Polling, PollPCs
    <3>3. registered[s] = 1 => call[c].held.connected
      BY <3>1 DEF RegisteredOnce
    <3>. QED BY <2>1, <3>1, <3>2, <3>3 DEF RegisteredOnce
  <2>. QED BY <2>2, <2>3
<1>8. CASE Abandon(c)
  <2>1. Becomes(c, Idle) /\ Idle.pc = "idle" /\ UNCHANGED <<record, registered>>
    BY <1>8, AnswerShape, IdleTyped DEF Abandon, world
  <2>2. call'[c] = Idle /\ \A d \in Callers \ {c} : call'[d] = call[d]
    BY <1>0, <2>1, BecomesTyped
  <2>3. ~(/\ call[c].pc = "put" /\ call[c].session = s
          /\ call[c].held.connected /\ ~call[c].seen)
    BY <1>8 DEF Abandon, Owes
  <2>4. \A d \in Callers : Polling(d, s)' => d # c /\ Polling(d, s)
    BY <2>1, <2>2 DEF Polling, PollPCs
  <2>. QED BY <2>1, <2>2, <2>3, <2>4 DEF RegisteredOnce
<1>. QED
  BY <1>1, <1>2, <1>3, <1>5, <1>6, <1>7, <1>8 DEF Step

LEMMA StaysUndisturbed ==
    ASSUME IInv, Typed, Next, NEW s \in Sessions
    PROVE  Undisturbed(s)'
<1>. SUFFICES ASSUME s \notin overlapped', s \notin lost' PROVE RegisteredOnce(s)'
  BY DEF Undisturbed
<1>1. \A c, d \in Callers : Polling(c, s)' /\ Polling(d, s)' => c = d
  BY DEF Next, Record
<1>2. s \notin overlapped /\ s \notin lost
  BY DEF Next, Record, Step, Begin, StartSession, Create, Cancel, Poll, Sync, Finalize, Put,
         Abandon, EndOAuth, Delete, Rename, Lose
<1>3. RegisteredOnce(s)
  BY <1>2 DEF IInv, Undisturbed
<1>4. CASE \/ \E x \in Sessions : EndOAuth(x)
           \/ \E p \in Providers : Delete(p) \/ Rename(p)
  <2>1. UNCHANGED <<call, record, registered>>
    BY <1>4 DEF EndOAuth, Delete, Rename
  <2>. QED BY <1>3, <2>1 DEF RegisteredOnce, Polling
<1>. QED
  BY <1>1, <1>3, <1>4, StaysRegisteredOnce DEF Next

--------------------------------------------------------------------------------
\* The invariant holds before the first session, and every step keeps it.
LEMMA EveryStepMovesOn ==
    ASSUME IInv, Next
    PROVE  Typed /\ Onward /\ overlapped' \subseteq Sessions
<1>1. Typed /\ Onward
  BY OpeningMovesOn, PollMovesOn, EnvironmentMovesOn DEF Next, Step, IInv
<1>2. overlapped' \subseteq Sessions
  BY DEF Next, Record, IInv, TypeOK
<1>. QED
  BY <1>1, <1>2

LEMMA InductiveInvariant == Spec => []IInv
<1>1. Init => IInv
  <2>. SUFFICES ASSUME Init PROVE IInv
    OBVIOUS
  <2>1. TypeOK
    BY IdleTyped, BoundsAssumption DEF Init, TypeOK
  <2>2. \A c \in Callers : call[c].pc = "idle"
    BY IdleTyped DEF Init
  <2>3. \A c \in Callers : CallInOrder(c) /\ CreateAlone(c)
    BY <2>2 DEF CallInOrder, CreateAlone, OpeningPCs, PollPCs
  <2>4. \A s \in Sessions : RecordInOrder(s) /\ Undisturbed(s)
    <3>. SUFFICES ASSUME NEW s \in Sessions PROVE RecordInOrder(s) /\ Undisturbed(s)
      OBVIOUS
    <3>1. record[s] = None /\ registered[s] = 0
      BY DEF Init
    <3>2. \A c \in Callers : ~Polling(c, s)
      BY <2>2 DEF Polling, PollPCs
    <3>3. RecordInOrder(s)
      BY <3>1 DEF RecordInOrder
    <3>4. RegisteredOnce(s)
      BY <2>2, <3>1, <3>2 DEF RegisteredOnce
    <3>. QED BY <3>3, <3>4 DEF Undisturbed
  <2>5. RegisteredOnlyAuthorized /\ OpenSessionsAreWatched
    BY NoneAssumption DEF Init, RegisteredOnlyAuthorized, OpenSessionsAreWatched, Phases
  <2>. QED BY <2>1, <2>3, <2>4, <2>5 DEF IInv
<1>2. IInv /\ [Next]_vars => IInv'
  <2>. SUFFICES ASSUME IInv, [Next]_vars PROVE IInv'
    OBVIOUS
  <2>1. CASE UNCHANGED vars
    <3>1. TypeOK'
      BY <2>1 DEF vars, IInv, TypeOK
    <3>2. \A c \in Callers : CallInOrder(c)' /\ CreateAlone(c)'
      BY <2>1 DEF vars, IInv, CallInOrder, CreateAlone, Current
    <3>3. \A s \in Sessions : RecordInOrder(s)'
      BY <2>1 DEF vars, IInv, RecordInOrder, Current
    <3>4. \A s \in Sessions : Undisturbed(s)'
      BY <2>1 DEF vars, IInv, Undisturbed, RegisteredOnce, Polling
    <3>5. RegisteredOnlyAuthorized' /\ OpenSessionsAreWatched'
      BY <2>1 DEF vars, IInv, RegisteredOnlyAuthorized, OpenSessionsAreWatched
    <3>. QED BY <3>1, <3>2, <3>3, <3>4, <3>5 DEF IInv
  <2>2. CASE Next
    <3>1. Typed /\ Onward /\ TypeOK'
      BY <2>2, EveryStepMovesOn DEF Typed, TypeOK
    <3>2. \A c \in Callers : CallInOrder(c)' /\ CreateAlone(c)'
      BY <2>2, <3>1, CallsStayInOrder, CreatesStayAlone
    <3>3. \A s \in Sessions : RecordInOrder(s)' /\ Undisturbed(s)'
      BY <2>2, <3>1, RecordsStayInOrder, StaysUndisturbed
    <3>4. RegisteredOnlyAuthorized' /\ OpenSessionsAreWatched'
      BY <2>2, <3>1, AuthorizedOnlyStays, OpenSessionsStayWatched
    <3>. QED BY <3>1, <3>2, <3>3, <3>4 DEF IInv
  <2>. QED BY <2>1, <2>2
<1>. QED
  BY <1>1, <1>2, PTL DEF Spec

\* A session says "succeeded" only when it has registered its provider, and
\* registers it only when the user has authorized it, however polls overlap.
THEOREM SessionsConnectInOrder == Spec => []ConnectedInOrder
<1>1. IInv => ConnectedInOrder
  BY DEF IInv, RecordInOrder, ConnectedInOrder, SucceededMeansRegistered
<1>. QED
  BY <1>1, InductiveInvariant, PTL

\* A session whose polls come one at a time and store what they did registers its
\* provider at most once.
THEOREM SessionsRegisterOnce == Spec => []RegistersOnceUnlessDisturbed
<1>1. ASSUME IInv, NEW s \in Sessions, registered[s] > 1 PROVE s \in overlapped \cup lost
  <2>1. ~(registered[s] <= 1)
    BY <1>1 DEF IInv, TypeOK
  <2>. QED BY <1>1, <2>1 DEF IInv, Undisturbed, RegisteredOnce
<1>2. IInv => RegistersOnceUnlessDisturbed
  BY <1>1 DEF RegistersOnceUnlessDisturbed
<1>. QED
  BY <1>2, InductiveInvariant, PTL

\* No OAuth session the user can authorize is left without a record, unless the
\* code lost an answer on the way.
THEOREM SessionsAreWatched == Spec => []OpenSessionsAreWatched
<1>1. IInv => OpenSessionsAreWatched
  BY DEF IInv
<1>. QED
  BY <1>1, InductiveInvariant, PTL

\* The only step that takes a connection out of a record is the Put of a poll that
\* read the record before the connection.
THEOREM ConnectionsAreKept == Spec => ConnectionKeptUnlessStale
<1>1. ASSUME IInv, [Next]_vars, NEW s \in Sessions, record[s] # None, record[s].connected,
             ~record'[s].connected
      PROVE  \E c \in Callers : Put(c) /\ call[c].session = s /\ ~call[c].seen
  <2>1. record'[s] # record[s]
    BY <1>1
  <2>2. Next
    BY <1>1, <2>1 DEF vars
  <2>3. PICK c \in Callers : /\ call[c].session = s
                             /\ Create(c) \/ (Put(c) /\ record'[s] = call[c].held)
    BY <1>1, <2>1, <2>2, RecordsWritten
  <2>4. ~Create(c)
    BY <1>1, <2>3 DEF IInv, CreateAlone, Create
  <2>5. call[c].seen => call[c].held.connected
    BY <1>1, <2>3, <2>4 DEF IInv, CallInOrder, Put, PollPCs
  <2>. QED BY <1>1, <2>3, <2>4, <2>5
<1>2. IInv /\ [Next]_vars =>
        [\A s \in Sessions :
            record[s] # None /\ record[s].connected /\ ~record'[s].connected
              => \E c \in Callers : Put(c) /\ call[c].session = s /\ ~call[c].seen]_vars
  BY <1>1
<1>. QED
  BY <1>2, InductiveInvariant, PTL DEF Spec, ConnectionKeptUnlessStale

\* A registration takes back a rename only when its session began before it.
THEOREM RenamesAreKept == Spec => RenameKeptUnlessNewer
<1>1. ASSUME IInv, [Next]_vars, NEW c \in Callers, NEW p \in Providers,
             call[c].pc = "finalize", call'[c].pc = "put",
             provider[p] # None, provider'[p] # None,
             provider[p].renamed > 0, provider'[p].name # provider[p].name
      PROVE  call[c].held.target.began < provider[p].renamed
  <2>. DEFINE t == call[c].held.target
  <2>1. /\ call'[c] # call[c] /\ provider' # provider
        /\ Next
    BY <1>1 DEF vars
  <2>2. PICK d \in Callers : Finalize(d)
    BY <2>1 DEF Next, Step, Begin, StartSession, Create, Cancel, Poll, Sync, Put, Abandon,
                EndOAuth, Delete, Rename, world
  <2>3. d = c
    <3>1. \A n : Becomes(d, n) => \A e \in Callers \ {d} : call'[e] = call[e]
      BY <1>1, <2>2, BecomesTyped DEF IInv
    <3>2. \E n : Becomes(d, n)
      BY <1>1, <2>2, FinalizeShape DEF IInv, PollOn
    <3>. QED BY <2>1, <3>1, <3>2
  <2>4. provider' = [provider EXCEPT ![t.id] = [name |-> t.name, renamed |-> 0]]
    BY <2>1, <2>2, <2>3 DEF Finalize
  <2>5. t \in Targets /\ Current(t)
    BY <1>1 DEF IInv, CallInOrder, PollPCs, Records
  <2>6. t.id = p /\ provider'[p].name = t.name
    BY <1>1, <2>4 DEF IInv, TypeOK
  <2>7. t.began \in Nat /\ provider[p].renamed \in Nat
    BY <1>1, <2>5, BoundsAssumption DEF IInv, TypeOK, Targets, Rows
  <2>. QED BY <1>1, <2>5, <2>6, <2>7 DEF Current
<1>2. IInv /\ [Next]_vars =>
        [\A c \in Callers, p \in Providers :
            /\ call[c].pc = "finalize" /\ call'[c].pc = "put"
            /\ provider[p] # None /\ provider'[p] # None
            /\ provider[p].renamed > 0 /\ provider'[p].name # provider[p].name
            => call[c].held.target.began < provider[p].renamed]_vars
  BY <1>1
<1>. QED
  BY <1>2, InductiveInvariant, PTL DEF Spec, RenameKeptUnlessNewer

================================================================================
