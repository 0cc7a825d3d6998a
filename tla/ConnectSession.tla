---------------------------- MODULE ConnectSession ----------------------------
(***************************************************************************)
(* CLI OAuth connect sessions of providerconnect.Service: Connect and      *)
(* Reauthorize open an OAuth session at the auth service and record it in  *)
(* a ConfigMap, every GetSession poll reads the record, brings it up to    *)
(* date with the OAuth session, registers the provider when the user has   *)
(* authorized it, and writes the record back over whatever is stored by    *)
(* then.  Each poll is an activity of a workflow of its own, retried when  *)
(* it fails or times out, so polls of one session overlap.                 *)
(***************************************************************************)
EXTENDS Naturals

CONSTANTS
  Sessions,  \* session ids the OAuth service hands out
  Callers,   \* activities running Connect, Reauthorize or GetSession
  Providers, \* provider ids
  Names,     \* display names
  None,      \* no record, no session, no provider
  MaxPolls,  \* bound: how many polls are ever started
  MaxRenames \* bound: how many renames there ever are

ASSUME BoundsAssumption == MaxPolls \in Nat /\ MaxRenames \in Nat

VARIABLES
  oauth,       \* external: the state of each OAuth session
  record,      \* the session's ConfigMap: a Records, or None
  provider,    \* the rows of the providers: Rows, or None
  drawn,       \* provider ids a Connect has generated
  call,        \* what each caller is executing
  polls,       \* bound counter: polls started so far
  renames,     \* bound counter: renames so far
  registered,  \* history: CreateProvider calls that took effect, per session
  overlapped,  \* history: sessions two polls were in flight for at once
  lost         \* history: sessions with an effect whose outcome was not stored

vars == <<oauth, record, provider, drawn, call, polls, renames, registered, overlapped, lost>>
world == <<oauth, record, provider, renames>>

-------------------------------------------------------------------------------
(* State.  A phase stands for a class of SessionPhase: "open" for pending,   *)
(* awaiting_user and processing, "failed" for failed, expired and canceled.  *)
(* connected says that ConnectedSurfaceID is set.  A target is the snapshot  *)
(* taken when the session began, after as many renames; a row knows the last *)
(* rename that named it, 0 for a name that came with a registration.         *)

Phases == {"open", "succeeded", "failed"}
Rows == [name : Names, renamed : 0 .. MaxRenames]
Targets == [id : Providers, name : Names, began : 0 .. MaxRenames]
Records == [target : Targets, phase : Phases, connected : BOOLEAN]
OpeningPCs == {"create", "cancel"}
PollPCs == {"sync", "finalize", "put"}
Calls ==
  [pc : {"idle", "start"} \cup OpeningPCs \cup PollPCs,
   session : Sessions \cup {None}, target : Targets \cup {None},
   held : Records \cup {None}, seen : BOOLEAN]

ASSUME NoneAssumption ==
  /\ None \notin Sessions \cup Providers
  /\ None \notin Phases /\ None \notin Rows /\ None \notin Targets /\ None \notin Records

Idle == [pc |-> "idle", session |-> None, target |-> None, held |-> None, seen |-> FALSE]

TypeOK ==
  /\ oauth \in [Sessions -> Phases \cup {None}]
  /\ record \in [Sessions -> Records \cup {None}]
  /\ provider \in [Providers -> Rows \cup {None}]
  /\ drawn \subseteq Providers
  /\ call \in [Callers -> Calls]
  /\ polls \in 0 .. MaxPolls
  /\ renames \in 0 .. MaxRenames
  /\ registered \in [Sessions -> Nat]
  /\ overlapped \subseteq Sessions
  /\ lost \subseteq Sessions

Init ==
  /\ oauth = [s \in Sessions |-> None]
  /\ record = [s \in Sessions |-> None]
  /\ provider = [p \in Providers |-> None]
  /\ drawn = {}
  /\ call = [c \in Callers |-> Idle]
  /\ polls = 0
  /\ renames = 0
  /\ registered = [s \in Sessions |-> 0]
  /\ overlapped = {}
  /\ lost = {}

Goto(c, pc) == call' = [call EXCEPT ![c] = [@ EXCEPT !.pc = pc]]
Answer(c) == call' = [call EXCEPT ![c] = Idle]
Lose(c) == lost' = lost \cup {call[c].session}

\* c has changed the world in a way only its remaining steps would record.
Owes(c) ==
  \/ call[c].pc \in OpeningPCs
  \/ call[c].pc = "put" /\ call[c].held.connected /\ ~call[c].seen

-------------------------------------------------------------------------------
(* Connect and Reauthorize.                                                  *)

\* Fault: a reauthorization names the provider anew, as a connect does.
TargetNameAnew(p, name) == TRUE

\* newCLIReauthorizationTarget takes over the name of the provider.
TargetName(p, name) == provider[p] # None => name = provider[p].name

\* A target for a new provider, whose id is generated, or for one that is
\* there.  Reauthorize keeps the id when the provider is deleted meanwhile.
Begin(c) ==
  /\ call[c].pc = "idle"
  /\ \E p \in Providers, name \in Names :
       /\ p \notin drawn \/ provider[p] # None
       /\ TargetName(p, name)
       /\ drawn' = drawn \cup {p}
       /\ call' = [call EXCEPT ![c] =
                     [Idle EXCEPT !.pc = "start",
                                  !.target = [id |-> p, name |-> name, began |-> renames]]]
  /\ UNCHANGED <<world, polls, registered, lost>>

\* StartSession; an OAuth session whose answer does not arrive is left open.
StartSession(c) ==
  /\ call[c].pc = "start"
  /\ \/ \E s \in Sessions :
          /\ oauth[s] = None
          /\ oauth' = [oauth EXCEPT ![s] = "open"]
          /\ \/ /\ call' = [call EXCEPT ![c] = [@ EXCEPT !.pc = "create", !.session = s]]
                /\ UNCHANGED lost
             \/ /\ Answer(c)
                /\ lost' = lost \cup {s}
     \/ /\ Answer(c)
        /\ UNCHANGED <<oauth, lost>>
  /\ UNCHANGED <<record, provider, renames, drawn, polls, registered>>

NewRecord(t) == [target |-> t, phase |-> "open", connected |-> FALSE]

\* Fault: a failed create is reported and the OAuth session left to itself.
CreateWithoutCancel(c) ==
  /\ call[c].pc = "create"
  /\ \/ record' = [record EXCEPT ![call[c].session] = NewRecord(call[c].target)]
     \/ UNCHANGED record
  /\ Answer(c)
  /\ UNCHANGED <<oauth, provider, renames, drawn, polls, registered, lost>>

\* store.create; when it fails, with or without effect, the OAuth session is
\* cancelled.
Create(c) ==
  /\ call[c].pc = "create"
  /\ \/ /\ record' = [record EXCEPT ![call[c].session] = NewRecord(call[c].target)]
        /\ Answer(c) \/ Goto(c, "cancel")
     \/ /\ Goto(c, "cancel")
        /\ UNCHANGED record
  /\ UNCHANGED <<oauth, provider, renames, drawn, polls, registered, lost>>

\* CancelSession, whose error is dropped; a session that has ended stays so.
Cancel(c) ==
  LET s == call[c].session IN
  /\ call[c].pc = "cancel"
  /\ \/ /\ oauth' = [oauth EXCEPT ![s] = IF @ = "open" THEN "failed" ELSE @]
        /\ UNCHANGED lost
     \/ /\ Lose(c)
        /\ UNCHANGED oauth
  /\ Answer(c)
  /\ UNCHANGED <<record, provider, renames, drawn, polls, registered>>

-------------------------------------------------------------------------------
(* GetSession: store.get, Sync, store.put.                                   *)

Poll(c) ==
  /\ call[c].pc = "idle"
  /\ polls < MaxPolls
  /\ polls' = polls + 1
  /\ \E s \in Sessions :
       /\ record[s] # None
       /\ call' = [call EXCEPT ![c] = [Idle EXCEPT !.pc = "sync", !.session = s,
                                                   !.held = record[s],
                                                   !.seen = record[s].connected]]
  /\ UNCHANGED <<world, drawn, registered, lost>>

\* Fault: the OAuth status replaces the connected surface with the rest.
ApplyStatusResetting(r, phase) == [r EXCEPT !.phase = phase, !.connected = FALSE]

\* applyOAuthStatus replaces the phase, whatever it was.
ApplyStatus(r, phase) == [r EXCEPT !.phase = phase]

\* Fault: a connected session is finalized again.
NeedsFinalizeAlways(r) == r.phase = "succeeded"

NeedsFinalize(r) == r.phase = "succeeded" /\ ~r.connected

\* The OAuth session cannot be read: a record that has not ended fails.  It is
\* read: its status is applied, and the provider registered if there is need.
Sync(c) ==
  LET s == call[c].session
      r == call[c].held
      next == ApplyStatus(r, oauth[s])
  IN
  /\ call[c].pc = "sync"
  /\ \/ call' = [call EXCEPT ![c] =
                   [@ EXCEPT !.pc = "put",
                             !.held.phase = IF r.phase = "open" THEN "failed" ELSE r.phase]]
     \/ call' = [call EXCEPT ![c] =
                   [@ EXCEPT !.pc = IF NeedsFinalize(next) THEN "finalize" ELSE "put",
                             !.held = next]]
  /\ UNCHANGED <<world, drawn, polls, registered, lost>>

\* Fault: the failure's message is set and its phase is not.
FailedKeepingPhase(r) == r

\* markFinalizeFailed
Failed(r) == [r EXCEPT !.phase = "failed"]

\* CreateProvider, an upsert: done; done, and the answer is an error; or not.
Finalize(c) ==
  LET s == call[c].session
      r == call[c].held
  IN
  /\ call[c].pc = "finalize"
  /\ \/ /\ provider' = [provider EXCEPT ![r.target.id] = [name |-> r.target.name, renamed |-> 0]]
        /\ registered' = [registered EXCEPT ![s] = @ + 1]
        /\ \/ /\ call' = [call EXCEPT ![c] = [@ EXCEPT !.pc = "put",
                                                       !.held.connected = TRUE]]
              /\ UNCHANGED lost
           \/ /\ call' = [call EXCEPT ![c] = [@ EXCEPT !.pc = "put", !.held = Failed(r)]]
              /\ Lose(c)
     \/ /\ call' = [call EXCEPT ![c] = [@ EXCEPT !.pc = "put", !.held = Failed(r)]]
        /\ UNCHANGED <<provider, registered, lost>>
  /\ UNCHANGED <<oauth, record, renames, drawn, polls>>

\* store.put: on a conflict the same record is written over the newer one.
Put(c) ==
  /\ call[c].pc = "put"
  /\ record' = [record EXCEPT ![call[c].session] = call[c].held]
  /\ Answer(c)
  /\ UNCHANGED <<oauth, provider, renames, drawn, polls, registered, lost>>

\* An error (of store.put, for one), a timeout or the end of the process.
Abandon(c) ==
  /\ call[c].pc # "idle"
  /\ Answer(c)
  /\ lost' = IF Owes(c) THEN lost \cup {call[c].session} ELSE lost
  /\ UNCHANGED <<world, drawn, polls, registered>>

Step(c) ==
  \/ Begin(c) \/ StartSession(c) \/ Create(c) \/ Cancel(c)
  \/ Poll(c) \/ Sync(c) \/ Finalize(c) \/ Put(c) \/ Abandon(c)

-------------------------------------------------------------------------------
(* The environment.                                                          *)

\* The user authorizes the session, refuses, or lets it expire.
EndOAuth(s) ==
  /\ oauth[s] = "open"
  /\ \E phase \in {"succeeded", "failed"} : oauth' = [oauth EXCEPT ![s] = phase]
  /\ UNCHANGED <<record, provider, renames, drawn, call, polls, registered, lost>>

\* DeleteProvider at the provider service.
Delete(p) ==
  /\ provider[p] # None
  /\ provider' = [provider EXCEPT ![p] = None]
  /\ UNCHANGED <<oauth, record, renames, drawn, call, polls, registered, lost>>

\* UpdateProvider at the provider service.
Rename(p) ==
  /\ provider[p] # None /\ renames < MaxRenames
  /\ renames' = renames + 1
  /\ \E name \in Names \ {provider[p].name} :
       provider' = [provider EXCEPT ![p] = [name |-> name, renamed |-> renames']]
  /\ UNCHANGED <<oauth, record, drawn, call, polls, registered, lost>>

Polling(c, s) == call[c].pc \in PollPCs /\ call[c].session = s

Record ==
  overlapped' = overlapped \cup
    {s \in Sessions : \E c, d \in Callers : c # d /\ Polling(c, s)' /\ Polling(d, s)'}

Next ==
  /\ \/ \E c \in Callers : Step(c)
     \/ \E s \in Sessions : EndOAuth(s)
     \/ \E p \in Providers : Delete(p) \/ Rename(p)
  /\ Record

Spec == Init /\ [][Next]_vars

-------------------------------------------------------------------------------
(* Properties.                                                               *)

SucceededMeansRegistered ==
  \A s \in Sessions :
    record[s] # None /\ record[s].phase = "succeeded" =>
      record[s].connected /\ registered[s] > 0

RegisteredOnlyAuthorized ==
  \A s \in Sessions : registered[s] > 0 => oauth[s] = "succeeded"

\* A session reports success only when it has registered its provider: the
\* OAuth phase "succeeded", which every poll applies before the provider is
\* created, is never stored on its own.  And no provider is registered on behalf
\* of a user who has not authorized it.
ConnectedInOrder == TypeOK /\ SucceededMeansRegistered /\ RegisteredOnlyAuthorized

\* A registration replaces a name that a user has given by a rename only if the
\* session began before the rename: reauthorizing renames nothing by itself.
RenameKeptUnlessNewer ==
  [][\A c \in Callers, p \in Providers :
       /\ call[c].pc = "finalize" /\ call'[c].pc = "put"
       /\ provider[p] # None /\ provider'[p] # None
       /\ provider[p].renamed > 0 /\ provider'[p].name # provider[p].name
       => call[c].held.target.began < provider[p].renamed]_vars

\* A session registers its provider once.  A second registration, which puts
\* the provider back to how the session describes it and brings a deleted one
\* back, takes two polls at once or a poll that broke off after the first one.
RegistersOnceUnlessDisturbed ==
  \A s \in Sessions : registered[s] > 1 => s \in overlapped \cup lost

\* A stored connection is undone only by a poll that began before it.
ConnectionKeptUnlessStale ==
  [][\A s \in Sessions :
       record[s] # None /\ record[s].connected /\ ~record'[s].connected
         => \E c \in Callers : Put(c) /\ call[c].session = s /\ ~call[c].seen]_vars

\* An OAuth session the user can still authorize has a record to poll, unless
\* its opening broke off or could not be cancelled.
OpenSessionsAreWatched ==
  \A s \in Sessions :
    oauth[s] = "open" =>
      \/ record[s] # None
      \/ \E c \in Callers : call[c].session = s /\ call[c].pc \in OpeningPCs
      \/ s \in lost
===============================================================================
