------------------------------- MODULE ModelCatalog -------------------------------
(* The models of one provider, brought up to date from its vendor: the request is  *)
(* made from the provider and its surface, the auth service gives the headers for  *)
(* its target, the vendor's reply becomes a list of model ids, and the list becomes *)
(* the provider's models.  The write itself, and what may happen to the row         *)
(* meanwhile, is ProviderStore's; the lease around the exchange CatalogProbeLease's. *)
(* The provider is the one some connect command was resolved to.                     *)
(*                                                                                  *)
(* A name in a reply is a sequence of its parts between slashes: <<>> is missing,    *)
(* <<"models", "a">> the resource name of a.                                         *)
EXTENDS ConnectResolution

CONSTANTS Commands,      \* connect commands: [method, surface, base, protocol, credential, models]
          Replies,       \* decoded bodies by response kind
          HasResolver,   \* was the probe given a header resolver?
          NoRef          \* no canonical model is bound

ASSUME CommandsAssumption ==
    \A c \in Commands : /\ c.method \in {"apiKey", "oauth"} /\ c.base \in URLs
                         /\ c.models \in Seq({[id |-> m.id, ref |-> m.ref] : m \in ToSet(c.models)})
ASSUME RepliesAssumption ==
    /\ \A reply \in Replies.openAIModels : \A field \in {"data", "models", "result"} :
          reply[field] \in Seq(ToSet(reply[field]))
    /\ \A reply \in Replies.geminiModels : reply.models \in Seq(ToSet(reply.models))

VARIABLES
    command,    \* history: the command the provider was connected with
    provider,   \* the stored provider
    sync        \* the synchronization under way

vars == <<command, provider, sync>>

-----------------------------------------------------------------------------------
(* The request.                                                                    *)

\* normalizeSurface: a surface with an endpoint has a probe, named after it.
ProbeOf(id) ==
    LET surface == Surfaces[id]
    IN  IF surface.probe = "" /\ Endpoints(surface) # <<>> THEN id ELSE surface.probe

APIKeyOperation(protocol) ==
    [override |-> NoURL, path |-> <<"models">>,
     kind |-> IF protocol = "gemini" THEN "geminiModels" ELSE "openAIModels"]

\* Cloudflare lists its models beside the base URL of its OpenAI interface.
Operation(probe, protocol, base) ==
    IF probe = "cloudflare-workers-ai"
    THEN [override |-> IF base.path # <<>> /\ Last(base.path) = "v1"
                       THEN [base EXCEPT !.path = Front(base.path)] ELSE base,
          path |-> <<"models", "search">>, kind |-> "openAIModels"]
    ELSE APIKeyOperation(protocol)

\* The request of a custom surface, which needs no entry in the registry.
CustomRequest(account) ==
    [base |-> account.custom[1].base, protocol |-> account.custom[1].protocol,
     credential |-> account.credential,
     operation |-> APIKeyOperation(account.custom[1].protocol)]

IsCustom(account) ==
    /\ account.surface = "custom.api" /\ account.custom # <<>>
    /\ account.custom[1].protocol \in {"openai-compatible", "openai-responses"}

\* Fault: the surface's base URL is asked whatever the provider's own.
RequestOfSurface(account) ==
    LET endpoint == DefaultEndpoint(account.surface)
    IN  [base |-> endpoint.base, protocol |-> endpoint.protocol, credential |-> account.credential,
         operation |-> Operation(ProbeOf(account.surface), endpoint.protocol, endpoint.base)]

\* A provider's own base URL and protocol take the place of the surface's.
SurfaceRequest(account) ==
    LET endpoint == DefaultEndpoint(account.surface)
        base == IF account.custom # <<>> /\ account.custom[1].base # NoURL
                THEN account.custom[1].base ELSE endpoint.base
        protocol == IF account.custom # <<>> /\ account.custom[1].protocol # ""
                    THEN account.custom[1].protocol ELSE endpoint.protocol
    IN  [base |-> base, protocol |-> protocol, credential |-> account.credential,
         operation |-> Operation(ProbeOf(account.surface), protocol, base)]

Probeable(account) ==
    \/ IsCustom(account)
    \/ /\ account.surface \in DOMAIN Surfaces
       /\ ProbeOf(account.surface) # "" /\ Endpoints(Surfaces[account.surface]) # <<>>

Request(account) == IF IsCustom(account) THEN CustomRequest(account) ELSE SurfaceRequest(account)

\* operationURL: where the request goes.
URL(request) ==
    LET base == IF request.operation.override # NoURL THEN request.operation.override
                ELSE request.base
    IN  [base EXCEPT !.path = @ \o request.operation.path]

\* Fault: the operation's own base URL is forgotten.
TargetOfBase(request) == [request.base EXCEPT !.path = @ \o request.operation.path]

\* catalogProbeTarget: what the headers are asked for.
Target(request) ==
    LET base == IF request.operation.override # NoURL THEN request.operation.override
                ELSE request.base
    IN  [base EXCEPT !.path = @ \o request.operation.path]

-----------------------------------------------------------------------------------
(* The reply.                                                                      *)

Normalized(name) == IF Len(name) > 1 /\ Head(name) = "models" THEN Tail(name) ELSE name

FirstNonEmpty(names) == FoldRight(LAMBDA name, rest : IF name = <<>> THEN rest ELSE name, names, <<>>)

OpenAIName(item) == Normalized(FirstNonEmpty(<<item.id, item.name, item.model, item.slug>>))

GeminiName(item) ==
    IF Normalized(item.base) # <<>> THEN Normalized(item.base) ELSE Normalized(item.name)

MapSeq(s, Op(_)) == [i \in DOMAIN s |-> Op(s[i])]

Names(kind, reply) ==
    IF kind = "geminiModels" THEN MapSeq(reply.models, GeminiName)
    ELSE MapSeq(reply.data \o reply.models \o reply.result, OpenAIName)

\* Fault: a name that is listed twice is collected twice.
CollectAll(names) == SelectSeq(names, LAMBDA name : name # <<>>)

\* collectModelIDs: a name not seen before is appended to those that were.
Collecting(before, name) ==
    IF name = <<>> \/ Contains(before, name) THEN before ELSE Append(before, name)

Collected(names) ==
    LET out[n \in 0 .. Len(names)] ==
            IF n = 0 THEN <<>> ELSE Collecting(out[n - 1], names[n])
    IN  out

Collect(names) == Collected(names)[Len(names)]

\* The filter knows rules for Google's models and is given no vendor, so it drops
\* nothing, and resolveModelRef, given none either, binds nothing.  Of two models of
\* one id the last one's binding is kept.
RefOf(models, id) ==
    LET bound == {i \in DOMAIN models : models[i].id = id /\ models[i].ref # NoRef}
    IN  IF bound = {} THEN NoRef ELSE models[Max(bound)].ref

\* Fault: a model keeps the binding of the model that had its place.
MergedByPlace(models, ids) ==
    [i \in DOMAIN ids |-> [id |-> ids[i], ref |-> IF i \in DOMAIN models THEN models[i].ref ELSE NoRef]]

\* modelsFromModelIDs, unless modelsAlreadyCurrent.
Merged(models, ids) == [i \in DOMAIN ids |-> [id |-> ids[i], ref |-> RefOf(models, ids[i])]]

IDs(models) == [i \in DOMAIN models |-> models[i].id]

-----------------------------------------------------------------------------------
Idle == [at |-> "idle", request |-> {}, granted |-> {}, reply |-> {}]

Init ==
    /\ command \in {c \in Commands : Resolves(c)}
    /\ provider = TargetProvider(command)
    /\ sync = Idle

\* A synchronization reads the provider.  Without a probe it ends with nothing
\* changed; without a resolver, since every operation is a secured one, in an
\* error, as it does for an unknown surface.
Begin ==
    /\ sync.at = "idle"
    /\ Probeable(provider) /\ HasResolver /\ provider.credential # ""
    /\ sync' = [sync EXCEPT !.at = "policy", !.request = {Request(provider)}]
    /\ UNCHANGED provider

Fail == sync' = Idle /\ UNCHANGED provider

\* GetEgressAuthPolicy: there is a policy with headers and rules, or not.
Policy ==
    /\ sync.at = "policy"
    /\ \/ sync' = [sync EXCEPT !.at = "headers"] /\ UNCHANGED provider
       \/ Fail

\* ResolveEgressRequestHeaders: headers for the target, none, or an error.
Headers ==
    /\ sync.at = "headers"
    /\ \/ /\ sync' = [sync EXCEPT !.at = "fetch",
                        !.granted = {[url |-> Target(r), credential |-> r.credential] : r \in sync.request}]
          /\ UNCHANGED provider
       \/ Fail

\* The exchange: a URL that cannot be asked, any status but a success and a body
\* that cannot be decoded are errors.
Fetch ==
    /\ sync.at = "fetch"
    /\ \/ /\ \A request \in sync.request :
               /\ URL(request).host # ""
               /\ \E reply \in Replies[request.operation.kind] :
                     sync' = [sync EXCEPT !.at = "reply", !.reply = {reply}]
          /\ UNCHANGED provider
       \/ Fail

\* The reply becomes the provider's models; one that lists none is an error.
Materialize ==
    /\ sync.at = "reply"
    /\ \E request \in sync.request, reply \in sync.reply :
          LET ids == Collect(Names(request.operation.kind, reply))
          IN  provider' = IF ids = <<>> \/ ids = IDs(provider.models) THEN provider
                          ELSE [provider EXCEPT !.models = Merged(provider.models, ids)]
    /\ sync' = Idle

Next == (Begin \/ Policy \/ Headers \/ Fetch \/ Materialize) /\ UNCHANGED command

Spec == Init /\ [][Next]_vars

-----------------------------------------------------------------------------------
(* Properties.                                                                     *)

First(names, id) == CHOOSE i \in DOMAIN names : names[i] = id /\ \A j \in 1..(i - 1) : names[j] # id

\* The credential's headers are asked for the very URL the request then goes to,
\* though each of them works it out for itself, and for the provider's own
\* credential.
AskedAsAuthorized ==
    \A request \in sync.request, granted \in sync.granted :
        granted = [url |-> URL(request), credential |-> provider.credential]

\* The vendor is asked at the base URL the user connected the provider with, with
\* every field of a surface's template filled in, and by that protocol: the surface's
\* where the user had none to give.
AskedWhereConnected ==
    \A request \in sync.request :
        /\ command.surface # "custom.api" => ~IsTemplate(URL(request))
        /\ request.base = IF command.base = NoURL THEN DefaultEndpoint(command.surface).base
                          ELSE command.base
        /\ request.protocol = IF command.protocol = "" THEN DefaultEndpoint(command.surface).protocol
                              ELSE command.protocol

\* A list that changes is the reply's: every name the reply mentions, once, in the
\* order in which they are first mentioned.
ListFollowsReply ==
    [][provider'.models # provider.models =>
         \A request \in sync.request, reply \in sync.reply :
             LET names == Names(request.operation.kind, reply)
                 ids == IDs(provider'.models)
             IN  /\ ToSet(ids) = ToSet(names) \ {<<>>}
                 /\ \A i, j \in DOMAIN ids : i < j => First(names, ids[i]) < First(names, ids[j])]_vars

\* A model that stays listed keeps its canonical model, wherever it moves in the
\* list, no other gets one, and a provider with models is never left without.
BindingsStay ==
    [][/\ provider.models # <<>> => provider'.models # <<>>
       /\ \A now \in ToSet(provider'.models) :
             LET before == {m \in ToSet(provider.models) : m.id = now.id}
             IN  IF before = {} THEN now.ref = NoRef ELSE now \in before]_vars
===================================================================================
