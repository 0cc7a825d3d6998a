----------------------------- MODULE ConnectResolution -----------------------------
(* What a connect command is resolved to: the provider that is registered with an   *)
(* API key, or when the OAuth session of a CLI has succeeded, or none.  APIKeyConnect *)
(* and ConnectSession have the calls around it, ModelCatalog what becomes of the     *)
(* provider.                                                                        *)
(*                                                                                  *)
(* A URL is a host, "" if it is none that can be asked, and the parts of its path;   *)
(* the part Field of a template is to be filled in, as Cloudflare's account id.      *)
EXTENDS Integers, Sequences, SequencesExt

CONSTANT Surfaces    \* the registered surfaces by id: [probe, cli, endpoints]

NoURL == [host |-> "", path |-> <<>>]
Field == "{}"

\* The endpoints of a surface of an API: those with a protocol and a base URL.
Endpoints(surface) ==
    SelectSeq(surface.endpoints, LAMBDA e : e.protocol # "" /\ e.base # NoURL)

HasAPI(id) == id \in DOMAIN Surfaces /\ Surfaces[id].cli = "" /\ Endpoints(Surfaces[id]) # <<>>
DefaultEndpoint(id) == Head(Endpoints(Surfaces[id]))

URLs == [host : STRING, path : Seq(STRING)]

\* A surface is one of a CLI or one of an API.
ASSUME SurfacesAssumption ==
    \A id \in DOMAIN Surfaces :
        IF Surfaces[id].cli # "" THEN Endpoints(Surfaces[id]) = <<>>
        ELSE HasAPI(id) => DefaultEndpoint(id).base \in URLs

IsTemplate(url) == Contains(url.path, Field)

\* The pattern of a template: any text without a slash in place of a field.
Fills(template, url) ==
    /\ url.host = template.host /\ Len(url.path) = Len(template.path)
    /\ \A i \in DOMAIN url.path : template.path[i] \in {Field, url.path[i]}

\* Fault: a template is accepted for one of its values.
BaseAcceptedAnyhow(template, given) ==
    IF IsTemplate(template) THEN Fills(template, given) ELSE given \in {NoURL, template}

\* resolveSurfaceAPIKeyBaseURL: a template needs a URL with all its fields filled
\* in, and no other base URL may be given a value.
BaseAccepted(template, given) ==
    IF IsTemplate(template) THEN Fills(template, given) /\ ~IsTemplate(given)
    ELSE given \in {NoURL, template}

IsCustomAPIKey(command) == command.method = "apiKey" /\ command.surface = "custom.api"

ResolvesCustom(command) == command.base # NoURL /\ command.protocol # ""

ResolvesSurface(command) ==
    /\ command.protocol = ""
    /\ HasAPI(command.surface)
    /\ BaseAccepted(DefaultEndpoint(command.surface).base, command.base)

\* The CLI of the surface, whose OAuth flow is asked for next.
ResolvesOAuth(command) ==
    command.surface \in DOMAIN Surfaces /\ Surfaces[command.surface].cli # ""

Resolves(command) ==
    IF command.method = "oauth" THEN ResolvesOAuth(command)
    ELSE IF IsCustomAPIKey(command) THEN ResolvesCustom(command) ELSE ResolvesSurface(command)

\* The base URL and protocol that are the provider's own, if any.
OwnEndpoint(command) ==
    IF command.method = "oauth" THEN <<>>
    ELSE IF IsCustomAPIKey(command) THEN <<[base |-> command.base, protocol |-> command.protocol]>>
    ELSE LET endpoint == DefaultEndpoint(command.surface)
         IN  IF IsTemplate(endpoint.base)
             THEN <<[base |-> command.base, protocol |-> endpoint.protocol]>> ELSE <<>>

\* The models a command gives are for its surface and become the provider's.
GivenModels(command) == IF command.method = "oauth" THEN <<>> ELSE command.models

\* connectTarget.Provider: the provider that is registered.
TargetProvider(command) ==
    [surface |-> command.surface, custom |-> OwnEndpoint(command),
     credential |-> command.credential, models |-> GivenModels(command)]
====================================================================================
