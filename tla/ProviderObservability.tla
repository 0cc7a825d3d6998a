------------------------- MODULE ProviderObservability -------------------------
(* The quota probe of a provider: the observability service finds the provider   *)
(* and the collector its surface names, the surface runner lets the collector    *)
(* talk to the vendor and records the rows it returns, gauge by gauge.           *)
(* Several probes of one provider may run at once: a scheduled one and a user's, *)
(* or one whose activity timed out and the retry of it.                          *)
EXTENDS MistralBilling, CerebrasQuotas, CodeAssistQuotas, GoogleAIStudioQuotas, ConsoleQuotas

CONSTANTS Tasks,             \* calls of ProbeProvider
          Schemas,           \* the quota probe ids a surface may name, known or not
          AuthConfigured,    \* was the runner given an auth client?
          SurfaceHost        \* the host of the surface's base URL, "" if not passed on

CollectorIDs == {"mistral-billing", "cerebras-quotas", "gemini-cli", "antigravity",
                 "google-aistudio-quotas", "codex", "internlm-quotas",
                 "meituan-longcat-token-usage", "openrouter-quotas", "minimax-remains"}

VARIABLES
    schema,    \* the quota probe id of the provider's surface
    exists,    \* is the provider stored?
    probe,     \* the state of every call
    gauges     \* the metric store: what each gauge shows

vars == <<schema, exists, probe, gauges>>

--------------------------------------------------------------------------------
(* The collectors behind their one interface, selected by the quota probe id.    *)
CollectStart(id) ==
    CASE id = "mistral-billing" -> IF AuthConfigured THEN MistralStart ELSE Failed
      [] id = "google-aistudio-quotas" -> IF AuthConfigured THEN StudioStart ELSE Failed
      [] id = "minimax-remains" -> MinimaxStart(SurfaceHost)
      [] id = "cerebras-quotas" -> CerebrasStart
      [] id = "gemini-cli" -> GeminiStart
      [] id = "antigravity" -> AntigravityStart
      [] id = "codex" -> CodexStart
      [] id = "internlm-quotas" -> InternlmStart
      [] id = "meituan-longcat-token-usage" -> MeituanStart
      [] id = "openrouter-quotas" -> OpenRouterStart

CollectReplies(id, c) ==
    CASE id = "mistral-billing" -> MistralReplies(c)
      [] id = "google-aistudio-quotas" -> StudioReplies(c)
      [] id = "minimax-remains" -> MinimaxReplies(c)
      [] id = "cerebras-quotas" -> CerebrasReplies(c)
      [] id = "gemini-cli" -> GeminiReplies(c)
      [] id = "antigravity" -> AntigravityReplies(c)
      [] id = "codex" -> CodexReplies(c)
      [] id = "internlm-quotas" -> InternlmReplies(c)
      [] id = "meituan-longcat-token-usage" -> MeituanReplies(c)
      [] id = "openrouter-quotas" -> OpenRouterReplies(c)

CollectNext(id, c, reply) ==
    CASE id = "mistral-billing" -> MistralNext(c, reply)
      [] id = "google-aistudio-quotas" -> StudioNext(c, reply)
      [] id = "minimax-remains" -> MinimaxNext(c, reply)
      [] id = "cerebras-quotas" -> CerebrasNext(c, reply)
      [] id = "gemini-cli" -> GeminiNext(c, reply)
      [] id = "antigravity" -> AntigravityNext(c, reply)
      [] id = "codex" -> CodexNext(c, reply)
      [] id = "internlm-quotas" -> InternlmNext(c, reply)
      [] id = "meituan-longcat-token-usage" -> MeituanNext(c, reply)
      [] id = "openrouter-quotas" -> OpenRouterNext(c, reply)

--------------------------------------------------------------------------------
\* The denials no collector tells from another error: Code Assist returns an
\* untyped error for 401 and 403, Cerebras goes on without usage, and OpenRouter
\* does not look at the status of an error, only for two phrases in its words.
Untyped ==
    ({"gemini-cli", "antigravity"} \X {"load", "onboard", "poll", "quota"} \X {"unauthorized"})
        \cup ({"cerebras-quotas"} \X {"usage"} \X Denials)
        \cup {<<"openrouter-quotas", "probe", "unauthorized">>}

\* The reply denies the exchange, in a way its collector can tell.
Told(id, at, reply) == reply.status \in Denials /\ <<id, at, reply.status>> \notin Untyped

\* rows: what is still to be recorded.  read: all rows of an executed probe.
\* mixed: did another probe record while this one did, or after?
\* misses: the exchanges that did not succeed, as <<where, told of a denial?>>.
Idle == [step |-> "idle", c |-> Failed, rows |-> <<>>, read |-> <<>>, mixed |-> FALSE,
         asked |-> FALSE, misses |-> {}, outcome |-> ""]

Ended(p, outcome) == [p EXCEPT !.step = "done", !.outcome = outcome]

\* The runner's view of a collection: an authentication error blocks the probe,
\* any other error fails it, rows are recorded.
Settled(p, c) ==
    CASE c.at = "collected" ->
           IF c.rows = <<>> THEN Ended(p, "executed")
           ELSE [p EXCEPT !.step = "record", !.rows = c.rows, !.read = c.rows]
      [] c.at = "refused" -> Ended(p, "auth_blocked")
      [] c.at = "failed" -> Ended(p, "failed")
      [] c.at \notin Terminal -> [p EXCEPT !.step = "collect", !.c = c]

Init ==
    /\ schema \in Schemas
    /\ exists = TRUE
    /\ probe = [t \in Tasks |-> Idle]
    /\ gauges = <<>>

\* The service lists the providers and asks which capability supports this one.
Find(t) ==
    /\ probe[t].step = "idle"
    /\ probe' = [probe EXCEPT ![t] =
           CASE ~exists -> Ended(@, "not_found")
             [] exists /\ schema \notin CollectorIDs -> Ended(@, "unsupported")
             [] exists /\ schema \in CollectorIDs -> [@ EXCEPT !.step = "found"]]
    /\ UNCHANGED <<schema, exists, gauges>>

\* The runner reads the provider again, then starts its collector.
Get(t) ==
    /\ probe[t].step = "found"
    /\ probe' = [probe EXCEPT ![t] =
           IF exists THEN Settled(@, CollectStart(schema)) ELSE Ended(@, "not_found")]
    /\ UNCHANGED <<schema, exists, gauges>>

\* One exchange with the vendor or the auth service.
Exchange(t) ==
    /\ probe[t].step = "collect"
    /\ \E reply \in CollectReplies(schema, probe[t].c) :
       \E next \in {CollectNext(schema, probe[t].c, reply)} :
           probe' = [probe EXCEPT ![t] =
               LET missed == IF reply.status \in {"ok", "headers", "throttled"} THEN {}
                             ELSE {<<probe[t].c.at, Told(schema, probe[t].c.at, reply)>>}
               IN  Settled([probe[t] EXCEPT !.asked = TRUE, !.misses = @ \cup missed], next)]
    /\ UNCHANGED <<schema, exists, gauges>>

\* recordCollectorValues takes no lock around its loop.
RecordRow(t) ==
    /\ probe[t].step = "record"
    /\ gauges' = Record(gauges, Head(probe[t].rows))
    /\ probe' = [u \in Tasks |->
           IF u = t
           THEN LET rest == [probe[t] EXCEPT !.rows = Tail(@)]
                IN  IF rest.rows = <<>> THEN Ended(rest, "executed") ELSE rest
           ELSE [probe[u] EXCEPT !.mixed = @ \/ probe[u].read # <<>>]]
    /\ UNCHANGED <<schema, exists>>

\* The provider is deleted; its gauges stay as they are.
DeleteProvider ==
    /\ exists
    /\ exists' = FALSE
    /\ UNCHANGED <<schema, probe, gauges>>

Step(t) == Find(t) \/ Get(t) \/ Exchange(t) \/ RecordRow(t)

\* Every call has returned.
Finished == (\A t \in Tasks : probe[t].step = "done") /\ UNCHANGED vars

Next == (\E t \in Tasks : Step(t)) \/ DeleteProvider \/ Finished

Spec == Init /\ [][Next]_vars

\* A call that was made is carried on: an exchange that hangs is cancelled by the
\* activity's StartToClose timeout and ends as unreachable.
FairSpec == Spec /\ \A t \in Tasks : WF_vars(Get(t)) /\ WF_vars(Exchange(t)) /\ WF_vars(RecordRow(t))

--------------------------------------------------------------------------------
Steps == {"idle", "found", "collect", "record", "done"}
Outcomes == {"", "executed", "auth_blocked", "unsupported", "failed", "not_found"}

\* What a probe reads is a list of rows.
ReadsAreLists == \A t \in Tasks : IsList(probe[t].read)

\* Calls, steps and outcomes are of their types; only an ended call has an
\* outcome, and gauges show numbers.
TypeOK ==
    /\ ReadsAreLists
    /\ schema \in Schemas /\ exists \in BOOLEAN
    /\ \A t \in Tasks :
          /\ probe[t].step \in Steps /\ probe[t].outcome \in Outcomes
          /\ probe[t].outcome # "" <=> probe[t].step = "done"
          /\ probe[t].mixed \in BOOLEAN /\ probe[t].asked \in BOOLEAN
    /\ \A gauge \in DOMAIN gauges : gauges[gauge] \in Int

Reading(t) == probe[t].outcome = "executed" \/ probe[t].step = "record"

\* The exchanges a collector may lose and still report a reading.
BestEffort == {<<"cerebras-quotas", "quotas">>, <<"cerebras-quotas", "usage">>,
               <<"google-aistudio-quotas", "series">>, <<"antigravity", "models">>}

\* A probe that reports success has made every exchange its reading rests on: it
\* lost at most the ones the collectors treat as best effort.
ExecutedReadEverything ==
    \A t \in Tasks : Reading(t) =>
        \A miss \in probe[t].misses : <<schema, miss[1]>> \in BestEffort

\* A call that asked ends "auth_blocked" exactly when an exchange was denied,
\* the untyped denials apart: a refused credential is never reported as a broken
\* service or as a success, nor a broken service as a refused credential, an
\* error being OpenRouter's and MiniMax's word for what it is.
AuthBlockedIffDenied ==
    \A t \in Tasks : (probe[t].step = "done" /\ probe[t].asked) =>
        (probe[t].outcome = "auth_blocked" <=>
            \E miss \in probe[t].misses : miss[2])

\* Where no other probe recorded during or after it, an executed probe's reading
\* is what the gauges show, the last row of a gauge the one that counts.
GaugesShowLastProbe ==
    \A t \in Tasks : (probe[t].outcome = "executed" /\ ~probe[t].mixed) =>
        LET read == probe[t].read
        IN  \A i \in DOMAIN read :
               (\A j \in DOMAIN read : j > i => GaugeOf(read[j]) # GaugeOf(read[i]))
                   => gauges[GaugeOf(read[i])] = read[i].value

\* AI Studio offers a series that counts the model's usage that far below nothing.
CountedBelow(model, amount) ==
    \E series \in StudioSeries :
        LET points == PointsOf(series, model)
        IN  points # {} /\ \A used \in points : used + amount <= 0

\* What is left of a limit is no less than nothing and no more than the limit,
\* unless the vendor counts usage below nothing: a row says so, or, of AI Studio's
\* usage, which has no row, a series that makes up for the excess.
WithinLimits(id, rows) ==
    LET Alike(row, metric) == {r \in Range(rows) : r.metric = metric /\ r.labels = row.labels}
    IN  \A left \in {r \in Range(rows) : r.metric = RemainingMetric} :
           Alike(left, LimitMetric) # {} =>
               /\ left.value >= 0
               /\ \/ \E limit \in Alike(left, LimitMetric) : left.value <= limit.value
                  \/ \E used \in Alike(left, UsageMetric) : used.value < 0
                  \/ /\ id = "google-aistudio-quotas"
                     /\ \E limit \in Alike(left, LimitMetric) :
                           CountedBelow(left.labels.model, left.value - limit.value)

\* MiniMax states what is left and the limit itself: nothing is computed.
RemainingWithinLimit == \A t \in Tasks : schema # "minimax-remains" => WithinLimits(schema, probe[t].read)

TotalOfModels(rows) ==
    LET Costs(scope) == Values(Selected(rows, LAMBDA r : r.metric = CostMetric /\ r.labels.scope = scope))
    IN  /\ Len(Costs("total")) <= 1
        /\ Costs("total") # <<>> => Costs("total")[1] = Total(Costs("model"))

TotalIsSumOfModels == \A t \in Tasks : schema = "mistral-billing" => TotalOfModels(probe[t].read)

\* What a collector computes adds up: what is left of a limit lies between 0 and
\* the limit, however far usage has overdrawn it, unless the vendor states a
\* negative usage (neither InternLM's nor AI Studio's is clamped; of AI Studio's
\* limit no more is left than it and that usage make together), and the total cost
\* of a Mistral reading is the sum of its models' costs over all categories.
ReadingsAddUp == TypeOK /\ RemainingWithinLimit /\ TotalIsSumOfModels

\* The vendors list a quota once: Cerebras an organization, and a model in a region
\* of it, AI Studio what a tier may use of a model in a window, Antigravity and
\* MiniMax a model.  Nothing in the collectors makes sure of it.
QuotasListedOnce ==
    /\ \A organizations \in CerebrasOrganizations :
          LET orgs == InOrder(organizations)
          IN  \A i, j \in DOMAIN orgs : orgs[i].id = orgs[j].id => i = j
    /\ \A quotas \in CerebrasLimits : \A q, r \in Range(quotas) :
          q.model = r.model /\ q.region = r.region => q = r
    /\ \A entries \in StudioLimits : \A e, f \in Range(entries) :
          /\ e.value > 0 /\ f.value > 0 /\ e.model = f.model /\ e.tier = f.tier
          /\ QuotaResource(e.resource) = QuotaResource(f.resource)
          /\ QuotaWindow(e.window) = QuotaWindow(f.window)
          => e.value = f.value
    /\ \A models \in AntigravityModels : \A m, n \in Range(models) :
          m.supported /\ n.supported /\ m.model = n.model => m = n
    /\ \A entries \in MinimaxRemains : \A e, f \in Range(entries) :
          e.supported /\ f.supported /\ e.model = f.model => e = f

\* The quota collectors, whose vendors list a quota once, never read two values
\* for one gauge, so the order of the rows does not matter: in particular AI
\* Studio's limits of several tiers are not mixed.
RowsDoNotCompete ==
    \A t \in Tasks : schema \notin {"mistral-billing", "openrouter-quotas", "meituan-longcat-token-usage"} =>
        \A left \in Range(probe[t].read), right \in Range(probe[t].read) :
            GaugeOf(left) = GaugeOf(right) => left.value = right.value

ScarcestOfLists ==
    LET buckets == UNION {Range(list) : list \in GeminiBuckets}
    IN  \A list \in BoundedSeq(buckets, 3), group \in Range(GeminiGroups) :
           LET percents == {b.percent[1] : b \in {x \in Range(list) :
                                x.group = group /\ ~Absent(x.percent)}}
           IN  GroupSummary(list, group).percent =
                   IF percents = {} THEN <<>> ELSE <<ClampPercent(Min(percents))>>

\* The percentage a Gemini probe shows for a group is the scarcest of its
\* buckets', whatever their order, for every short list of the buckets offered.
ScarcestBucketShown == schema = "gemini-cli" => ScarcestOfLists

\* A call that found its provider returns, however long Code Assist keeps an
\* onboarding operation open and however many endpoints fail.
EveryProbeEnds == \A t \in Tasks : probe[t].step = "found" ~> probe[t].step = "done"

\* "quotaProbeId: mistral-billing", "quotaProbeId: minimax-remains": a probe of a
\* surface that declares a quota probe asks the vendor before it fails.
DeclaredQuotaIsAsked ==
    \A t \in Tasks : probe[t].outcome = "failed" => probe[t].asked
================================================================================
