------------------------- MODULE GoogleAIStudioQuotas -------------------------
(* The Google AI Studio collector: the project the credential names, its rate   *)
(* limits and the catalogue of quota models, then up to three usage series that *)
(* turn limits into what is left of them.  A series that cannot be read costs   *)
(* the "remaining" rows, not the probe, unless the session is refused.          *)
EXTENDS ObservabilityRows

CONSTANTS StudioProjectIDs, StudioProjects, StudioLimits, StudioModels, StudioSeries

ASSUME StudioAssumption ==
    /\ \A limits \in StudioLimits : IsList(limits) /\ \A l \in Range(limits) : l.value \in Int
    /\ \A series \in StudioSeries : IsList(series) /\ \A point \in Range(series) : point.used \in Int

TextOutput == 4
UsageSeries == << <<"requests", "minute">>, <<"tokens", "minute">>, <<"requests", "day">> >>

QuotaResource(code) ==
    CASE code \in {1, 9} -> "requests" [] code \in {2, 8} -> "tokens"
      [] code = 5 -> "images" [] code = 6 -> "videos" [] OTHER -> "other"

QuotaWindow(code) == CASE code = 1 -> "minute" [] code = 2 -> "day"
                       [] OTHER -> "code_" \o ToString(code)

\* The project an id names; without an id, the only project there is.
ProjectNamed(projects, id) ==
    LET matching == Selected(projects, LAMBDA p : id \in {p.path, p.client})
    IN  IF id = "" THEN (IF Len(projects) = 1 THEN projects ELSE <<>>) ELSE matching

ModelMeta(models) ==
    FoldLeft(LAMBDA index, m : IF m.model = "" THEN index ELSE (m.model :> m) @@ index, <<>>, models)

\* Text output, by the entry's own category code or else the model's, or Gemma.
CategoryOf(entry, meta) ==
    CASE ValueOr(entry.category, meta.category) = TextOutput -> "text_output"
      [] ValueOr(entry.category, meta.category) # TextOutput /\ meta.gemma -> "gemma"
      [] OTHER -> ""

\* Fault: the entries of every tier are taken.
SelectTierAll(hint, entries) == {entries[i].tier : i \in DOMAIN entries}

\* The hinted tier, or else the one with most entries, the lowest among equals.
SelectTier(hint, entries) ==
    LET tiers == {entries[i].tier : i \in DOMAIN entries}
        Count(tier) == Len(Selected(entries, LAMBDA e : e.tier = tier))
        most == {t \in tiers : \A u \in tiers : Count(t) >= Count(u)}
    IN  IF hint > 0 THEN {hint} ELSE IF most = {} THEN {} ELSE {Min(most)}

\* The limits of the selected tier, by model, or <<>> when none is supported.
RateLimits(entries, hint, meta) ==
    LET supported == Selected(entries, LAMBDA e :
            e.model \in DOMAIN meta /\ CategoryOf(e, meta[e.model]) # "")
        tier == SelectTier(hint, supported)
        kept == Selected(supported, LAMBDA e : e.value > 0 /\ e.tier \in tier)
        First(model) == Selected(kept, LAMBDA e : e.model = model)[1]
    IN  [i \in DOMAIN kept |->
           [model |-> kept[i].model, tier |-> kept[i].tier, value |-> kept[i].value,
            category |-> CategoryOf(First(kept[i].model), meta[kept[i].model]),
            preview |-> meta[kept[i].model].preview,
            quota |-> <<QuotaResource(kept[i].resource), QuotaWindow(kept[i].window)>>]]

\* The series worth fetching; none for a tier without a code.
SeriesWanted(limits) ==
    IF \A i \in DOMAIN limits : limits[i].tier <= 0 THEN <<>>
    ELSE Selected(UsageSeries, LAMBDA q : \E i \in DOMAIN limits : limits[i].quota = q)

PointsOf(series, model) == {series[i].used : i \in {j \in DOMAIN series : series[j].model = model}}

\* The largest point of the model in a series, though it be negative; a model the
\* series leaves out used nothing.
UsedOf(series, model) ==
    LET points == PointsOf(series, model) IN IF points = {} THEN 0 ELSE Max(points)

\* What is left of a limit whose series was fetched.
Remaining(limit, fetched) ==
    IF limit.quota \notin DOMAIN fetched THEN <<>>
    ELSE <<NonNegative(limit.value - UsedOf(fetched[limit.quota], limit.model))>>

\* Times are relative to the probe: 60 is the next minute, 86400 the next day.
StudioRows(limits, fetched) ==
    LET RowsOf(limit) ==
            LET labels == [model |-> limit.model, category |-> limit.category,
                           preview |-> limit.preview, quota |-> limit.quota]
                reset == CASE limit.quota[2] = "minute" -> <<60>>
                           [] limit.quota[2] = "day" -> <<86400>> [] OTHER -> <<>>
            IN  <<Row(LimitMetric, labels, limit.value)>>
                \o OptionRow(RemainingMetric, labels, Remaining(limit, fetched))
                \o OptionRow(ResetMetric, labels, reset)
    IN  ForEach(limits, RowsOf)

--------------------------------------------------------------------------------
StudioStart == [at |-> "project id"]

StudioReplies(c) ==
    CASE c.at = "project id" -> OKReplies(StudioProjectIDs) \cup ErrorReplies({"denied", "down"})
      [] c.at = "projects" -> CallReplies(StudioProjects)
      [] c.at = "limits" -> CallReplies(StudioLimits)
      [] c.at = "models" -> CallReplies(StudioModels)
      [] c.at = "series" -> CallReplies(StudioSeries)

NextSeries(limits, wanted, fetched) ==
    IF wanted = <<>> THEN Collected(StudioRows(limits, fetched))
    ELSE [at |-> "series", limits |-> limits, wanted |-> wanted, fetched |-> fetched]

AfterProjects(id, reply) ==
    LET named == ProjectNamed(reply.body, id)
    IN  IF named = <<>> \/ named[1].path = "" THEN Failed
        ELSE [at |-> "limits", hint |-> named[1].tier]

AfterModels(c, reply) ==
    LET meta == ModelMeta(reply.body)
        limits == RateLimits(c.entries, c.hint, meta)
    IN  IF DOMAIN meta = {} \/ limits = <<>> THEN Failed
        ELSE NextSeries(limits, SeriesWanted(limits), <<>>)

\* Fault: a session refused while the series are read passes for a missing series.
AfterSeriesIgnoresRefusal(c, reply) ==
    CASE reply.status = "ok" ->
           NextSeries(c.limits, Tail(c.wanted), Put(c.fetched, Head(c.wanted), reply.body))
      [] reply.status = "garbled" -> Failed
      [] reply.status \notin {"ok", "garbled"} -> Collected(StudioRows(c.limits, <<>>))

\* The series read before one that fails are dropped with it.
AfterSeries(c, reply) ==
    CASE reply.status = "ok" ->
           NextSeries(c.limits, Tail(c.wanted), Put(c.fetched, Head(c.wanted), reply.body))
      [] reply.status = "garbled" -> Failed
      [] reply.status \notin {"ok", "garbled"} ->
           IF CallError(reply) = Refused THEN Refused ELSE Collected(StudioRows(c.limits, <<>>))

StudioNext(c, reply) ==
    CASE c.at = "series" -> AfterSeries(c, reply)
      [] c.at # "series" /\ reply.status # "ok" -> CallError(reply)
      [] c.at = "project id" /\ reply.status = "ok" ->
           IF reply.body.path THEN [at |-> "limits", hint |-> 0]
           ELSE [at |-> "projects", id |-> reply.body.id]
      [] c.at = "projects" /\ reply.status = "ok" -> AfterProjects(c.id, reply)
      [] c.at = "limits" /\ reply.status = "ok" ->
           [at |-> "models", hint |-> c.hint, entries |-> reply.body]
      [] c.at = "models" /\ reply.status = "ok" -> AfterModels(c, reply)
================================================================================
