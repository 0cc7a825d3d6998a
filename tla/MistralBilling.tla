---------------------------- MODULE MistralBilling ----------------------------
(* The Mistral admin-console collector: two exchanges with a browser session,   *)
(* the month's usage with its prices and the limits, parsed into gauge rows.    *)
(* Go visits the JSON maps in any order: a body lists a map's entries in the    *)
(* order of the visit.  Missing, negative or infinite numbers are 0.            *)
EXTENDS ObservabilityRows

CONSTANTS MistralUsages, MistralLimits    \* the decoded bodies an instance offers

\* Arrays decode to lists and numbers to numbers.
ASSUME MistralAssumption ==
    /\ \A usage \in MistralUsages :
          /\ IsList(usage.models) /\ IsList(usage.prices) /\ usage.endDate \in Int
          /\ \A m \in Range(usage.models), type \in {"input", "output", "cached"} :
                IsList(m[type]) /\ \A entry \in Range(m[type]) : {entry.value, entry.paid} \subseteq Int
          /\ \A p \in Range(usage.prices) : p.price \in Int
    /\ \A limits \in MistralLimits :
          /\ {limits.limit, limits.usage, limits.vibe, limits.total} \subseteq Int
          /\ IsList(limits.tokens) /\ \A m \in Range(limits.tokens) : {m.minute, m.month} \subseteq Int
          /\ IsList(limits.requests) /\ \A m \in Range(limits.requests) : m.second \in Int

Categories == <<"completion", "ocr", "connectors", "audio", "libraries_api.pages",
                "libraries_api.tokens", "fine_tuning.training", "fine_tuning.storage">>

\* A model's id is the pair around "::", its display id what is left of it.
Display(id) == id[1]
BillingID(id, entry) == IF entry.metric # "" THEN entry.metric ELSE Display(id)
ModelLabel(id, entry) == IF entry.label # "" THEN entry.label ELSE Display(id)

FirstPositive(a, b) == IF a > 0 THEN a ELSE NonNegative(b)
UsageValue(entry) == FirstPositive(entry.value, entry.paid)
BillableValue(entry) == FirstPositive(entry.paid, entry.value)

\* The last valid price of a metric and group counts.
PriceIndex(prices) ==
    LET Key(i) == <<prices[i].metric, prices[i].group>>
        valid == {i \in DOMAIN prices :
                     prices[i].metric # "" /\ prices[i].group # "" /\ prices[i].price > 0}
    IN  [key \in {Key(i) : i \in valid} |-> prices[Max({i \in valid : Key(i) = key})].price]

EntryCost(entry, prices) ==
    LET key == <<entry.metric, entry.group>>
    IN  IF key \in DOMAIN prices THEN BillableValue(entry) * prices[key] ELSE 0

\* A model's entries summed per billing id, each with the last entry's label.
Aggregates(id, entries, amounts) ==
    LET Billed(key) == {i \in DOMAIN entries : BillingID(id, entries[i]) = key}
        Group(key) == [billing |-> key, label |-> ModelLabel(id, entries[Max(Billed(key))]),
                       value |-> Total([i \in DOMAIN entries |->
                                            IF i \in Billed(key) THEN amounts[i] ELSE 0])]
        groups == {Group(BillingID(id, entries[i])) : i \in DOMAIN entries}
    IN  SetToSeq({g \in groups : g.value > 0})

TokenRows(model) ==
    LET OfType(type) ==
            LET amounts == [i \in DOMAIN model[type] |-> UsageValue(model[type][i])]
                totals == Aggregates(model.id, model[type], amounts)
            IN  [i \in DOMAIN totals |->
                   Row(TokensMetric, [model |-> totals[i].billing, request |-> Display(model.id),
                                      label |-> totals[i].label, type |-> type], totals[i].value)]
    IN  OfType("input") \o OfType("output") \o OfType("cached")

CostAggregates(model, prices) ==
    LET Cost(entry) == EntryCost(entry, prices)
        priced == Selected(model.input \o model.output \o model.cached, LAMBDA e : Cost(e) > 0)
    IN  Aggregates(model.id, priced, [i \in DOMAIN priced |-> Cost(priced[i])])

CostRow(value, scope, category, model, request, label, currency) ==
    Row(CostMetric, [scope |-> scope, category |-> category, model |-> model, request |-> request,
                     label |-> label, currency |-> currency], value)

ModelCostRows(model, prices, currency) ==
    LET costs == CostAggregates(model, prices)
    IN  [i \in DOMAIN costs |->
           CostRow(costs[i].value, "model", model.category, costs[i].billing, Display(model.id),
                   costs[i].label, currency)]

QuotaRow(metric, model, resource, window, pool, value) ==
    Row(metric, [model |-> model, resource |-> resource, window |-> window, pool |-> pool], value)

HasUsageShape(usage) == usage.models # <<>> \/ usage.prices # <<>> \/ usage.currency # ""

\* The models with an id, category by category in the order of the parser.
Visited(models) ==
    ForEach(Categories, LAMBDA category :
        Selected(models, LAMBDA m : m.category = category /\ m.id # <<"", "">>))

Values(rows) == [i \in DOMAIN rows |-> rows[i].value]

\* Fault: the total is that of the completion models.
TotalCostOfCompletion(models, prices) ==
    Total(Values(ForEach(models, LAMBDA m :
        IF m.category = "completion" THEN CostAggregates(m, prices) ELSE <<>>)))

TotalCost(models, prices) == Total(Values(ForEach(models, LAMBDA m : CostAggregates(m, prices))))

BillingRows(usage) ==
    LET models == Visited(usage.models)
        prices == PriceIndex(usage.prices)
        currency == IF usage.currency = "" THEN "EUR" ELSE usage.currency
        RowsOf(m) == (IF m.category = "completion" THEN TokenRows(m) ELSE <<>>)
                         \o ModelCostRows(m, prices, currency)
        total == CostRow(TotalCost(models, prices), "total", "all", "", "", "", currency)
        reset == QuotaRow(ResetMetric, "", "cost", "month", "billing_cap", usage.endDate + 1)
    IN  IF ~HasUsageShape(usage) THEN <<>>
        ELSE ForEach(models, RowsOf) \o <<total>>
             \o (IF usage.endDate > 0 THEN <<reset>> ELSE <<>>)

CapRows(limits) ==
    LET limit == NonNegative(limits.limit)
        usage == FirstPositive(limits.total, NonNegative(limits.usage) + NonNegative(limits.vibe))
        Cap(metric, value) == QuotaRow(metric, "", "cost", "month", "billing_cap", value)
    IN  IF limits.unlimited \/ limit = 0 THEN <<>>
        ELSE <<Cap(LimitMetric, limit), Cap(UsageMetric, usage),
               Cap(RemainingMetric, NonNegative(limit - usage))>>

LimitRows(limits) ==
    LET PerModel(list, resource, window) ==
            ForEach(list, LAMBDA m :
                IF m.model = "" \/ m[window] <= 0 THEN <<>>
                ELSE <<QuotaRow(LimitMetric, m.model, resource, window, "", m[window])>>)
    IN  CapRows(limits) \o PerModel(limits.tokens, "tokens", "minute")
        \o PerModel(limits.tokens, "tokens", "month") \o PerModel(limits.requests, "requests", "second")

--------------------------------------------------------------------------------
MistralStart == [at |-> "usage headers"]

MistralReplies(c) ==
    LET statuses == Unauthorized \cup PlainErrors \cup {"login", "redirect"}
    IN  CASE c.at \in {"usage headers", "limits headers"} -> HeaderReplies
          [] c.at = "usage" -> OKReplies(MistralUsages) \cup ErrorReplies(statuses)
          [] c.at = "limits" -> OKReplies(MistralLimits) \cup ErrorReplies(statuses)

\* Fault: the rows of the usage are published although the limits were refused.
AfterLimitsKeepsUsage(c, reply) ==
    Collected(c.rows \o (IF reply.status = "ok" THEN LimitRows(reply.body) ELSE <<>>))

\* The usage alone is no reading: without the limits it is dropped.
AfterLimits(c, reply) ==
    IF reply.status # "ok" THEN ConsoleError(reply)
    ELSE Collected(c.rows \o LimitRows(reply.body))

MistralNext(c, reply) ==
    CASE c.at = "usage headers" -> AfterHeaders(reply, [at |-> "usage"])
      [] c.at = "usage" ->
           IF reply.status # "ok" THEN ConsoleError(reply)
           ELSE [at |-> "limits headers", rows |-> BillingRows(reply.body)]
      [] c.at = "limits headers" -> AfterHeaders(reply, [at |-> "limits", rows |-> c.rows])
      [] c.at = "limits" -> AfterLimits(c, reply)
================================================================================
