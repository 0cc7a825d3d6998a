---------------------------- MODULE CerebrasQuotas ----------------------------
(* The Cerebras console collector: the organizations, then for each of them the *)
(* effective quotas and, as far as it can be read, the current usage.  GraphQL  *)
(* answers 200 with errors too; their words tell a refused session ("denied")   *)
(* from another error ("error").                                                *)
EXTENDS ObservabilityRows

CONSTANTS CerebrasOrganizations, CerebrasLimits, CerebrasUsages    \* decoded bodies

Amounts(numbers) == \A window \in DOMAIN numbers : numbers[window] \in Int

ASSUME CerebrasAssumption ==
    /\ \A organizations \in CerebrasOrganizations : IsList(organizations)
    /\ \A quotas \in CerebrasLimits : IsList(quotas) /\ \A q \in Range(quotas) : Amounts(q.limits)
    /\ \A usages \in CerebrasUsages : IsList(usages) /\ \A u \in Range(usages) : Amounts(u.used)

QuotaWindows == << <<"minute", "requests">>, <<"minute", "tokens">>, <<"hour", "requests">>,
                   <<"hour", "tokens">>, <<"day", "requests">>, <<"day", "tokens">> >>

\* A missing, negative or unreadable number is 0.
At(numbers, window) == IF window \in DOMAIN numbers THEN NonNegative(numbers[window]) ELSE 0

\* The organizations with an id, the active ones first.
InOrder(organizations) ==
    LET named == Selected(organizations, LAMBDA o : o.id # "")
    IN  Selected(named, LAMBDA o : o.active) \o Selected(named, LAMBDA o : ~o.active)

\* The last usage entry of the quota's model and region.
UsageOf(quota, usages) ==
    LET same == {i \in DOMAIN usages :
                    usages[i].model = quota.model /\ usages[i].region = quota.region}
    IN  IF same = {} THEN <<>> ELSE usages[Max(same)].used

\* Fault: what is left of an overdrawn quota is negative.
WindowRowsOverdrawn(org, quota, usages, window) ==
    LET limit == At(quota.limits, window)
        used == At(UsageOf(quota, usages), window)
        labels == [model |-> quota.model, window |-> window[1], resource |-> window[2],
                   org |-> org.id, region |-> quota.region]
    IN  <<Row(LimitMetric, labels, limit), Row(UsageMetric, labels, used),
          Row(RemainingMetric, labels, limit - used),
          Row(UsagePercentMetric, labels, (100 * used) \div limit)>>

WindowRows(org, quota, usages, window) ==
    LET limit == At(quota.limits, window)
        used == At(UsageOf(quota, usages), window)
        labels == [model |-> quota.model, window |-> window[1], resource |-> window[2],
                   org |-> org.id, region |-> quota.region]
    IN  <<Row(LimitMetric, labels, limit), Row(UsageMetric, labels, used),
          Row(RemainingMetric, labels, NonNegative(limit - used)),
          Row(UsagePercentMetric, labels, (100 * used) \div limit)>>

\* Only a window with a limit has rows.
OrganizationRows(org, quotas, usages) ==
    LET RowsOf(q, window) == IF At(q.limits, window) > 0 THEN WindowRows(org, q, usages, window)
                             ELSE <<>>
    IN  ForEach(quotas, LAMBDA q : ForEach(QuotaWindows, LAMBDA window : RowsOf(q, window)))

--------------------------------------------------------------------------------
CerebrasStart == [at |-> "organizations"]

CerebrasReplies(c) ==
    LET Bodies == CASE c.at = "organizations" -> CerebrasOrganizations
                    [] c.at = "quotas" -> CerebrasLimits
                    [] c.at = "usage" -> CerebrasUsages
    IN  OKReplies(Bodies) \cup ErrorReplies(Unauthorized \cup PlainErrors \cup {"denied"})

\* Next organization, or the end: without a single row the collection failed.
NextOrganization(orgs, rows) ==
    IF orgs # <<>> THEN [at |-> "quotas", orgs |-> orgs, rows |-> rows]
    ELSE IF rows = <<>> THEN Failed ELSE Collected(rows)

CerebrasError(reply) == IF reply.status = "denied" THEN Refused ELSE HTTPError(reply)

\* An organization that cannot be read is skipped, unless the session is refused;
\* that its quotas do not decode shows only after its usage was asked for.
CerebrasNext(c, reply) ==
    LET ok == reply.status = "ok"
    IN  CASE c.at = "organizations" ->
               IF ~ok THEN CerebrasError(reply)
               ELSE IF InOrder(reply.body) = <<>> THEN Failed
               ELSE NextOrganization(InOrder(reply.body), <<>>)
          [] c.at = "quotas" ->
               IF reply.status \in {"ok", "garbled"}
               THEN [at |-> "usage", orgs |-> c.orgs, rows |-> c.rows,
                     quotas |-> IF ok THEN reply.body ELSE <<>>]
               ELSE IF CerebrasError(reply) = Refused THEN Refused
               ELSE NextOrganization(Tail(c.orgs), c.rows)
          [] c.at = "usage" ->
               LET usages == IF ok THEN reply.body ELSE <<>>
               IN  NextOrganization(Tail(c.orgs),
                       c.rows \o OrganizationRows(Head(c.orgs), c.quotas, usages))
================================================================================
