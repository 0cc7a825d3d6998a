--------------------------- MODULE ObservabilityRows ---------------------------
(* What every observability collector of providerservice/providerobservability  *)
(* shares: gauge rows and how they are recorded, the replies an HTTP probe can   *)
(* get and how they are classified, and the auth headers a console probe asks    *)
(* for first.  A collector is a function of its state and of a reply: its state  *)
(* says which exchange comes next, or how the collection ended.                  *)
EXTENDS Integers, Sequences, SequencesExt, FiniteSetsExt, TLC

LimitMetric == "quota.limit"
UsageMetric == "quota.usage"
RemainingMetric == "quota.remaining"
RemainingPercentMetric == "quota.remaining.percent"
UsagePercentMetric == "quota.usage.percent"
ResetMetric == "quota.reset"
RequestsMetric == "usage.requests"
TokensMetric == "usage.tokens"
CostMetric == "usage.cost"

Row(metric, labels, value) == [metric |-> metric, labels |-> labels, value |-> value]

\* The identity of a gauge: the metric's name with its labels.
GaugeOf(row) == <<row.metric, row.labels>>

\* Fault: a gauge already recorded is not overwritten.
RecordOnce(gauges, row) == gauges @@ (GaugeOf(row) :> row.value)

\* The map with the value under the key, whatever it had there.
Put(map, key, value) ==
    [k \in {key} \cup DOMAIN map |-> IF k = key THEN value ELSE map[k]]

\* A recorded row replaces the value of its gauge, and of no other.
Record(gauges, row) == Put(gauges, GaugeOf(row), row.value)

ClampPercent(value) == IF value < 0 THEN 0 ELSE IF value > 100 THEN 100 ELSE value

NonNegative(value) == Max({0, value})

\* A number that may be absent is <<>> or <<number>>.
Absent(option) == option = <<>>
ValueOr(option, default) == IF Absent(option) THEN default ELSE option[1]

\* The row of an optional number: one row or none.
OptionRow(metric, labels, option) ==
    IF Absent(option) THEN <<>> ELSE <<Row(metric, labels, option[1])>>

IsOption(option) == option \in Seq(Int) /\ Len(option) <= 1

IsList(list) == list \in Seq(Range(list))

\* A loop that appends for every member of the list what it comes to.
ForEach(list, Of(_)) == FlattenSeq([i \in DOMAIN list |-> Of(list[i])])

Selected(list, Test(_)) == ForEach(list, LAMBDA e : IF Test(e) THEN <<e>> ELSE <<>>)

Total(numbers) ==
    LET sum[n \in 0 .. Len(numbers)] == IF n = 0 THEN 0 ELSE sum[n - 1] + numbers[n]
    IN  sum[Len(numbers)]

--------------------------------------------------------------------------------
(* The end of a collection: rows, an authentication error, or another error.    *)
Collected(rows) == [at |-> "collected", rows |-> rows]
Refused == [at |-> "refused"]
Failed == [at |-> "failed"]
Terminal == {"collected", "refused", "failed"}

--------------------------------------------------------------------------------
(* An HTTP probe.  "garbled" is a 2xx answer whose body does not decode,         *)
(* "login" a redirect to a login page or to nowhere, "redirect" any other.       *)
OKReplies(bodies) == [status : {"ok"}, body : bodies]
ErrorReplies(statuses) == [status : statuses]

Unauthorized == {"unauthorized"}
PlainErrors == {"garbled", "error", "unreachable"}

\* 401 and 403 are authentication errors, everything else that is not 2xx fails.
HTTPError(reply) == IF reply.status = "unauthorized" THEN Refused ELSE Failed

\* The browser-session consoles answer an expired session with a redirect.
ConsoleError(reply) == IF reply.status = "login" THEN Refused ELSE HTTPError(reply)

--------------------------------------------------------------------------------
(* A console probe reads its egress auth policy and resolves the request's auth  *)
(* headers: "none" is an absent policy, a skipped resolution or empty headers,   *)
(* "denied" NotFound, PermissionDenied, Unauthenticated or FailedPrecondition.   *)
HeaderReplies == ErrorReplies({"headers", "none", "denied", "down"})

AfterHeaders(reply, next) ==
    CASE reply.status = "headers" -> next
      [] reply.status \in {"none", "denied"} -> Refused
      [] reply.status = "down" -> Failed

\* A call whose auth headers are resolved first, both in one exchange.
CallReplies(bodies) ==
    OKReplies(bodies) \cup ErrorReplies(Unauthorized \cup PlainErrors \cup {"none", "denied", "down"})
CallError(reply) == IF reply.status \in {"none", "denied"} THEN Refused ELSE HTTPError(reply)

\* The answers by which the provider, or the auth service, denies a request.
Denials == {"unauthorized", "login", "none", "denied"}
================================================================================
