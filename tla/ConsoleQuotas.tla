---------------------------- MODULE ConsoleQuotas ----------------------------
(* The collectors that read one answer: Codex usage, InternLM statistics,       *)
(* Meituan token usage, OpenRouter activity and MiniMax remains.                *)
EXTENDS ObservabilityRows

CONSTANTS CodexUsages, CodexLimits, InternlmStatistics, MeituanUsages, OpenRouterActivity,
          MinimaxRemains    \* decoded bodies

IsWindow(w) == {w.used, w.reset, w.seconds} \subseteq Int

ASSUME ConsoleAssumption ==
    /\ \A usage \in CodexUsages : usage.plan \in Int /\ (~Absent(usage.limit) =>
          \A window \in {usage.limit[1].primary, usage.limit[1].secondary} :
              Absent(window) \/ IsWindow(window[1]))
    /\ \A error \in CodexLimits : {error.resetsAt, error.resetsIn} \subseteq Int
    /\ \A s \in InternlmStatistics, type \in {"input", "output"} : {s.quota[type], s.used[type]} \subseteq Int
    /\ \A entries \in MeituanUsages : IsList(entries) /\ \A e \in Range(entries) :
          IsOption(e.input) /\ IsOption(e.output)
    /\ \A items \in OpenRouterActivity : IsList(items) /\ \A item \in Range(items) :
          {item.requests, item.usage, item.prompt, item.completion} \subseteq Int
    /\ \A entries \in MinimaxRemains : IsList(entries) /\ \A e \in Range(entries) :
          IsOption(e.remaining) /\ IsOption(e.total) /\ IsOption(e.percent) /\ IsOption(e.reset)

HTTPReplies(bodies) == OKReplies(bodies) \cup ErrorReplies(Unauthorized \cup PlainErrors)
Probing == [at |-> "probe"]

\* A parser that finds no row fails the collection.
SomeRows(rows) == IF rows = <<>> THEN Failed ELSE Collected(rows)

--------------------------------------------------------------------------------
(* Codex.  A 429 may say that the usage limit is reached: that is a reading too. *)
(* Every gauge is always recorded, 0 where the answer says nothing.              *)
CodexRows(plan, reached, primary, secondary) ==
    LET WindowRows(name, window) ==
            LET labels == [window |-> name]
            IN  <<Row(UsagePercentMetric, labels, window.used),
                  Row(ResetMetric, labels, NonNegative(window.reset)),
                  Row("window.duration", labels, NonNegative(window.seconds) \div 60)>>
    IN  <<Row("limit.reached", [window |-> "any"], IF reached THEN 1 ELSE 0),
          Row("plan.type", [window |-> "any"], plan)>>
        \o WindowRows("primary", primary) \o WindowRows("secondary", secondary)

NoWindow == [used |-> 0, reset |-> 0, seconds |-> 0]

\* The windows of a limit, none of them without a limit.
CodexUsageRows(usage) ==
    IF Absent(usage.limit) THEN CodexRows(usage.plan, FALSE, NoWindow, NoWindow)
    ELSE LET limit == usage.limit[1]
         IN  CodexRows(usage.plan, limit.reached \/ ~limit.allowed,
                       ValueOr(limit.primary, NoWindow), ValueOr(limit.secondary, NoWindow))

\* When a 429 lifts: the time it names if that is still to come, else the delay.
\* Times are relative to the probe.
RetryAfter(error) ==
    IF ~error.usageLimit THEN <<>>
    ELSE IF error.resetsAt > 0 THEN <<error.resetsAt>>
    ELSE IF error.resetsIn > 0 THEN <<error.resetsIn>> ELSE <<>>

CodexStart == Probing

CodexReplies(c) == HTTPReplies(CodexUsages) \cup [status : {"throttled"}, body : CodexLimits]

CodexNext(c, reply) ==
    CASE reply.status = "ok" -> Collected(CodexUsageRows(reply.body))
      [] reply.status = "throttled" ->
           LET after == RetryAfter(reply.body)
           IN  IF Absent(after) THEN Failed
               ELSE Collected(CodexRows(0, TRUE,
                        [used |-> 100, reset |-> after[1], seconds |-> 0], NoWindow))
      [] OTHER -> HTTPError(reply)

--------------------------------------------------------------------------------
(* InternLM: the daily quota of input and of output tokens.                      *)
InternlmRows(statistics) ==
    LET RowsOf(type) ==
            LET limit == statistics.quota[type]
                used == statistics.used[type]
                labels == [window |-> "day", resource |-> "tokens", type |-> type]
            IN  IF limit <= 0 THEN <<>>
                ELSE <<Row(LimitMetric, labels, limit), Row(UsageMetric, labels, used),
                       Row(RemainingMetric, labels, NonNegative(limit - used)),
                       Row(UsagePercentMetric, labels, (100 * used) \div limit)>>
    IN  RowsOf("input") \o RowsOf("output")

InternlmStart == Probing
InternlmReplies(c) == HTTPReplies(InternlmStatistics)
InternlmNext(c, reply) ==
    IF reply.status # "ok" THEN HTTPError(reply)
    ELSE IF reply.body.code # 0 THEN Failed ELSE SomeRows(InternlmRows(reply.body))

--------------------------------------------------------------------------------
(* Meituan: tokens used today, per model; "entries" may be missing altogether.   *)
MeituanRows(entries) ==
    LET RowsOf(e) ==
            LET Labels(type) == [model |-> e.model, resource |-> "tokens", window |-> "day", type |-> type]
            IN  OptionRow(TokensMetric, Labels("input"), e.input)
                \o OptionRow(TokensMetric, Labels("output"), e.output)
    IN  ForEach(entries, LAMBDA e : IF e.model = "" THEN <<>> ELSE RowsOf(e))

MeituanStart == Probing
MeituanReplies(c) == HTTPReplies(MeituanUsages)
MeituanNext(c, reply) ==
    IF reply.status # "ok" THEN HTTPError(reply) ELSE SomeRows(MeituanRows(reply.body))

--------------------------------------------------------------------------------
(* OpenRouter: activity items, several of one model when it was used on several  *)
(* days, all under the window "30d".  No activity is no row, and no failure.     *)
(* The SDK's error tells a refused key by its words, whatever its status:        *)
(* "denied" names it unauthorized or an invalid key, "unauthorized" is a 401 or  *)
(* 403 in other words.                                                           *)
OpenRouterRows(items) ==
    LET RowsOf(item) ==
            LET RowFor(metric, resource, type, value) ==
                    IF value <= 0 THEN <<>>
                    ELSE <<Row(metric, [model |-> item.model, window |-> "30d",
                                        resource |-> resource, type |-> type], value)>>
            IN  RowFor(RequestsMetric, "requests", "", item.requests)
                \o RowFor("usage.cost.usd", "cost", "", item.usage)
                \o RowFor(TokensMetric, "tokens", "input", item.prompt)
                \o RowFor(TokensMetric, "tokens", "output", item.completion)
    IN  ForEach(items, RowsOf)

OpenRouterStart == Probing
OpenRouterReplies(c) == HTTPReplies(OpenRouterActivity) \cup ErrorReplies({"denied"})
OpenRouterNext(c, reply) ==
    CASE reply.status = "ok" -> Collected(OpenRouterRows(reply.body))
      [] reply.status = "denied" -> Refused
      [] OTHER -> Failed

--------------------------------------------------------------------------------
(* MiniMax: a surface host of neither region has no address to ask.  Errors come *)
(* as 200 too, their words telling a refused key ("denied") from the rest.       *)
MinimaxHosts == {"minimaxi.com", "minimax.io"}

\* A number up to 1 is a fraction, up to 100 a percentage, anything else no
\* reading.  Numbers are hundredths here: 100 is the number 1, 10000 is 100.
NormalizePercent(number) ==
    CASE number \in 0..100 -> <<number>> [] number \in 101..10000 -> <<number \div 100>>
      [] OTHER -> <<>>

\* The percentage an entry states, or the one its counts give.
MinimaxPercent(entry) ==
    CASE ~Absent(entry.percent) -> NormalizePercent(entry.percent[1])
      [] Absent(entry.percent) /\ ~Absent(entry.remaining) /\ ValueOr(entry.total, 0) > 0 ->
           <<(100 * entry.remaining[1]) \div entry.total[1]>>
      [] OTHER -> <<>>

MinimaxRows(entries) ==
    LET RowsOf(e) ==
            LET labels == [model |-> e.model, resource |-> "requests", window |-> "day"]
            IN  OptionRow(RemainingMetric, labels, e.remaining) \o OptionRow(LimitMetric, labels, e.total)
                \o OptionRow(RemainingPercentMetric, labels, MinimaxPercent(e))
                \o OptionRow(ResetMetric, labels, e.reset)
    IN  ForEach(entries, LAMBDA e : IF e.supported THEN RowsOf(e) ELSE <<>>)

MinimaxStart(host) == IF host \in MinimaxHosts THEN Probing ELSE Failed
MinimaxReplies(c) == HTTPReplies(MinimaxRemains) \cup ErrorReplies({"denied"})
MinimaxNext(c, reply) ==
    CASE reply.status = "ok" -> SomeRows(MinimaxRows(reply.body))
      [] reply.status = "denied" -> Refused
      [] OTHER -> HTTPError(reply)
================================================================================
