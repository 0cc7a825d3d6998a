--------------------------- MODULE CodeAssistQuotas ---------------------------
(* The two OAuth collectors that go through Google Code Assist.  Both load the  *)
(* account first, for its project; Antigravity onboards an account that has no  *)
(* tier yet and waits for the operation, a bounded number of polls, then tries  *)
(* its endpoints in turn.                                                        *)
EXTENDS ObservabilityRows

CONSTANTS CodeAssistAccounts, OnboardOperations, GeminiBuckets, AntigravityModels

ASSUME CodeAssistAssumption ==
    /\ \A buckets \in GeminiBuckets : IsList(buckets) /\ \A b \in Range(buckets) :
          IsOption(b.percent) /\ IsOption(b.amount) /\ IsOption(b.reset)
    /\ \A models \in AntigravityModels : IsList(models) /\ \A m \in Range(models) :
          IsOption(m.percent) /\ IsOption(m.reset)

GeminiGroups == <<"flash-lite", "flash", "pro">>
OnboardPolls == 5
ModelEndpoints == 3

--------------------------------------------------------------------------------
(* Code Assist answers 401 and 403 with errors of no type of their own.          *)
CodeAssistReplies(bodies) == OKReplies(bodies) \cup ErrorReplies(Unauthorized \cup PlainErrors)

CodeAssistError(reply) == Failed

BucketPercent(bucket) ==
    IF Absent(bucket.percent) THEN <<>> ELSE <<ClampPercent(bucket.percent[1])>>

\* Fault: the last bucket of a group wins.
ReplacesAlways(summary, percent, amount) == ~(Absent(percent) /\ Absent(amount))

\* Does the bucket replace the group's summary?  The scarcer percentage wins,
\* and among buckets without one the smaller amount.
Replaces(summary, percent, amount) ==
    \/ Absent(summary.percent) /\ Absent(summary.amount) /\ ~(Absent(percent) /\ Absent(amount))
    \/ /\ ~(Absent(summary.percent) /\ Absent(summary.amount))
       /\ IF ~Absent(percent)
          THEN Absent(summary.percent) \/ percent[1] < summary.percent[1]
          ELSE ~Absent(amount) /\ (Absent(summary.amount) \/ amount[1] < summary.amount[1])

NoSummary == [percent |-> <<>>, amount |-> <<>>, reset |-> <<>>]

\* A group's summary: amount and reset are the winner's, present or not.
GroupSummary(buckets, group) ==
    LET Merge(summary, bucket) ==
            LET percent == BucketPercent(bucket)
            IN  IF ~Replaces(summary, percent, bucket.amount) THEN summary
                ELSE [percent |-> IF Absent(percent) THEN summary.percent ELSE percent,
                      amount |-> bucket.amount, reset |-> bucket.reset]
        summary[n \in 0 .. Len(buckets)] ==
            IF n = 0 THEN NoSummary
            ELSE IF buckets[n].group # group THEN summary[n - 1]
            ELSE Merge(summary[n - 1], buckets[n])
    IN  summary[Len(buckets)]

\* All nine gauges are always recorded, 0 where nothing is known.  The group is
\* part of the metric's name in the code, a label here.
GeminiRows(buckets) ==
    LET RowsOf(group) ==
            LET summary == GroupSummary(buckets, group)
                labels == [group |-> group]
            IN  <<Row(RemainingMetric, labels, ValueOr(summary.amount, 0)),
                  Row(RemainingPercentMetric, labels, ValueOr(summary.percent, 0)),
                  Row(ResetMetric, labels, ValueOr(summary.reset, 0))>>
    IN  ForEach(GeminiGroups, RowsOf)

GeminiStart == [at |-> "load"]

GeminiReplies(c) ==
    CodeAssistReplies(IF c.at = "load" THEN CodeAssistAccounts ELSE GeminiBuckets)

GeminiNext(c, reply) ==
    CASE reply.status # "ok" -> CodeAssistError(reply)
      [] reply.status = "ok" /\ c.at = "load" ->
           IF reply.body.project = "" THEN Failed ELSE [at |-> "quota"]
      [] reply.status = "ok" /\ c.at = "quota" -> Collected(GeminiRows(reply.body))

--------------------------------------------------------------------------------
\* Rows of the models whose family is supported.
AntigravityRows(models) ==
    LET RowsOf(m) ==
            LET labels == [model |-> m.model]
                percent == BucketPercent(m)
            IN  OptionRow(RemainingPercentMetric, labels, percent)
                \o OptionRow(ResetMetric, labels, m.reset)
    IN  ForEach(models, LAMBDA m : IF m.supported THEN RowsOf(m) ELSE <<>>)

AntigravityStart == [at |-> "load"]

\* "retryable" is a 429 or a 5xx of the last step's endpoints.
AntigravityReplies(c) ==
    CASE c.at = "load" -> CodeAssistReplies(CodeAssistAccounts)
      [] c.at \in {"onboard", "poll"} -> CodeAssistReplies(OnboardOperations)
      [] c.at = "models" -> CodeAssistReplies(AntigravityModels) \cup ErrorReplies({"retryable"})

FetchModels == [at |-> "models", endpoint |-> 1]

\* Fault: an unfinished operation is polled without end.
AfterOperationUnbounded(operation, polls) ==
    IF ~operation.done /\ operation.named THEN [at |-> "poll", polls |-> polls % 2]
    ELSE IF operation.project = "" THEN Failed ELSE FetchModels

\* Poll on while the operation is neither done nor nameless and polls are left.
AfterOperation(operation, polls) ==
    IF ~operation.done /\ operation.named /\ polls < OnboardPolls
    THEN [at |-> "poll", polls |-> polls]
    ELSE IF operation.project = "" THEN Failed ELSE FetchModels

AfterEndpoint(c, reply) ==
    CASE reply.status \in {"retryable", "unreachable"} ->
           IF c.endpoint < ModelEndpoints THEN [c EXCEPT !.endpoint = @ + 1] ELSE Failed
      [] reply.status = "ok" -> Collected(AntigravityRows(reply.body))
      [] OTHER -> HTTPError(reply)

AntigravityNext(c, reply) ==
    CASE c.at = "models" -> AfterEndpoint(c, reply)
      [] c.at # "models" /\ reply.status # "ok" -> CodeAssistError(reply)
      [] c.at = "load" /\ reply.status = "ok" ->
           IF reply.body.project # "" THEN FetchModels
           ELSE IF reply.body.tier THEN Failed ELSE [at |-> "onboard"]
      [] c.at = "onboard" /\ reply.status = "ok" -> AfterOperation(reply.body, 0)
      [] c.at = "poll" /\ reply.status = "ok" -> AfterOperation(reply.body, c.polls + 1)
================================================================================
