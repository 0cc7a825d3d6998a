---------------------- MODULE ProviderObservabilityProofs ----------------------
(* Proofs about ProviderObservability for any calls, replies of the vendors and   *)
(* surface.                                                                       *)
EXTENDS ProviderObservability, SequenceTheorems, FiniteSetTheorems,
        WellFoundedInduction, TLAPS

--------------------------------------------------------------------------------
(* The inductive invariant.                                                      *)

IsProbe(p) ==
    p \in [step : Steps, c : {p.c}, rows : {p.rows}, read : {p.read}, mixed : BOOLEAN,
           asked : BOOLEAN, misses : {p.misses}, outcome : Outcomes]

\* The exchanges of each collector.
Exchanges(id) ==
    CASE id = "mistral-billing" -> {"usage headers", "usage", "limits headers", "limits"}
      [] id = "google-aistudio-quotas" -> {"project id", "projects", "limits", "models", "series"}
      [] id = "cerebras-quotas" -> {"organizations", "quotas", "usage"}
      [] id = "gemini-cli" -> {"load", "quota"}
      [] id = "antigravity" -> {"load", "onboard", "poll", "models"}
      [] OTHER -> {"probe"}

\* Antigravity counts the endpoints it has tried.
CollectorInOrder(id, c) ==
    /\ c.at \in Exchanges(id)
    /\ id = "antigravity" /\ c.at = "models" => c \in [at : {"models"}, endpoint : Int]

\* An exchange that was lost and that the collector may go on without: it is of
\* those, and was not denied in a way the collector can tell.
BestEffortAt(at) == <<schema, at>> \in BestEffort
Forgiven(miss) == BestEffortAt(miss[1]) /\ ~miss[2]

ProbeInOrder(t) ==
    /\ IsProbe(probe[t])
    /\ probe[t].outcome # "" <=> probe[t].step = "done"
    /\ probe[t].step \in {"idle", "found"} => ~probe[t].asked /\ probe[t].misses = {}
    /\ probe[t].step \in {"idle", "found", "collect"} => probe[t].read = <<>> /\ probe[t].rows = <<>>
    /\ probe[t].step \in {"found", "collect"} => schema \in CollectorIDs
    /\ probe[t].step = "collect" => CollectorInOrder(schema, probe[t].c)

\* The outcome, as it comes about, is the verdict on the exchanges that were lost.
OutcomeOfMisses(t) ==
    /\ probe[t].step \in {"collect", "record"} \/ probe[t].outcome = "executed" =>
          \A miss \in probe[t].misses : Forgiven(miss)
    /\ probe[t].outcome = "failed" =>
          \A miss \in probe[t].misses : ~miss[2]
    /\ probe[t].outcome = "auth_blocked" =>
          \E miss \in probe[t].misses : miss[2]
    /\ probe[t].outcome \in {"not_found", "unsupported"} => ~probe[t].asked

IInv ==
    /\ DOMAIN probe = Tasks
    /\ \A t \in Tasks : ProbeInOrder(t) /\ OutcomeOfMisses(t)

\* How many rows of its reading a probe has recorded.
Shown(t) == Len(probe[t].read) - Len(probe[t].rows)

\* The rows that are left are the last ones of the reading, and what was recorded
\* is what the gauges show, later rows first, unless another probe recorded.
RowsInOrder(t) ==
    LET read == probe[t].read
        rows == probe[t].rows
    IN  /\ probe[t].step = "record" => rows # <<>>
        /\ probe[t].outcome = "executed" => rows = <<>>
        /\ probe[t].step = "record" \/ probe[t].outcome = "executed" =>
              /\ rows \in Seq(Range(read)) /\ Len(rows) <= Len(read)
              /\ \A i \in 1 .. Len(rows) : rows[i] = read[Shown(t) + i]
              /\ ~probe[t].mixed =>
                    \A i \in 1 .. Shown(t) :
                       /\ GaugeOf(read[i]) \in DOMAIN gauges
                       /\ (\A j \in 1 .. Shown(t) : j > i => GaugeOf(read[j]) # GaugeOf(read[i]))
                             => gauges[GaugeOf(read[i])] = read[i].value

RecordingInOrder == \A t \in Tasks : RowsInOrder(t)

--------------------------------------------------------------------------------
(* What each collector makes of a reply.                                         *)

Answered(reply) == reply.status \in {"ok", "headers", "throttled"}

\* A collection ends refused exactly when its vendor denied the exchange and it can
\* tell, and goes on only after an answer or an exchange it can do without.
Verdict(id, c, reply, next) ==
    /\ next.at \in Terminal \/ CollectorInOrder(id, next)
    /\ next.at = "refused" => Told(id, c.at, reply)
    /\ next.at = "failed" => ~Told(id, c.at, reply)
    /\ next.at \notin {"refused", "failed"} /\ ~Answered(reply) =>
          <<id, c.at>> \in BestEffort /\ ~Told(id, c.at, reply)

\* The denials a collector can tell.
LEMMA ToldOf ==
    ASSUME NEW id, NEW at, NEW reply
    PROVE  Told(id, at, reply) <=>
              /\ reply.status \in {"unauthorized", "login", "none", "denied"}
              /\ ~(/\ id \in {"gemini-cli", "antigravity"} /\ at \in {"load", "onboard", "poll", "quota"}
                   /\ reply.status = "unauthorized")
              /\ ~(id = "cerebras-quotas" /\ at = "usage")
              /\ ~(id = "openrouter-quotas" /\ at = "probe" /\ reply.status = "unauthorized")
<1>. DEFINE status == reply.status
<1>1. <<id, at, status>> \in {"gemini-cli", "antigravity"} \X {"load", "onboard", "poll", "quota"} \X {"unauthorized"}
         <=> id \in {"gemini-cli", "antigravity"} /\ at \in {"load", "onboard", "poll", "quota"} /\ status = "unauthorized"
  OBVIOUS
<1>2. <<id, at, status>> \in {"cerebras-quotas"} \X {"usage"} \X Denials
         <=> id = "cerebras-quotas" /\ at = "usage" /\ status \in Denials
  OBVIOUS
<1>3. <<id, at, status>> = <<"openrouter-quotas", "probe", "unauthorized">>
         <=> id = "openrouter-quotas" /\ at = "probe" /\ status = "unauthorized"
  OBVIOUS
<1>. QED
  BY <1>1, <1>2, <1>3 DEF Told, Untyped, Denials

\* Where a collector can end.
LEMMA EndsAt ==
    /\ Refused.at = "refused" /\ Failed.at = "failed" /\ Refused # Failed
    /\ \A rows : Collected(rows).at = "collected"
<1>1. Refused.at = "refused" /\ Failed.at = "failed"
  BY DEF Refused, Failed
<1>2. \A rows : Collected(rows).at = "collected"
  BY DEF Collected
<1>. QED
  BY <1>1, <1>2

\* The status of an error reply.
LEMMA ErrorIsTyped ==
    ASSUME NEW reply
    PROVE  /\ HTTPError(reply) = IF reply.status = "unauthorized" THEN Refused ELSE Failed
           /\ ConsoleError(reply) = IF reply.status \in {"login", "unauthorized"} THEN Refused ELSE Failed
           /\ CallError(reply) = IF reply.status \in {"none", "denied", "unauthorized"} THEN Refused ELSE Failed
           /\ CerebrasError(reply) = IF reply.status \in {"denied", "unauthorized"} THEN Refused ELSE Failed
  BY DEF HTTPError, ConsoleError, CallError, CerebrasError

\* The statuses of every reply a collector can get.
LEMMA StatusOfReply ==
    ASSUME NEW id \in CollectorIDs, NEW c, CollectorInOrder(id, c), NEW reply \in CollectReplies(id, c)
    PROVE  reply.status \in
              CASE id = "mistral-billing" ->
                     IF c.at \in {"usage headers", "limits headers"}
                     THEN {"headers", "none", "denied", "down"}
                     ELSE {"ok", "unauthorized", "login", "redirect", "garbled", "error", "unreachable"}
                [] id = "google-aistudio-quotas" ->
                     IF c.at = "project id" THEN {"ok", "denied", "down"}
                     ELSE {"ok", "unauthorized", "none", "denied", "down", "garbled", "error", "unreachable"}
                [] id \in {"cerebras-quotas", "minimax-remains", "openrouter-quotas"} ->
                     {"ok", "unauthorized", "denied", "garbled", "error", "unreachable"}
                [] id = "antigravity" ->
                     {"ok", "unauthorized", "retryable", "garbled", "error", "unreachable"}
                [] id = "codex" ->
                     {"ok", "throttled", "unauthorized", "garbled", "error", "unreachable"}
                [] OTHER -> {"ok", "unauthorized", "garbled", "error", "unreachable"}
<1>1. CASE id = "mistral-billing"
  <2>1. reply \in MistralReplies(c)
    BY <1>1 DEF CollectReplies
  <2>. QED BY <1>1, <2>1 DEF MistralReplies, CollectorInOrder, Exchanges, HeaderReplies, OKReplies,
       ErrorReplies, Unauthorized, PlainErrors
<1>2. CASE id = "google-aistudio-quotas"
  <2>1. reply \in StudioReplies(c)
    BY <1>2 DEF CollectReplies
  <2>. QED BY <1>2, <2>1 DEF StudioReplies, CollectorInOrder, Exchanges, CallReplies, OKReplies,
       ErrorReplies, Unauthorized, PlainErrors
<1>3. CASE id = "cerebras-quotas"
  <2>1. reply \in CerebrasReplies(c)
    BY <1>3 DEF CollectReplies
  <2>. QED BY <1>3, <2>1 DEF CerebrasReplies, CollectorInOrder, Exchanges, OKReplies,
       ErrorReplies, Unauthorized, PlainErrors
<1>4. CASE id = "antigravity"
  <2>1. reply \in AntigravityReplies(c)
    BY <1>4 DEF CollectReplies
  <2>. QED BY <1>4, <2>1 DEF AntigravityReplies, CodeAssistReplies, CollectorInOrder, Exchanges,
       OKReplies, ErrorReplies, Unauthorized, PlainErrors
<1>5. CASE id \in {"minimax-remains", "openrouter-quotas"}
  <2>1. reply \in MinimaxReplies(c) \/ reply \in OpenRouterReplies(c)
    BY <1>5 DEF CollectReplies
  <2>. QED BY <1>5, <2>1 DEF MinimaxReplies, OpenRouterReplies, HTTPReplies, OKReplies, ErrorReplies, Unauthorized, PlainErrors
<1>6. CASE id = "codex"
  <2>1. reply \in CodexReplies(c)
    BY <1>6 DEF CollectReplies
  <2>. QED BY <1>6, <2>1 DEF CodexReplies, HTTPReplies, OKReplies, ErrorReplies, Unauthorized, PlainErrors
<1>7. CASE id = "gemini-cli"
  <2>1. reply \in GeminiReplies(c)
    BY <1>7 DEF CollectReplies
  <2>. QED BY <1>7, <2>1 DEF GeminiReplies, CodeAssistReplies, OKReplies, ErrorReplies, Unauthorized, PlainErrors
<1>8. CASE id \in {"internlm-quotas", "meituan-longcat-token-usage"}
  <2>1. reply \in InternlmReplies(c) \/ reply \in MeituanReplies(c)
    BY <1>8 DEF CollectReplies
  <2>. QED BY <1>8, <2>1 DEF InternlmReplies, MeituanReplies, HTTPReplies,
       OKReplies, ErrorReplies, Unauthorized, PlainErrors
<1>. QED
  BY <1>1, <1>2, <1>3, <1>4, <1>5, <1>6, <1>7, <1>8 DEF CollectorIDs

\* Mistral: where a reply takes the collector, and what it tells of a denial.
LEMMA MistralVerdict ==
    ASSUME NEW c, CollectorInOrder("mistral-billing", c), NEW reply,
           reply.status \in IF c.at \in {"usage headers", "limits headers"}
                            THEN {"headers", "none", "denied", "down"}
                            ELSE {"ok", "unauthorized", "login", "redirect", "garbled", "error", "unreachable"}
    PROVE  Verdict("mistral-billing", c, reply, MistralNext(c, reply))
<1>. DEFINE next == MistralNext(c, reply)
<1>1. CASE c.at \in {"usage headers", "limits headers"}
  <2>1. reply.status = "headers" => next.at \in {"usage", "limits"}
    BY <1>1 DEF MistralNext, AfterHeaders
  <2>2. reply.status \in {"none", "denied"} => next = Refused
    BY <1>1 DEF MistralNext, AfterHeaders
  <2>3. reply.status = "down" => next = Failed
    BY <1>1 DEF MistralNext, AfterHeaders
  <2>. HIDE DEF next
  <2>4. Verdict("mistral-billing", c, reply, next)
    BY <1>1, <2>1, <2>2, <2>3, EndsAt, ToldOf DEF Verdict, CollectorInOrder, Exchanges, Answered, Terminal
  <2>. QED BY <2>4 DEF next
<1>2. CASE c.at \in {"usage", "limits"}
  <2>1. reply.status = "ok" => next.at \in {"limits headers", "collected"}
    BY <1>2, EndsAt DEF MistralNext, AfterLimits
  <2>2. reply.status \in {"login", "unauthorized"} => next = Refused
    BY <1>2, ErrorIsTyped DEF MistralNext, AfterLimits
  <2>3. reply.status \notin {"ok", "login", "unauthorized"} => next = Failed
    BY <1>2, ErrorIsTyped DEF MistralNext, AfterLimits
  <2>. HIDE DEF next
  <2>4. Verdict("mistral-billing", c, reply, next)
    BY <1>2, <2>1, <2>2, <2>3, EndsAt, ToldOf DEF Verdict, CollectorInOrder, Exchanges, Answered, Terminal
  <2>. QED BY <2>4 DEF next
<1>. QED
  BY <1>1, <1>2 DEF CollectorInOrder, Exchanges

\* AI Studio, likewise.
LEMMA StudioVerdict ==
    ASSUME NEW c, CollectorInOrder("google-aistudio-quotas", c), NEW reply,
           reply.status \in
               IF c.at = "project id" THEN {"ok", "denied", "down"}
               ELSE {"ok", "unauthorized", "none", "denied", "down", "garbled", "error", "unreachable"}
    PROVE  Verdict("google-aistudio-quotas", c, reply, StudioNext(c, reply))
<1>. DEFINE next == StudioNext(c, reply)
<1>1. \A limits, wanted, fetched : NextSeries(limits, wanted, fetched).at \in {"collected", "series"}
  BY EndsAt DEF NextSeries
<1>2. CASE c.at = "series"
  <2>1. reply.status = "ok" => next.at \in {"collected", "series"}
    BY <1>1, <1>2 DEF StudioNext, AfterSeries
  <2>2. reply.status \in {"none", "denied", "unauthorized"} => next = Refused
    BY <1>2, ErrorIsTyped DEF StudioNext, AfterSeries
  <2>3. reply.status = "garbled" => next = Failed
    BY <1>2 DEF StudioNext, AfterSeries
  <2>4. reply.status \notin {"ok", "garbled", "none", "denied", "unauthorized"} => next.at = "collected"
    BY <1>2, ErrorIsTyped, EndsAt DEF StudioNext, AfterSeries
  <2>. HIDE DEF next
  <2>5. Verdict("google-aistudio-quotas", c, reply, next)
    BY <1>2, <2>1, <2>2, <2>3, <2>4, EndsAt, ToldOf DEF Verdict, CollectorInOrder, Exchanges, Answered, BestEffort, Terminal
  <2>. QED BY <2>5 DEF next
<1>3. CASE c.at \in {"project id", "projects", "limits", "models"}
  <2>1. reply.status = "ok" => next.at \in {"limits", "projects", "models", "series", "collected", "failed"}
    <3>1. c.at = "project id" /\ reply.status = "ok" => next.at \in {"limits", "projects"}
      BY DEF StudioNext
    <3>2. c.at = "projects" /\ reply.status = "ok" => next.at \in {"limits", "failed"}
      BY EndsAt DEF StudioNext, AfterProjects
    <3>3. c.at = "limits" /\ reply.status = "ok" => next.at = "models"
      BY DEF StudioNext
    <3>4. c.at = "models" /\ reply.status = "ok" => next.at \in {"collected", "series", "failed"}
      BY <1>1, EndsAt DEF StudioNext, AfterModels
    <3>. QED BY <1>3, <3>1, <3>2, <3>3, <3>4
  <2>2. reply.status \in {"none", "denied", "unauthorized"} => next = Refused
    BY <1>3, ErrorIsTyped DEF StudioNext
  <2>3. reply.status \notin {"ok", "none", "denied", "unauthorized"} => next = Failed
    BY <1>3, ErrorIsTyped DEF StudioNext
  <2>. HIDE DEF next
  <2>4. Verdict("google-aistudio-quotas", c, reply, next)
    BY <1>3, <2>1, <2>2, <2>3, EndsAt, ToldOf DEF Verdict, CollectorInOrder, Exchanges, Answered, Terminal
  <2>. QED BY <2>4 DEF next
<1>. QED
  BY <1>2, <1>3 DEF CollectorInOrder, Exchanges

\* Cerebras, likewise.
LEMMA CerebrasVerdict ==
    ASSUME NEW c, CollectorInOrder("cerebras-quotas", c), NEW reply,
           reply.status \in {"ok", "unauthorized", "denied", "garbled", "error", "unreachable"}
    PROVE  Verdict("cerebras-quotas", c, reply, CerebrasNext(c, reply))
<1>. DEFINE next == CerebrasNext(c, reply)
<1>1. \A orgs, rows : NextOrganization(orgs, rows).at \in {"collected", "quotas", "failed"}
  BY EndsAt DEF NextOrganization
<1>2. CASE c.at = "organizations"
  <2>1. reply.status = "ok" => next.at \in {"collected", "quotas", "failed"}
    BY <1>1, <1>2, EndsAt DEF CerebrasNext
  <2>2. reply.status \in {"denied", "unauthorized"} => next = Refused
    BY <1>2, ErrorIsTyped DEF CerebrasNext
  <2>3. reply.status \notin {"ok", "denied", "unauthorized"} => next = Failed
    BY <1>2, ErrorIsTyped DEF CerebrasNext
  <2>. HIDE DEF next
  <2>4. Verdict("cerebras-quotas", c, reply, next)
    BY <1>2, <2>1, <2>2, <2>3, EndsAt, ToldOf DEF Verdict, CollectorInOrder, Exchanges, Answered, Terminal
  <2>. QED BY <2>4 DEF next
<1>3. CASE c.at = "quotas"
  <2>1. reply.status \in {"ok", "garbled"} => next.at = "usage"
    BY <1>3 DEF CerebrasNext
  <2>2. reply.status \in {"denied", "unauthorized"} => next = Refused
    BY <1>3, ErrorIsTyped DEF CerebrasNext
  <2>3. reply.status \notin {"ok", "garbled", "denied", "unauthorized"} => next.at \in {"collected", "quotas", "failed"}
    BY <1>1, <1>3, ErrorIsTyped, EndsAt DEF CerebrasNext
  <2>. HIDE DEF next
  <2>4. Verdict("cerebras-quotas", c, reply, next)
    BY <1>3, <2>1, <2>2, <2>3, EndsAt, ToldOf DEF Verdict, CollectorInOrder, Exchanges, Answered, BestEffort, Terminal
  <2>. QED BY <2>4 DEF next
<1>4. CASE c.at = "usage"
  <2>1. next.at \in {"collected", "quotas", "failed"}
    BY <1>1, <1>4 DEF CerebrasNext
  <2>. HIDE DEF next
  <2>2. Verdict("cerebras-quotas", c, reply, next)
    BY <1>4, <2>1, ToldOf DEF Verdict, CollectorInOrder, Exchanges, Answered, BestEffort, Terminal
  <2>. QED BY <2>2 DEF next
<1>. QED
  BY <1>2, <1>3, <1>4 DEF CollectorInOrder, Exchanges

\* Gemini, likewise.
LEMMA GeminiVerdict ==
    ASSUME NEW c, CollectorInOrder("gemini-cli", c), NEW reply,
           reply.status \in {"ok", "unauthorized", "garbled", "error", "unreachable"}
    PROVE  Verdict("gemini-cli", c, reply, GeminiNext(c, reply))
<1>. DEFINE next == GeminiNext(c, reply)
<1>1. c.at \in {"load", "quota"}
  BY DEF CollectorInOrder, Exchanges
<1>2. reply.status = "ok" => next.at \in {"quota", "collected", "failed"}
  BY <1>1, EndsAt DEF GeminiNext
<1>3. reply.status # "ok" => next = Failed
  BY <1>1 DEF GeminiNext, CodeAssistError
<1>. HIDE DEF next
<1>4. Verdict("gemini-cli", c, reply, next)
  BY <1>1, <1>2, <1>3, EndsAt, ToldOf DEF Verdict, CollectorInOrder, Exchanges, Answered, Terminal
<1>. QED
  BY <1>4 DEF next

\* Antigravity, likewise.
LEMMA AntigravityVerdict ==
    ASSUME NEW c, CollectorInOrder("antigravity", c), NEW reply,
           reply.status \in {"ok", "unauthorized", "retryable", "garbled", "error", "unreachable"}
    PROVE  Verdict("antigravity", c, reply, AntigravityNext(c, reply))
<1>. DEFINE next == AntigravityNext(c, reply)
<1>1. CollectorInOrder("antigravity", FetchModels) /\ FetchModels.at = "models"
  BY DEF CollectorInOrder, Exchanges, FetchModels
<1>2. CASE c.at = "models"
  <2>1. c \in [at : {"models"}, endpoint : Int]
    BY <1>2 DEF CollectorInOrder
  <2>2. next = AfterEndpoint(c, reply)
    BY <1>2 DEF AntigravityNext
  <2>3. reply.status \in {"retryable", "unreachable"} =>
           \/ next \in [at : {"models"}, endpoint : Int] /\ next.at = "models"
           \/ next = Failed
    BY <2>1, <2>2 DEF AfterEndpoint
  <2>4. reply.status = "ok" => next.at = "collected"
    BY <2>2, EndsAt DEF AfterEndpoint
  <2>5. reply.status = "unauthorized" => next = Refused
    BY <2>2, ErrorIsTyped DEF AfterEndpoint
  <2>6. reply.status \in {"garbled", "error"} => next = Failed
    BY <2>2, ErrorIsTyped DEF AfterEndpoint
  <2>. HIDE DEF next
  <2>7. Verdict("antigravity", c, reply, next)
    BY <1>2, <2>3, <2>4, <2>5, <2>6, EndsAt, ToldOf DEF Verdict, CollectorInOrder, Exchanges, Answered, BestEffort, Terminal
  <2>. QED BY <2>7 DEF next
<1>3. CASE c.at \in {"load", "onboard", "poll"}
  <2>1. \A operation, polls :
           \/ AfterOperation(operation, polls) = FetchModels
           \/ AfterOperation(operation, polls).at \in {"poll", "failed"}
    BY EndsAt DEF AfterOperation
  <2>2. reply.status = "ok" => next = FetchModels \/ next.at \in {"onboard", "poll", "failed"}
    <3>1. c.at = "load" /\ reply.status = "ok" => next = FetchModels \/ next.at \in {"onboard", "failed"}
      BY EndsAt DEF AntigravityNext
    <3>2. c.at \in {"onboard", "poll"} /\ reply.status = "ok" =>
             \E operation, polls : next = AfterOperation(operation, polls)
      BY DEF AntigravityNext
    <3>. QED BY <1>3, <2>1, <3>1, <3>2
  <2>3. reply.status # "ok" => next = Failed
    BY <1>3 DEF AntigravityNext, CodeAssistError
  <2>. HIDE DEF next
  <2>4. Verdict("antigravity", c, reply, next)
    BY <1>1, <1>3, <2>2, <2>3, EndsAt, ToldOf DEF Verdict, CollectorInOrder, Exchanges, Answered, Terminal
  <2>. QED BY <2>4 DEF next
<1>. QED
  BY <1>2, <1>3 DEF CollectorInOrder, Exchanges

\* The collectors of one exchange.
Single == {"minimax-remains", "codex", "internlm-quotas", "meituan-longcat-token-usage",
           "openrouter-quotas"}

\* The collectors of one exchange, likewise.
LEMMA SingleVerdict ==
    ASSUME NEW id \in Single, NEW c, CollectorInOrder(id, c), NEW reply,
           reply.status \in
              CASE id \in {"minimax-remains", "openrouter-quotas"} ->
                     {"ok", "unauthorized", "denied", "garbled", "error", "unreachable"}
                [] id = "codex" ->
                     {"ok", "throttled", "unauthorized", "garbled", "error", "unreachable"}
                [] OTHER -> {"ok", "unauthorized", "garbled", "error", "unreachable"}
    PROVE  Verdict(id, c, reply, CollectNext(id, c, reply))
<1>. DEFINE next == CollectNext(id, c, reply)
<1>1. \A rows : SomeRows(rows).at \in {"collected", "failed"}
  BY EndsAt DEF SomeRows
<1>2. /\ reply.status \in {"ok", "throttled"} => next.at \in {"collected", "failed"}
      /\ reply.status = "denied" \/ (reply.status = "unauthorized" /\ id # "openrouter-quotas") => next = Refused
      /\ \/ reply.status \in {"garbled", "error", "unreachable"}
         \/ reply.status = "unauthorized" /\ id = "openrouter-quotas"
         => next = Failed
  <2>1. CASE id = "minimax-remains"
    BY <1>1, <2>1, ErrorIsTyped DEF CollectNext, MinimaxNext
  <2>2. CASE id = "codex"
    BY <2>2, ErrorIsTyped, EndsAt DEF CollectNext, CodexNext
  <2>3. CASE id = "internlm-quotas"
    BY <1>1, <2>3, ErrorIsTyped, EndsAt DEF CollectNext, InternlmNext
  <2>4. CASE id = "meituan-longcat-token-usage"
    BY <1>1, <2>4, ErrorIsTyped, EndsAt DEF CollectNext, MeituanNext
  <2>5. CASE id = "openrouter-quotas"
    BY <2>5, ErrorIsTyped, EndsAt DEF CollectNext, OpenRouterNext
  <2>. QED BY <2>1, <2>2, <2>3, <2>4, <2>5 DEF Single
<1>3. c.at = "probe" /\ id \notin {"gemini-cli", "antigravity", "cerebras-quotas"}
  <2>1. id \notin {"gemini-cli", "antigravity", "cerebras-quotas"} /\ Exchanges(id) = {"probe"}
    BY DEF Single, Exchanges
  <2>. QED BY <2>1 DEF CollectorInOrder
<1>4. reply.status \in {"ok", "throttled", "denied", "unauthorized", "garbled", "error", "unreachable"}
  BY DEF Single
<1>. HIDE DEF next
<1>5. Verdict(id, c, reply, next)
  BY <1>2, <1>3, <1>4, EndsAt, ToldOf DEF Verdict, Answered, Terminal
<1>. QED
  BY <1>5 DEF next

\* Every collector: it goes on in order, or ends as the reply tells.
LEMMA EveryVerdict ==
    ASSUME NEW id \in CollectorIDs, NEW c, CollectorInOrder(id, c), NEW reply \in CollectReplies(id, c)
    PROVE  Verdict(id, c, reply, CollectNext(id, c, reply))
<1>1. CASE id = "mistral-billing"
  BY <1>1, StatusOfReply, MistralVerdict DEF CollectNext
<1>2. CASE id = "google-aistudio-quotas"
  BY <1>2, StatusOfReply, StudioVerdict DEF CollectNext
<1>3. CASE id = "cerebras-quotas"
  <2>1. reply.status \in {"ok", "unauthorized", "denied", "garbled", "error", "unreachable"}
    BY <1>3, StatusOfReply
  <2>2. CollectNext(id, c, reply) = CerebrasNext(c, reply)
    BY <1>3 DEF CollectNext
  <2>. QED BY <1>3, <2>1, <2>2, CerebrasVerdict
<1>4. CASE id = "gemini-cli"
  <2>1. reply.status \in {"ok", "unauthorized", "garbled", "error", "unreachable"}
    BY <1>4, StatusOfReply
  <2>2. CollectNext(id, c, reply) = GeminiNext(c, reply)
    BY <1>4 DEF CollectNext
  <2>. QED BY <1>4, <2>1, <2>2, GeminiVerdict
<1>5. CASE id = "antigravity"
  <2>1. reply.status \in {"ok", "unauthorized", "retryable", "garbled", "error", "unreachable"}
    BY <1>5, StatusOfReply
  <2>2. CollectNext(id, c, reply) = AntigravityNext(c, reply)
    BY <1>5 DEF CollectNext
  <2>. QED BY <1>5, <2>1, <2>2, AntigravityVerdict
<1>6. CASE id \in Single
  BY <1>6, StatusOfReply, SingleVerdict DEF Single
<1>. QED
  BY <1>1, <1>2, <1>3, <1>4, <1>5, <1>6 DEF CollectorIDs, Single
--------------------------------------------------------------------------------
(* What a step makes of a probe.                                                 *)

\* A probe that ends.
LEMMA EndedProbe ==
    ASSUME NEW p, IsProbe(p), NEW outcome \in Outcomes, NEW n, n = Ended(p, outcome)
    PROVE  /\ IsProbe(n) /\ n.step = "done" /\ n.outcome = outcome
           /\ n.rows = p.rows /\ n.read = p.read /\ n.misses = p.misses
           /\ (n.asked <=> p.asked) /\ (n.mixed <=> p.mixed)
  BY DEF IsProbe, Ended, Steps

\* A collection that goes on is in order, and one that ends ends the probe or has
\* rows to be recorded.
LEMMA SettledProbe ==
    ASSUME NEW p, IsProbe(p), NEW c, c.at \in Terminal \/ CollectorInOrder(schema, c),
           NEW n, n = Settled(p, c)
    PROVE  /\ IsProbe(n) /\ n.misses = p.misses
           /\ (n.asked <=> p.asked) /\ (n.mixed <=> p.mixed)
           /\ c.at = "collected" =>
                 \/ /\ n.step = "done" /\ n.outcome = "executed"
                    /\ n.rows = p.rows /\ n.read = p.read
                 \/ /\ n.step = "record" /\ n.outcome = p.outcome
                    /\ n.rows = c.rows /\ n.read = c.rows /\ c.rows # <<>>
           /\ c.at = "refused" =>
                 n.step = "done" /\ n.outcome = "auth_blocked" /\ n.rows = p.rows /\ n.read = p.read
           /\ c.at = "failed" =>
                 n.step = "done" /\ n.outcome = "failed" /\ n.rows = p.rows /\ n.read = p.read
           /\ c.at \notin Terminal =>
                 /\ n.step = "collect" /\ n.outcome = p.outcome /\ n.c = c
                 /\ n.rows = p.rows /\ n.read = p.read
<1>0. {"collected", "refused", "failed"} \subseteq Terminal
  BY DEF Terminal
<1>1. CASE c.at = "collected" /\ c.rows = <<>>
  <2>1. n = Ended(p, "executed") /\ "executed" \in Outcomes
    BY <1>1 DEF Settled, Terminal, Outcomes
  <2>2. /\ IsProbe(n) /\ n.step = "done" /\ n.outcome = "executed"
        /\ n.rows = p.rows /\ n.read = p.read /\ n.misses = p.misses
        /\ (n.asked <=> p.asked) /\ (n.mixed <=> p.mixed)
    BY <2>1, EndedProbe
  <2>. QED BY <1>0, <1>1, <2>2
<1>2. CASE c.at = "collected" /\ c.rows # <<>>
  <2>1. n = [p EXCEPT !.step = "record", !.rows = c.rows, !.read = c.rows]
    BY <1>2 DEF Settled, Terminal
  <2>. QED BY <1>0, <1>2, <2>1 DEF IsProbe, Steps
<1>3. CASE c.at = "refused"
  <2>1. n = Ended(p, "auth_blocked") /\ "auth_blocked" \in Outcomes
    BY <1>3 DEF Settled, Terminal, Outcomes
  <2>2. /\ IsProbe(n) /\ n.step = "done" /\ n.outcome = "auth_blocked"
        /\ n.rows = p.rows /\ n.read = p.read /\ n.misses = p.misses
        /\ (n.asked <=> p.asked) /\ (n.mixed <=> p.mixed)
    BY <2>1, EndedProbe
  <2>. QED BY <1>0, <1>3, <2>2
<1>4. CASE c.at = "failed"
  <2>1. n = Ended(p, "failed") /\ "failed" \in Outcomes
    BY <1>4 DEF Settled, Terminal, Outcomes
  <2>2. /\ IsProbe(n) /\ n.step = "done" /\ n.outcome = "failed"
        /\ n.rows = p.rows /\ n.read = p.read /\ n.misses = p.misses
        /\ (n.asked <=> p.asked) /\ (n.mixed <=> p.mixed)
    BY <2>1, EndedProbe
  <2>. QED BY <1>0, <1>4, <2>2
<1>5. CASE c.at \notin Terminal
  <2>1. n = [p EXCEPT !.step = "collect", !.c = c] /\ c.at \notin {"collected", "refused", "failed"}
    BY <1>5 DEF Settled, Terminal
  <2>. QED BY <1>5, <2>1 DEF IsProbe, Steps
<1>. QED
  BY <1>1, <1>2, <1>3, <1>4, <1>5 DEF Terminal

\* A collector starts with an exchange of its own, or not at all.
LEMMA CollectorStarts ==
    ASSUME NEW id \in CollectorIDs, NEW c, c = CollectStart(id)
    PROVE  c.at = "failed" \/ (CollectorInOrder(id, c) /\ c.at \notin Terminal)
<1>1. CASE id \in {"mistral-billing", "google-aistudio-quotas"}
  <2>1. c.at = "failed" \/ c.at = (IF id = "mistral-billing" THEN "usage headers" ELSE "project id")
    BY <1>1, EndsAt DEF CollectStart, MistralStart, StudioStart
  <2>. QED BY <1>1, <2>1 DEF CollectorInOrder, Exchanges, Terminal
<1>2. CASE id \in {"cerebras-quotas", "gemini-cli", "antigravity"}
  BY <1>2 DEF CollectStart, CollectorInOrder, Exchanges, Terminal, CerebrasStart, GeminiStart, AntigravityStart
<1>3. CASE id \in Single
  <2>1. c = Probing \/ c = Failed
    BY <1>3 DEF Single, CollectStart, MinimaxStart, CodexStart, InternlmStart, MeituanStart, OpenRouterStart
  <2>2. c.at \in {"probe", "failed"}
    BY <2>1, EndsAt DEF Probing
  <2>3. id # "antigravity" /\ Exchanges(id) = {"probe"}
    BY <1>3 DEF Single, Exchanges
  <2>. QED BY <2>2, <2>3 DEF CollectorInOrder, Terminal
<1>. QED
  BY <1>1, <1>2, <1>3 DEF CollectorIDs, Single

\* A probe that does not move stays in order.
LEMMA ProbeUnmoved ==
    ASSUME NEW t \in Tasks, ProbeInOrder(t), OutcomeOfMisses(t),
           schema' = schema, probe'[t] = probe[t]
    PROVE  ProbeInOrder(t)' /\ OutcomeOfMisses(t)'
  BY DEF ProbeInOrder, OutcomeOfMisses, BestEffortAt, Forgiven

\* A step that moves one probe alone, and a probe that records nothing or has all
\* its rows before it.
Alone(t) == gauges' = gauges /\ \A u \in Tasks \ {t} : probe'[u] = probe[u]
NothingShown(p) ==
    /\ p.step = "record" => p.rows # <<>> /\ p.rows = p.read
    /\ p.outcome = "executed" => p.rows = <<>> /\ p.read = <<>>

\* A step of one probe keeps the invariant if the probe stays in order.
LEMMA ProbeMoved ==
    ASSUME IInv, NEW t \in Tasks, NEW n, probe' = [probe EXCEPT ![t] = n], schema' = schema,
           ProbeInOrder(t)', OutcomeOfMisses(t)'
    PROVE  IInv'
<1>1. DOMAIN probe' = Tasks
  BY DEF IInv
<1>2. ASSUME NEW u \in Tasks, u # t
      PROVE  ProbeInOrder(u)' /\ OutcomeOfMisses(u)'
  <2>1. probe'[u] = probe[u]
    BY <1>2 DEF IInv
  <2>. QED BY <2>1, ProbeUnmoved DEF IInv
<1>. QED
  BY <1>1, <1>2 DEF IInv

\* Find keeps the invariant.
LEMMA FindKeeps ==
    ASSUME IInv, NEW t \in Tasks, Find(t)
    PROVE  IInv' /\ Alone(t) /\ NothingShown(probe'[t])
<1>. DEFINE n == CASE ~exists -> Ended(probe[t], "not_found")
                   [] exists /\ schema \notin CollectorIDs -> Ended(probe[t], "unsupported")
                   [] exists /\ schema \in CollectorIDs -> [probe[t] EXCEPT !.step = "found"]
<1>1. probe' = [probe EXCEPT ![t] = n] /\ probe'[t] = n /\ schema' = schema /\ probe[t].step = "idle"
  BY DEF Find, IInv
<1>2. ProbeInOrder(t) /\ OutcomeOfMisses(t) /\ IsProbe(probe[t])
  BY DEF IInv, ProbeInOrder
<1>3. /\ IsProbe(n) /\ ~n.asked /\ n.misses = {} /\ n.read = <<>> /\ n.rows = <<>>
      /\ \/ n.step = "done" /\ n.outcome \in {"not_found", "unsupported"}
         \/ n.step = "found" /\ n.outcome = "" /\ schema \in CollectorIDs
  <2>1. CASE ~exists \/ schema \notin CollectorIDs
    <3>1. PICK outcome \in {"not_found", "unsupported"} : n = Ended(probe[t], outcome)
      BY <2>1
    <3>2. outcome \in Outcomes
      BY DEF Outcomes
    <3>3. /\ IsProbe(n) /\ n.step = "done" /\ n.outcome = outcome
          /\ n.rows = probe[t].rows /\ n.read = probe[t].read /\ n.misses = probe[t].misses
          /\ (n.asked <=> probe[t].asked)
      <4>. HIDE DEF n
      <4>. QED BY <1>2, <3>1, <3>2, EndedProbe
    <3>. QED BY <1>1, <1>2, <3>3 DEF ProbeInOrder
  <2>2. CASE exists /\ schema \in CollectorIDs
    <3>1. n = [probe[t] EXCEPT !.step = "found"]
      BY <2>2
    <3>2. n.outcome = probe[t].outcome /\ probe[t].outcome = ""
      BY <1>1, <1>2, <3>1 DEF ProbeInOrder, IsProbe
    <3>. QED BY <1>1, <1>2, <2>2, <3>1, <3>2 DEF ProbeInOrder, IsProbe, Steps
  <2>. QED BY <2>1, <2>2
<1>. HIDE DEF n
<1>4. ProbeInOrder(t)'
  BY <1>1, <1>3 DEF ProbeInOrder
<1>5. OutcomeOfMisses(t)'
  BY <1>1, <1>3 DEF OutcomeOfMisses
<1>6. Alone(t) /\ NothingShown(probe'[t])
  BY <1>1, <1>3 DEF Alone, NothingShown, IInv, Find
<1>. QED
  BY <1>1, <1>4, <1>5, <1>6, ProbeMoved

\* Get keeps the invariant.
LEMMA GetKeeps ==
    ASSUME IInv, NEW t \in Tasks, Get(t)
    PROVE  IInv' /\ Alone(t) /\ NothingShown(probe'[t])
<1>. DEFINE n == IF exists THEN Settled(probe[t], CollectStart(schema)) ELSE Ended(probe[t], "not_found")
<1>1. probe' = [probe EXCEPT ![t] = n] /\ probe'[t] = n /\ schema' = schema /\ probe[t].step = "found"
  BY DEF Get, IInv
<1>2. /\ ProbeInOrder(t) /\ OutcomeOfMisses(t) /\ IsProbe(probe[t])
      /\ schema \in CollectorIDs /\ probe[t].outcome = ""
  BY <1>1 DEF IInv, ProbeInOrder
<1>3. /\ IsProbe(n) /\ ~n.asked /\ n.misses = {} /\ n.read = <<>> /\ n.rows = <<>>
      /\ \/ n.step = "done" /\ n.outcome \in {"not_found", "failed"}
         \/ n.step = "collect" /\ n.outcome = "" /\ CollectorInOrder(schema, n.c)
  <2>1. CASE exists
    <3>1. PICK c : c = CollectStart(schema)
      OBVIOUS
    <3>2. c.at = "failed" \/ (CollectorInOrder(schema, c) /\ c.at \notin Terminal)
      BY <1>2, <3>1, CollectorStarts
    <3>3. n = Settled(probe[t], c) /\ (c.at \in Terminal \/ CollectorInOrder(schema, c))
      BY <2>1, <3>1, <3>2 DEF Terminal
    <3>4. /\ IsProbe(n) /\ n.misses = probe[t].misses /\ (n.asked <=> probe[t].asked)
          /\ n.rows = probe[t].rows /\ n.read = probe[t].read
          /\ \/ c.at = "failed" /\ n.step = "done" /\ n.outcome = "failed"
             \/ c.at \notin Terminal /\ n.step = "collect" /\ n.outcome = probe[t].outcome /\ n.c = c
      <4>. HIDE DEF n
      <4>0. IsProbe(probe[t])
        BY <1>2
      <4>1. CASE c.at = "failed"
        <5>1. /\ IsProbe(n) /\ n.misses = probe[t].misses /\ (n.asked <=> probe[t].asked)
              /\ n.rows = probe[t].rows /\ n.read = probe[t].read
              /\ n.step = "done" /\ n.outcome = "failed"
          BY <4>0, <3>3, <4>1, SettledProbe
        <5>. QED BY <4>1, <5>1
      <4>2. CASE c.at \notin Terminal
        <5>1. c.at \notin {"collected", "refused", "failed"}
          BY <4>2 DEF Terminal
        <5>2. /\ IsProbe(n) /\ n.misses = probe[t].misses /\ (n.asked <=> probe[t].asked)
              /\ n.rows = probe[t].rows /\ n.read = probe[t].read
              /\ n.step = "collect" /\ n.outcome = probe[t].outcome /\ n.c = c
          BY <4>0, <3>3, <4>2, <5>1, SettledProbe
        <5>. QED BY <4>2, <5>2
      <4>. QED BY <3>2, <4>1, <4>2
    <3>. QED BY <1>1, <1>2, <3>2, <3>4 DEF ProbeInOrder, Terminal
  <2>2. CASE ~exists
    <3>1. PICK outcome \in Outcomes : outcome = "not_found" /\ n = Ended(probe[t], outcome)
      BY <2>2 DEF Outcomes
    <3>2. /\ IsProbe(n) /\ n.step = "done" /\ n.outcome = outcome
          /\ n.rows = probe[t].rows /\ n.read = probe[t].read /\ n.misses = probe[t].misses
          /\ (n.asked <=> probe[t].asked)
      <4>1. IsProbe(probe[t]) /\ n = Ended(probe[t], outcome)
        BY <1>2, <3>1
      <4>. HIDE DEF n
      <4>. QED BY <4>1, EndedProbe
    <3>. QED BY <1>1, <1>2, <3>1, <3>2 DEF ProbeInOrder
  <2>. QED BY <2>1, <2>2
<1>. HIDE DEF n
<1>4. ProbeInOrder(t)'
  BY <1>1, <1>2, <1>3 DEF ProbeInOrder
<1>5. OutcomeOfMisses(t)'
  BY <1>1, <1>3 DEF OutcomeOfMisses
<1>6. Alone(t) /\ NothingShown(probe'[t])
  BY <1>1, <1>2, <1>3 DEF Alone, NothingShown, IInv, Get
<1>. QED
  BY <1>1, <1>4, <1>5, <1>6, ProbeMoved

\* Exchange keeps the invariant.
LEMMA ExchangeKeeps ==
    ASSUME IInv, NEW t \in Tasks, Exchange(t)
    PROVE  IInv' /\ Alone(t) /\ NothingShown(probe'[t])
<1>. DEFINE c == probe[t].c
<1>1. ProbeInOrder(t) /\ OutcomeOfMisses(t) /\ IsProbe(probe[t]) /\ probe[t].step = "collect"
  BY DEF Exchange, IInv, ProbeInOrder
<1>2. schema \in CollectorIDs /\ CollectorInOrder(schema, c) /\ probe[t].outcome = ""
  BY <1>1 DEF ProbeInOrder
<1>3. schema' = schema
  BY DEF Exchange
<1>a. PICK reply \in CollectReplies(schema, c) :
         \E next \in {CollectNext(schema, c, reply)} :
            probe' = [probe EXCEPT ![t] =
               LET missed == IF reply.status \in {"ok", "headers", "throttled"} THEN {}
                             ELSE {<<c.at, Told(schema, c.at, reply)>>}
               IN  Settled([probe[t] EXCEPT !.asked = TRUE, !.misses = @ \cup missed], next)]
  BY DEF Exchange
<1>b. PICK next \in {CollectNext(schema, c, reply)} :
            probe' = [probe EXCEPT ![t] =
               LET missed == IF reply.status \in {"ok", "headers", "throttled"} THEN {}
                             ELSE {<<c.at, Told(schema, c.at, reply)>>}
               IN  Settled([probe[t] EXCEPT !.asked = TRUE, !.misses = @ \cup missed], next)]
  BY <1>a
<1>. DEFINE missed == IF reply.status \in {"ok", "headers", "throttled"} THEN {}
                      ELSE {<<c.at, Told(schema, c.at, reply)>>}
            p == [probe[t] EXCEPT !.asked = TRUE, !.misses = @ \cup missed]
            n == Settled(p, next)
<1>4. probe' = [probe EXCEPT ![t] = n] /\ probe'[t] = n
  <2>1. probe' = [probe EXCEPT ![t] = n]
    BY <1>b
  <2>. HIDE DEF n
  <2>. QED BY <2>1 DEF IInv
<1>5. Verdict(schema, c, reply, next)
  BY <1>2, <1>b, EveryVerdict
<1>6. /\ IsProbe(p) /\ p.asked /\ p.misses = probe[t].misses \cup missed
      /\ p.read = <<>> /\ p.rows = <<>> /\ p.outcome = ""
  BY <1>1, <1>2 DEF IsProbe, ProbeInOrder
<1>7. \A miss \in missed : miss[1] = c.at /\ (miss[2] <=> Told(schema, c.at, reply)) /\ ~Answered(reply)
  BY DEF Answered
<1>8. Told(schema, c.at, reply) => ~Answered(reply) /\ \E miss \in missed : miss[1] = c.at /\ miss[2]
  <2>1. Told(schema, c.at, reply) => ~Answered(reply)
    BY ToldOf DEF Answered
  <2>2. ~Answered(reply) => <<c.at, Told(schema, c.at, reply)>> \in missed
    BY DEF Answered
  <2>. QED BY <2>1, <2>2
<1>9. /\ IsProbe(n) /\ n.asked /\ n.misses = probe[t].misses \cup missed
      /\ \/ next.at = "collected" /\ n.step = "done" /\ n.outcome = "executed" /\ n.read = <<>> /\ n.rows = <<>>
         \/ /\ next.at = "collected" /\ n.step = "record" /\ n.outcome = ""
            /\ n.rows # <<>> /\ n.rows = n.read
         \/ next.at = "refused" /\ n.step = "done" /\ n.outcome = "auth_blocked"
         \/ next.at = "failed" /\ n.step = "done" /\ n.outcome = "failed"
         \/ /\ next.at \notin Terminal /\ n.step = "collect" /\ n.outcome = "" /\ n.c = next
            /\ n.read = <<>> /\ n.rows = <<>>
  <2>1. n = Settled(p, next)
    OBVIOUS
  <2>. HIDE DEF p, missed, n
  <2>2. next.at \in Terminal \/ CollectorInOrder(schema, next)
    BY <1>5 DEF Verdict
  <2>3. IsProbe(p)
    BY <1>6
  <2>4. /\ IsProbe(n) /\ n.misses = p.misses /\ (n.asked <=> p.asked)
    BY <2>1, <2>2, <2>3, SettledProbe
  <2>5. CASE next.at = "collected"
    <3>1. \/ n.step = "done" /\ n.outcome = "executed" /\ n.rows = p.rows /\ n.read = p.read
          \/ n.step = "record" /\ n.outcome = p.outcome /\ n.rows # <<>> /\ n.rows = n.read
      BY <2>1, <2>2, <2>3, <2>5, SettledProbe
    <3>. QED BY <1>6, <2>4, <2>5, <3>1
  <2>6. CASE next.at = "refused"
    <3>1. n.step = "done" /\ n.outcome = "auth_blocked"
      BY <2>1, <2>2, <2>3, <2>6, SettledProbe
    <3>. QED BY <1>6, <2>4, <2>6, <3>1
  <2>7. CASE next.at = "failed"
    <3>1. n.step = "done" /\ n.outcome = "failed"
      BY <2>1, <2>2, <2>3, <2>7, SettledProbe
    <3>. QED BY <1>6, <2>4, <2>7, <3>1
  <2>8. CASE next.at \notin Terminal
    <3>1. /\ n.step = "collect" /\ n.outcome = p.outcome /\ n.c = next
          /\ n.rows = p.rows /\ n.read = p.read
      <4>1. next.at \notin {"collected", "refused", "failed"}
        BY <2>8 DEF Terminal
      <4>. QED BY <2>1, <2>2, <2>3, <2>8, <4>1, SettledProbe
    <3>. QED BY <1>6, <2>4, <2>8, <3>1
  <2>. QED BY <2>5, <2>6, <2>7, <2>8 DEF Terminal
<1>. HIDE DEF n, missed
<1>10. ProbeInOrder(t)'
  BY <1>2, <1>3, <1>4, <1>5, <1>9 DEF ProbeInOrder, Verdict
<1>11. OutcomeOfMisses(t)'
  <2>2. BestEffortAt(c.at) <=> <<schema, c.at>> \in BestEffort
    BY DEF BestEffortAt
  <2>3. \A miss \in probe[t].misses : Forgiven(miss)
    BY <1>1 DEF OutcomeOfMisses
  <2>4. next.at \notin {"refused", "failed"} => \A miss \in missed : Forgiven(miss)
    BY <1>5, <1>7, <2>2 DEF Verdict, Forgiven
  <2>5. next.at = "failed" => \A miss \in missed : ~miss[2]
    BY <1>5, <1>7 DEF Verdict
  <2>6. next.at = "refused" => \E miss \in missed : miss[2]
    BY <1>5, <1>8 DEF Verdict
  <2>7. \A miss : Forgiven(miss)' <=> Forgiven(miss)
    BY <1>3 DEF Forgiven, BestEffortAt
  <2>8. CASE n.step \in {"collect", "record"} \/ n.outcome = "executed"
    BY <1>4, <1>9, <2>3, <2>4, <2>7, <2>8 DEF OutcomeOfMisses, Terminal
  <2>9. CASE next.at = "failed" /\ n.step = "done" /\ n.outcome = "failed"
    BY <1>4, <1>9, <2>3, <2>5, <2>7, <2>9 DEF OutcomeOfMisses, Forgiven
  <2>10. CASE next.at = "refused" /\ n.step = "done" /\ n.outcome = "auth_blocked"
    BY <1>4, <1>9, <2>6, <2>7, <2>10 DEF OutcomeOfMisses
  <2>. QED BY <1>9, <2>8, <2>9, <2>10
<1>12. Alone(t)
  BY <1>4 DEF Alone, IInv, Exchange
<1>13. NothingShown(probe'[t])
  BY <1>4, <1>9 DEF NothingShown
<1>. QED
  BY <1>3, <1>4, <1>10, <1>11, <1>12, <1>13, ProbeMoved

\* Recording a row moves the recording probe, and marks the others that have read.
LEMMA RecordedRow ==
    ASSUME IInv, NEW t \in Tasks, RecordRow(t)
    PROVE  /\ DOMAIN probe' = Tasks /\ schema' = schema
           /\ gauges' = Record(gauges, Head(probe[t].rows))
           /\ probe[t].step = "record" /\ IsProbe(probe'[t])
           /\ probe'[t].rows = Tail(probe[t].rows) /\ probe'[t].read = probe[t].read
           /\ (probe'[t].asked <=> probe[t].asked) /\ (probe'[t].mixed <=> probe[t].mixed)
           /\ probe'[t].misses = probe[t].misses
           /\ \/ /\ probe'[t].step = "done" /\ probe'[t].outcome = "executed"
                 /\ Tail(probe[t].rows) = <<>>
              \/ /\ probe'[t].step = "record" /\ probe'[t].outcome = probe[t].outcome
                 /\ Tail(probe[t].rows) # <<>>
           /\ \A u \in Tasks \ {t} :
                 /\ IsProbe(probe'[u]) /\ probe'[u].c = probe[u].c
                 /\ probe'[u].step = probe[u].step /\ probe'[u].outcome = probe[u].outcome
                 /\ probe'[u].rows = probe[u].rows /\ probe'[u].read = probe[u].read
                 /\ (probe'[u].asked <=> probe[u].asked) /\ probe'[u].misses = probe[u].misses
                 /\ (probe'[u].mixed <=> (probe[u].mixed \/ probe[u].read # <<>>))
<1>. DEFINE rest == [probe[t] EXCEPT !.rows = Tail(@)]
            n == IF rest.rows = <<>> THEN Ended(rest, "executed") ELSE rest
            marked(u) == [probe[u] EXCEPT !.mixed = @ \/ probe[u].read # <<>>]
<1>1. /\ probe' = [u \in Tasks |-> IF u = t THEN n ELSE marked(u)]
      /\ schema' = schema /\ gauges' = Record(gauges, Head(probe[t].rows)) /\ probe[t].step = "record"
  BY DEF RecordRow
<1>2. \A u \in Tasks : IsProbe(probe[u])
  BY DEF IInv, ProbeInOrder
<1>3. /\ IsProbe(rest) /\ rest.rows = Tail(probe[t].rows) /\ rest.read = probe[t].read
      /\ (rest.asked <=> probe[t].asked) /\ (rest.mixed <=> probe[t].mixed)
      /\ rest.misses = probe[t].misses /\ rest.step = probe[t].step /\ rest.outcome = probe[t].outcome
  BY <1>2 DEF IsProbe
<1>4. /\ IsProbe(n) /\ n.rows = Tail(probe[t].rows) /\ n.read = probe[t].read
      /\ (n.asked <=> probe[t].asked) /\ (n.mixed <=> probe[t].mixed) /\ n.misses = probe[t].misses
      /\ \/ n.step = "done" /\ n.outcome = "executed" /\ Tail(probe[t].rows) = <<>>
         \/ n.step = "record" /\ n.outcome = probe[t].outcome /\ Tail(probe[t].rows) # <<>>
  <2>1. CASE Tail(probe[t].rows) = <<>>
    <3>1. PICK outcome \in Outcomes : outcome = "executed"
      BY DEF Outcomes
    <3>2. n = Ended(rest, outcome)
      BY <1>3, <2>1, <3>1
    <3>. HIDE DEF n, rest
    <3>3. /\ IsProbe(n) /\ n.step = "done" /\ n.outcome = outcome /\ n.rows = rest.rows
          /\ n.read = rest.read /\ n.misses = rest.misses
          /\ (n.asked <=> rest.asked) /\ (n.mixed <=> rest.mixed)
      BY <1>3, <3>2, EndedProbe
    <3>. QED BY <1>3, <2>1, <3>1, <3>3
  <2>2. CASE Tail(probe[t].rows) # <<>>
    <3>1. n = rest
      BY <1>3, <2>2
    <3>. HIDE DEF n, rest
    <3>. QED BY <1>1, <1>3, <2>2, <3>1
  <2>. QED BY <2>1, <2>2
<1>5. ASSUME NEW u \in Tasks
      PROVE  /\ IsProbe(marked(u)) /\ marked(u).c = probe[u].c
             /\ marked(u).step = probe[u].step /\ marked(u).outcome = probe[u].outcome
             /\ marked(u).rows = probe[u].rows /\ marked(u).read = probe[u].read
             /\ (marked(u).asked <=> probe[u].asked) /\ marked(u).misses = probe[u].misses
             /\ (marked(u).mixed <=> (probe[u].mixed \/ probe[u].read # <<>>))
  BY <1>2 DEF IsProbe
<1>6. probe'[t] = n /\ \A u \in Tasks \ {t} : probe'[u] = marked(u)
  <2>. HIDE DEF n, marked
  <2>. QED BY <1>1
<1>. HIDE DEF n, rest, marked
<1>7. ASSUME NEW u \in Tasks \ {t}
      PROVE  /\ IsProbe(probe'[u]) /\ probe'[u].c = probe[u].c
             /\ probe'[u].step = probe[u].step /\ probe'[u].outcome = probe[u].outcome
             /\ probe'[u].rows = probe[u].rows /\ probe'[u].read = probe[u].read
             /\ (probe'[u].asked <=> probe[u].asked) /\ probe'[u].misses = probe[u].misses
             /\ (probe'[u].mixed <=> (probe[u].mixed \/ probe[u].read # <<>>))
  BY <1>5, <1>6
<1>. QED
  BY <1>1, <1>4, <1>6, <1>7

\* RecordRow keeps the invariant.
LEMMA RecordKeeps ==
    ASSUME IInv, NEW t \in Tasks, RecordRow(t)
    PROVE  IInv'
<1>1. ProbeInOrder(t)' /\ OutcomeOfMisses(t)'
  <2>1. /\ IsProbe(probe'[t]) /\ schema' = schema /\ probe[t].step = "record"
        /\ (probe'[t].asked <=> probe[t].asked) /\ probe'[t].misses = probe[t].misses
        /\ \/ probe'[t].step = "done" /\ probe'[t].outcome = "executed"
           \/ probe'[t].step = "record" /\ probe'[t].outcome = probe[t].outcome
    BY RecordedRow
  <2>2. ProbeInOrder(t) /\ OutcomeOfMisses(t)
    BY DEF IInv
  <2>3. probe[t].outcome = "" /\ \A miss \in probe[t].misses : Forgiven(miss)
    BY <2>1, <2>2 DEF ProbeInOrder, OutcomeOfMisses, IsProbe
  <2>4. ProbeInOrder(t)'
    BY <2>1, <2>3 DEF ProbeInOrder
  <2>5. OutcomeOfMisses(t)'
    BY <2>1, <2>3 DEF OutcomeOfMisses, BestEffortAt, Forgiven
  <2>. QED BY <2>4, <2>5
<1>2. ASSUME NEW u \in Tasks \ {t}
      PROVE  ProbeInOrder(u)' /\ OutcomeOfMisses(u)'
  <2>1. /\ IsProbe(probe'[u]) /\ probe'[u].c = probe[u].c /\ schema' = schema
        /\ probe'[u].step = probe[u].step /\ probe'[u].outcome = probe[u].outcome
        /\ probe'[u].rows = probe[u].rows /\ probe'[u].read = probe[u].read
        /\ (probe'[u].asked <=> probe[u].asked) /\ probe'[u].misses = probe[u].misses
    BY RecordedRow
  <2>2. ProbeInOrder(u) /\ OutcomeOfMisses(u)
    BY DEF IInv
  <2>3. ProbeInOrder(u)'
    BY <2>1, <2>2 DEF ProbeInOrder, CollectorInOrder
  <2>4. OutcomeOfMisses(u)'
    BY <2>1, <2>2 DEF OutcomeOfMisses, BestEffortAt, Forgiven
  <2>. QED BY <2>3, <2>4
<1>. QED
  BY <1>1, <1>2, RecordedRow DEF IInv

\* Every probe stays in order, and its outcome the verdict on what it lost.
LEMMA InductiveInvariant == Spec => []IInv
<1>1. Init => IInv
  <2>. SUFFICES ASSUME Init PROVE IInv
    OBVIOUS
  <2>1. DOMAIN probe = Tasks /\ \A t \in Tasks : probe[t] = Idle
    BY DEF Init
  <2>2. /\ IsProbe(Idle) /\ Idle.step = "idle" /\ Idle.outcome = "" /\ ~Idle.asked /\ Idle.misses = {}
        /\ Idle.read = <<>> /\ Idle.rows = <<>>
    BY DEF IsProbe, Idle, Steps, Outcomes
  <2>. QED BY <2>1, <2>2 DEF IInv, ProbeInOrder, OutcomeOfMisses
<1>2. IInv /\ [Next]_vars => IInv'
  <2>. SUFFICES ASSUME IInv, [Next]_vars PROVE IInv'
    OBVIOUS
  <2>1. CASE \E t \in Tasks : Step(t)
    BY <2>1, FindKeeps, GetKeeps, ExchangeKeeps, RecordKeeps DEF Step
  <2>2. CASE DeleteProvider \/ Finished \/ UNCHANGED vars
    <3>1. probe' = probe /\ schema' = schema
      BY <2>2 DEF DeleteProvider, Finished, vars
    <3>. QED BY <3>1, ProbeUnmoved DEF IInv
  <2>. QED BY <2>1, <2>2 DEF Next
<1>. QED
  BY <1>1, <1>2, PTL DEF Spec

--------------------------------------------------------------------------------
(* A probe that reports success has read all that its reading rests on: from the *)
(* verdicts, which let a collection go on only after an answer or a loss that its *)
(* collector treats as best effort.                                              *)
THEOREM SuccessRestsOnEverything == Spec => []ExecutedReadEverything
<1>1. IInv => ExecutedReadEverything
  BY DEF IInv, OutcomeOfMisses, Forgiven, BestEffortAt, ExecutedReadEverything, Reading
<1>. QED
  BY <1>1, InductiveInvariant, PTL

(* A probe is reported blocked exactly when its vendor denied an exchange in a   *)
(* way the collector can tell, OpenRouter's by the words of the error and not by *)
(* its status, for every vendor's reply and schedule.                            *)
THEOREM BlockedMeansDenied == Spec => []AuthBlockedIffDenied
<1>1. IInv => AuthBlockedIffDenied
  <2>. SUFFICES ASSUME IInv, NEW t \in Tasks, probe[t].step = "done", probe[t].asked
                PROVE  probe[t].outcome = "auth_blocked" <=>
                          \E miss \in probe[t].misses : miss[2]
    BY DEF AuthBlockedIffDenied
  <2>1. ProbeInOrder(t) /\ OutcomeOfMisses(t)
    BY DEF IInv
  <2>2. probe[t].outcome \in {"executed", "auth_blocked", "failed"}
    BY <2>1 DEF ProbeInOrder, OutcomeOfMisses, IsProbe, Outcomes
  <2>3. CASE probe[t].outcome = "auth_blocked"
    BY <2>1, <2>3 DEF OutcomeOfMisses
  <2>4. CASE probe[t].outcome = "executed"
    BY <2>1, <2>4 DEF OutcomeOfMisses, Forgiven
  <2>5. CASE probe[t].outcome = "failed"
    BY <2>1, <2>5 DEF OutcomeOfMisses
  <2>. QED BY <2>2, <2>3, <2>4, <2>5
<1>. QED
  BY <1>1, InductiveInvariant, PTL

--------------------------------------------------------------------------------
(* The gauges.                                                                   *)

\* A probe that records nothing yet has its rows in order.
LEMMA NothingShownYet ==
    ASSUME NEW t \in Tasks, NothingShown(probe'[t]), ReadsAreLists', ProbeInOrder(t)'
    PROVE  RowsInOrder(t)'
<1>. DEFINE p == probe'[t]
<1>1. p.read \in Seq(Range(p.read))
  BY DEF ReadsAreLists, IsList
<1>2. p.step = "record" => p.outcome = ""
  BY DEF ProbeInOrder
<1>3. CASE p.step = "record"
  <2>1. p.rows = p.read /\ p.rows # <<>> /\ Len(p.read) \in Nat
    BY <1>1, <1>3 DEF NothingShown
  <2>2. Shown(t)' = 0 /\ p.rows \in Seq(Range(p.read)) /\ p.outcome # "executed"
    <3>1. Shown(t)' = Len(p.read) - Len(p.rows)
      BY DEF Shown
    <3>2. Shown(t)' = 0
      BY <2>1, <3>1
    <3>3. p.rows \in Seq(Range(p.read))
      BY <1>1, <2>1
    <3>. QED BY <1>2, <1>3, <3>2, <3>3
  <2>3. \A i \in 1 .. Len(p.rows) : p.rows[i] = p.read[Shown(t)' + i]
    BY <2>1, <2>2
  <2>4. Len(p.rows) <= Len(p.read)
    BY <2>1
  <2>. QED BY <2>1, <2>2, <2>3, <2>4 DEF RowsInOrder
<1>4. CASE p.outcome = "executed"
  <2>1. p.rows = <<>> /\ p.read = <<>>
    BY <1>4 DEF NothingShown
  <2>2. p.step # "record"
    BY <1>2, <1>4
  <2>. QED BY <1>1, <2>1, <2>2 DEF RowsInOrder, Shown
<1>5. CASE p.step # "record" /\ p.outcome # "executed"
  BY <1>5 DEF RowsInOrder
<1>. QED
  BY <1>3, <1>4, <1>5

\* Nothing is recorded at first.
LEMMA FirstRowsInOrder ==
    Init => RecordingInOrder
<1>. SUFFICES ASSUME Init, NEW t \in Tasks PROVE RowsInOrder(t)
  BY DEF RecordingInOrder
<1>1. probe[t].step = "idle" /\ probe[t].outcome = ""
  BY DEF Init, Idle
<1>. QED
  BY <1>1 DEF RowsInOrder

\* The rows of a probe that neither moves nor is marked, while the gauges stay.
LEMMA RowsUnmoved ==
    ASSUME NEW t \in Tasks, RowsInOrder(t), probe'[t] = probe[t], gauges' = gauges
    PROVE  RowsInOrder(t)'
  BY DEF RowsInOrder, Shown

\* The recording probe shows one row more.
LEMMA RecordedInOrder ==
    ASSUME IInv, NEW t \in Tasks, RecordRow(t), RowsInOrder(t), ReadsAreLists
    PROVE  RowsInOrder(t)'
<1>. DEFINE read == probe[t].read
            rows == probe[t].rows
            row == Head(rows)
            shown == Shown(t)
<1>1. /\ probe[t].step = "record" /\ rows # <<>> /\ rows \in Seq(Range(read)) /\ Len(rows) <= Len(read)
      /\ \A i \in 1 .. Len(rows) : rows[i] = read[shown + i]
      /\ ~probe[t].mixed =>
            \A i \in 1 .. shown :
               /\ GaugeOf(read[i]) \in DOMAIN gauges
               /\ (\A j \in 1 .. shown : j > i => GaugeOf(read[j]) # GaugeOf(read[i]))
                     => gauges[GaugeOf(read[i])] = read[i].value
  BY RecordedRow DEF RowsInOrder
<1>2. /\ probe'[t].read = read /\ probe'[t].rows = Tail(rows) /\ (probe'[t].mixed <=> probe[t].mixed)
      /\ gauges' = Record(gauges, row)
  BY RecordedRow
<1>3. /\ probe'[t].step = "record" => Tail(rows) # <<>>
      /\ probe'[t].outcome = "executed" => Tail(rows) = <<>>
  <2>1. ProbeInOrder(t)' /\ ProbeInOrder(t)
    BY RecordKeeps DEF IInv
  <2>2. probe[t].outcome = ""
    BY <1>1, <2>1 DEF ProbeInOrder
  <2>. QED BY <2>2, RecordedRow
<1>4. /\ Len(rows) \in Nat \ {0} /\ Len(read) \in Nat /\ shown = Len(read) - Len(rows)
      /\ row = rows[1]
  <2>1. read \in Seq(Range(read))
    BY DEF ReadsAreLists, IsList
  <2>. QED BY <1>1, <2>1 DEF Shown
<1>5. /\ Tail(rows) \in Seq(Range(read)) /\ Len(Tail(rows)) = Len(rows) - 1
      /\ \A i \in 1 .. Len(Tail(rows)) : Tail(rows)[i] = rows[i + 1]
  <2>1. rows \in Seq(Range(read)) /\ rows # <<>>
    BY <1>1
  <2>. HIDE DEF rows, read
  <2>. QED BY <2>1
<1>6. Shown(t)' = shown + 1 /\ shown \in Nat /\ row = read[shown + 1]
  <2>1. Shown(t)' = Len(read) - Len(Tail(rows))
    BY <1>2 DEF Shown
  <2>. HIDE DEF read, rows, row, shown
  <2>. QED BY <1>1, <1>4, <1>5, <2>1
<1>. HIDE DEF read, rows, row, shown
<1>7. \A i \in 1 .. Len(Tail(rows)) : Tail(rows)[i] = read[shown + 1 + i]
  <2>. SUFFICES ASSUME NEW i \in 1 .. Len(Tail(rows)) PROVE Tail(rows)[i] = read[shown + 1 + i]
    OBVIOUS
  <2>1. Tail(rows)[i] = rows[i + 1] /\ i + 1 \in 1 .. Len(rows) /\ shown + (i + 1) = shown + 1 + i
    <3>1. Len(Tail(rows)) = Len(rows) - 1 /\ Len(rows) \in Nat /\ shown \in Nat
      BY <1>4, <1>5, <1>6
    <3>2. i + 1 \in 1 .. Len(rows) /\ shown + (i + 1) = shown + 1 + i
      BY <3>1
    <3>. QED BY <1>5, <3>2
  <2>2. rows[i + 1] = read[shown + (i + 1)]
    BY <1>1, <2>1
  <2>. QED BY <2>1, <2>2
<1>8. /\ DOMAIN gauges' = DOMAIN gauges \cup {GaugeOf(row)}
      /\ gauges'[GaugeOf(row)] = row.value
      /\ \A gauge \in DOMAIN gauges : gauge # GaugeOf(row) => gauges'[gauge] = gauges[gauge]
  <2>1. gauges' = Record(gauges, row)
    BY <1>2
  <2>. QED BY <2>1 DEF Record, Put
<1>9. ASSUME ~probe[t].mixed, NEW i \in 1 .. (shown + 1)
      PROVE  /\ GaugeOf(read[i]) \in DOMAIN gauges'
             /\ (\A j \in 1 .. (shown + 1) : j > i => GaugeOf(read[j]) # GaugeOf(read[i]))
                   => gauges'[GaugeOf(read[i])] = read[i].value
  <2>1. CASE i = shown + 1
    BY <1>6, <1>8, <2>1
  <2>2. CASE i \in 1 .. shown
    <3>1. /\ GaugeOf(read[i]) \in DOMAIN gauges
          /\ (\A j \in 1 .. shown : j > i => GaugeOf(read[j]) # GaugeOf(read[i]))
                => gauges[GaugeOf(read[i])] = read[i].value
      BY <1>1, <1>9, <2>2
    <3>2. ASSUME \A j \in 1 .. (shown + 1) : j > i => GaugeOf(read[j]) # GaugeOf(read[i])
          PROVE  gauges'[GaugeOf(read[i])] = read[i].value
      <4>1. GaugeOf(row) # GaugeOf(read[i])
        BY <1>6, <2>2, <3>2
      <4>2. \A j \in 1 .. shown : j > i => GaugeOf(read[j]) # GaugeOf(read[i])
        BY <1>6, <3>2
      <4>. QED BY <1>8, <3>1, <4>1, <4>2
    <3>. QED BY <1>8, <3>1, <3>2
  <2>. QED BY <1>6, <2>1, <2>2
<1>10. Len(Tail(rows)) <= Len(read)
  BY <1>1, <1>4, <1>5
<1>. QED
  BY <1>2, <1>3, <1>5, <1>6, <1>7, <1>9, <1>10 DEF RowsInOrder

\* A probe that has read rows while another records is marked.
LEMMA MarkedInOrder ==
    ASSUME IInv, NEW t \in Tasks, RecordRow(t), NEW u \in Tasks \ {t}, RowsInOrder(u)
    PROVE  RowsInOrder(u)'
<1>1. /\ probe'[u].step = probe[u].step /\ probe'[u].outcome = probe[u].outcome
      /\ probe'[u].rows = probe[u].rows /\ probe'[u].read = probe[u].read
      /\ (probe'[u].mixed <=> (probe[u].mixed \/ probe[u].read # <<>>))
  BY RecordedRow
<1>2. Shown(u)' = Shown(u)
  BY <1>1 DEF Shown
<1>3. CASE probe[u].read # <<>>
  <2>1. probe'[u].mixed
    BY <1>1, <1>3
  <2>. QED BY <1>1, <1>2, <2>1 DEF RowsInOrder
<1>4. CASE probe[u].read = <<>> /\ (probe[u].step = "record" \/ probe[u].outcome = "executed")
  <2>1. probe[u].rows \in Seq(Range(probe[u].read)) /\ Len(probe[u].rows) <= Len(probe[u].read)
    BY <1>4 DEF RowsInOrder
  <2>2. Len(probe[u].read) = 0 /\ Len(probe[u].rows) \in Nat
    BY <1>4, <2>1
  <2>3. Shown(u) = 0
    BY <2>1, <2>2 DEF Shown
  <2>4. \A i \in 1 .. Shown(u)' : FALSE
    BY <1>2, <2>3
  <2>. QED BY <1>1, <1>2, <2>4 DEF RowsInOrder
<1>5. CASE ~(probe[u].step = "record" \/ probe[u].outcome = "executed")
  BY <1>1, <1>5 DEF RowsInOrder
<1>. QED
  BY <1>3, <1>4, <1>5

\* Recording stays in order while what a probe reads is a list.
LEMMA RecordingKept ==
    ASSUME IInv, RecordingInOrder, ReadsAreLists, ReadsAreLists', [Next]_vars
    PROVE  RecordingInOrder'
<1>1. ASSUME NEW t \in Tasks, Find(t) \/ Get(t) \/ Exchange(t)
      PROVE  RecordingInOrder'
  <2>1. IInv' /\ Alone(t) /\ NothingShown(probe'[t])
    BY <1>1, FindKeeps, GetKeeps, ExchangeKeeps
  <2>2. RowsInOrder(t)'
    BY <2>1, NothingShownYet DEF IInv
  <2>3. \A u \in Tasks \ {t} : RowsInOrder(u)'
    BY <2>1, RowsUnmoved DEF Alone, RecordingInOrder
  <2>. QED BY <2>2, <2>3 DEF RecordingInOrder
<1>2. ASSUME NEW t \in Tasks, RecordRow(t)
      PROVE  RecordingInOrder'
  BY <1>2, RecordedInOrder, MarkedInOrder DEF RecordingInOrder
<1>3. CASE DeleteProvider \/ Finished \/ UNCHANGED vars
  <2>1. probe' = probe /\ gauges' = gauges
    BY <1>3 DEF DeleteProvider, Finished, vars
  <2>. QED BY <2>1, RowsUnmoved DEF RecordingInOrder
<1>. QED
  BY <1>1, <1>2, <1>3 DEF Next, Step

--------------------------------------------------------------------------------
(* Loops over lists.                                                             *)

\* A set of numbers that is not empty has a least one.
LEMMA Least ==
    ASSUME NEW T \in SUBSET Nat, T # {}
    PROVE  \E m \in T : \A k \in T : m <= k
<1>1. PICK m \in T : \A k \in T : ~ (<<k, m>> \in OpToRel(<, Nat))
  BY NatLessThanWellFounded, WFMin
<1>2. \A k \in T : ~(k < m)
  BY <1>1 DEF OpToRel
<1>. QED
  BY <1>2

\* Induction, of a set: a fact P is proved of every number with {n \in Nat : P} for T.
LEMMA Induction ==
    ASSUME NEW T, 0 \in T, \A n \in Nat : n \in T => n + 1 \in T
    PROVE  \A n \in Nat : n \in T
<1>. SUFFICES ASSUME Nat \ T # {} PROVE FALSE
  OBVIOUS
<1>1. PICK m \in Nat \ T : \A k \in Nat \ T : m <= k
  BY Least
<1>2. m # 0 /\ m - 1 \in Nat /\ m - 1 \in T
  BY <1>1
<1>. QED
  BY <1>1, <1>2

\* A loop of m turns that starts with first: f[n] is what it has after n turns.
Turns(V, m, next) == \A n \in 1 .. m, v \in V : next[<<n, v>>] \in V
Runs(f, V, first, m, next) ==
    f \in [0 .. m -> V] /\ f[0] = first /\ \A n \in 1 .. m : f[n] = next[<<n, f[n - 1]>>]

\* Every such loop has a value after every turn.
LEMMA Loop ==
    ASSUME NEW V, NEW first, first \in V, NEW m, m \in Nat, NEW next, Turns(V, m, next)
    PROVE  \E f : Runs(f, V, first, m, next)
<1>. DEFINE T == {k \in Nat : k <= m => \E f : Runs(f, V, first, k, next)}
<1>1. 0 \in T
  <2>1. Runs([n \in 0 .. 0 |-> first], V, first, 0, next)
    BY DEF Runs
  <2>. QED BY <2>1
<1>2. ASSUME NEW k \in Nat, k \in T PROVE k + 1 \in T
  <2>. SUFFICES ASSUME k + 1 <= m PROVE \E f : Runs(f, V, first, k + 1, next)
    OBVIOUS
  <2>1. PICK f : Runs(f, V, first, k, next)
    BY <1>2
  <2>. DEFINE g == [n \in 0 .. k + 1 |-> IF n = k + 1 THEN next[<<k + 1, f[k]>>] ELSE f[n]]
  <2>2. f[k] \in V /\ next[<<k + 1, f[k]>>] \in V
    BY <2>1 DEF Runs, Turns
  <2>3. g \in [0 .. k + 1 -> V]
    BY <2>1, <2>2 DEF Runs
  <2>4. \A n \in 0 .. k : g[n] = f[n]
    OBVIOUS
  <2>5. g[k + 1] = next[<<k + 1, f[k]>>]
    OBVIOUS
  <2>. HIDE DEF g
  <2>6. ASSUME NEW n \in 1 .. k + 1 PROVE g[n] = next[<<n, g[n - 1]>>]
    <3>1. CASE n = k + 1
      BY <2>4, <2>5, <3>1
    <3>2. CASE n # k + 1
      <4>1. n \in 1 .. k /\ n \in 0 .. k /\ n - 1 \in 0 .. k
        BY <3>2
      <4>. QED BY <2>1, <2>4, <4>1 DEF Runs
    <3>. QED BY <3>1, <3>2
  <2>7. 0 \in 0 .. k /\ f[0] = first
    BY <2>1 DEF Runs
  <2>. QED BY <2>3, <2>4, <2>6, <2>7 DEF Runs
<1>3. m \in T
  <2>. HIDE DEF T
  <2>. QED BY <1>1, <1>2, Induction
<1>. QED
  BY <1>3

\* The lists of a list, one after the other.
Flattened(seqs, n) == FlattenSeq([i \in 1 .. n |-> seqs[i]])

\* FlattenSeq goes over its lists in order and appends each to what it has.
LEMMA FlattenedSteps ==
    ASSUME NEW S, NEW seqs \in Seq(Seq(S))
    PROVE  /\ Flattened(seqs, 0) = <<>>
           /\ \A n \in 0 .. Len(seqs) - 1 : Flattened(seqs, n + 1) = Flattened(seqs, n) \o seqs[n + 1]
           /\ \A n \in 0 .. Len(seqs) : Flattened(seqs, n) \in Seq(S)
           /\ FlattenSeq(seqs) = Flattened(seqs, Len(seqs))
<1>. DEFINE next == [nv \in (1 .. Len(seqs)) \X Seq(S) |-> nv[2] \o seqs[nv[1]]]
<1>1. \A i \in 1 .. Len(seqs) : seqs[i] \in Seq(S)
  OBVIOUS
<1>2. \A n \in 1 .. Len(seqs), v \in Seq(S) : next[<<n, v>>] \in Seq(S)
  BY <1>1
<1>3. <<>> \in Seq(S) /\ Len(seqs) \in Nat
  OBVIOUS
<1>4. PICK f : Runs(f, Seq(S), <<>>, Len(seqs), next)
  <2>. HIDE DEF next
  <2>1. Turns(Seq(S), Len(seqs), next)
    BY <1>2 DEF Turns
  <2>. QED BY <1>3, <2>1, Loop
<1>5. f \in [0 .. Len(seqs) -> Seq(S)] /\ f[0] = <<>> /\ \A n \in 1 .. Len(seqs) : f[n] = f[n - 1] \o seqs[n]
  <2>1. \A n \in 1 .. Len(seqs) : n - 1 \in 0 .. Len(seqs)
    BY <1>3
  <2>2. f \in [0 .. Len(seqs) -> Seq(S)] /\ f[0] = <<>>
    BY <1>4 DEF Runs
  <2>3. \A n \in 1 .. Len(seqs) : f[n] = next[<<n, f[n - 1]>>]
    BY <1>4 DEF Runs
  <2>. QED BY <1>3, <2>1, <2>2, <2>3
<1>. HIDE DEF next
<1>6. ASSUME NEW n \in 0 .. Len(seqs) PROVE Flattened(seqs, n) = f[n]
  <2>. DEFINE part == [i \in 1 .. n |-> seqs[i]]
              Flat(g) == g = [i \in 1 .. Len(part) |-> IF i = 1 THEN part[i] ELSE g[i - 1] \o part[i]]
  <2>1. Len(part) = n /\ n \in Nat /\ part \in Seq(Seq(S))
    BY <1>1
  <2>2. CASE n = 0
    <3>1. part = <<>>
      BY <2>1, <2>2
    <3>. HIDE DEF part
    <3>. QED BY <1>5, <2>1, <2>2, <3>1 DEF Flattened, FlattenSeq
  <2>3. CASE n # 0
    <3>. DEFINE h == [i \in 1 .. n |-> f[i]]
    <3>1. ASSUME NEW i \in 1 .. n PROVE h[i] = IF i = 1 THEN part[i] ELSE h[i - 1] \o part[i]
      <4>0. i \in 1 .. Len(seqs)
        BY <1>3
      <4>1. f[i] = f[i - 1] \o seqs[i] /\ part[i] = seqs[i] /\ h[i] = f[i]
        BY <1>5, <4>0
      <4>2. CASE i = 1
        <5>1. f[i] = <<>> \o seqs[i] /\ seqs[i] \in Seq(S)
          <6>. HIDE DEF h, part
          <6>1. i - 1 = 0
            BY <4>2
          <6>2. f[i - 1] = <<>>
            BY <1>5, <6>1
          <6>. QED BY <1>1, <4>0, <4>1, <6>2
        <5>2. <<>> \o seqs[i] = seqs[i]
          BY <5>1, ConcatEmptySeq
        <5>. QED BY <4>1, <4>2, <5>1, <5>2
      <4>3. CASE i # 1
        <5>1. i - 1 \in 1 .. n
          BY <4>3
        <5>2. h[i - 1] = f[i - 1]
          BY <5>1
        <5>. QED BY <4>1, <4>3, <5>2
      <4>. QED BY <4>2, <4>3
    <3>2. Flat(h)
      <4>1. h = [i \in 1 .. n |-> IF i = 1 THEN part[i] ELSE h[i - 1] \o part[i]]
        <5>1. h = [i \in 1 .. n |-> h[i]]
          OBVIOUS
        <5>. HIDE DEF h, part
        <5>. QED BY <3>1, <5>1
      <4>. HIDE DEF h, part
      <4>. QED BY <2>1, <4>1
    <3>3. ASSUME NEW g, Flat(g) PROVE \A i \in 1 .. n : g[i] = f[i]
      <4>. DEFINE T == {k \in Nat : k \in 1 .. n => g[k] = f[k]}
      <4>0. \A i \in 1 .. n : g[i] = IF i = 1 THEN part[i] ELSE g[i - 1] \o part[i]
        BY <2>1, <3>3
      <4>1. 0 \in T
        OBVIOUS
      <4>2. ASSUME NEW k \in Nat, k \in T PROVE k + 1 \in T
        <5>. SUFFICES ASSUME k + 1 \in 1 .. n PROVE g[k + 1] = f[k + 1]
          OBVIOUS
        <5>0. k + 1 \in 1 .. Len(seqs) /\ (k + 1) - 1 = k
          BY <1>3
        <5>1. f[k + 1] = f[k] \o seqs[k + 1] /\ part[k + 1] = seqs[k + 1]
          BY <1>5, <5>0
        <5>2. CASE k = 0
          <6>1. f[k + 1] = <<>> \o seqs[k + 1] /\ seqs[k + 1] \in Seq(S)
            BY <1>1, <1>5, <5>0, <5>1, <5>2
          <6>2. <<>> \o seqs[k + 1] = seqs[k + 1]
            BY <6>1, ConcatEmptySeq
          <6>3. g[k + 1] = part[k + 1]
            BY <4>0, <5>2
          <6>. QED BY <5>1, <6>1, <6>2, <6>3
        <5>3. CASE k # 0
          <6>1. k + 1 # 1 /\ (k + 1) - 1 = k /\ k \in 1 .. n
            BY <5>3
          <6>2. g[k] = f[k]
            BY <4>2, <6>1
          <6>. HIDE DEF T, part
          <6>3. g[k + 1] = g[(k + 1) - 1] \o part[k + 1]
            BY <4>0, <6>1
          <6>4. g[k + 1] = f[k] \o seqs[k + 1]
            BY <5>1, <6>1, <6>2, <6>3
          <6>. QED BY <5>1, <6>4
        <5>. QED BY <5>2, <5>3
      <4>. HIDE DEF T
      <4>3. \A k \in Nat : k \in T
        BY <4>1, <4>2, Induction
      <4>. QED BY <4>3 DEF T
    <3>. DEFINE chosen == CHOOSE g : Flat(g)
    <3>4. Flat(chosen)
      <4>. HIDE DEF Flat, h
      <4>. QED BY <3>2
    <3>5. Flattened(seqs, n) = chosen[n]
      <4>1. Flattened(seqs, n) = FlattenSeq(part)
        BY DEF Flattened
      <4>2. Len(part) # 0
        BY <2>1, <2>3
      <4>3. FlattenSeq(part) = chosen[Len(part)]
        <5>. HIDE DEF part
        <5>. QED BY <4>2 DEF FlattenSeq
      <4>. HIDE DEF part, chosen
      <4>. QED BY <2>1, <4>1, <4>3
    <3>. HIDE DEF Flat, chosen
    <3>. QED BY <2>1, <2>3, <3>3, <3>4, <3>5
  <2>. QED BY <2>2, <2>3
<1>7. FlattenSeq(seqs) = Flattened(seqs, Len(seqs))
  BY DEF Flattened
<1>8. \A n \in 0 .. Len(seqs) - 1 : n \in 0 .. Len(seqs) /\ n + 1 \in 1 .. Len(seqs) /\ (n + 1) - 1 = n /\ n + 1 \in 0 .. Len(seqs)
  BY <1>3
<1>9. Flattened(seqs, 0) = <<>> /\ \A n \in 0 .. Len(seqs) : Flattened(seqs, n) \in Seq(S)
  BY <1>3, <1>5, <1>6
<1>10. \A n \in 0 .. Len(seqs) - 1 : Flattened(seqs, n + 1) = Flattened(seqs, n) \o seqs[n + 1]
  BY <1>5, <1>6, <1>8
<1>. QED
  BY <1>7, <1>9, <1>10

\* A list that is made of lists is one, and its members are theirs.
LEMMA FlattenMembers ==
    ASSUME NEW S, NEW seqs \in Seq(Seq(S))
    PROVE  /\ FlattenSeq(seqs) \in Seq(S)
           /\ \A x : x \in Range(FlattenSeq(seqs)) <=> \E i \in DOMAIN seqs : x \in Range(seqs[i])
<1>. DEFINE T == {n \in Nat : n <= Len(seqs) =>
                    \A x : x \in Range(Flattened(seqs, n)) <=> \E i \in 1 .. n : x \in Range(seqs[i])}
<1>0. Len(seqs) \in Nat /\ DOMAIN seqs = 1 .. Len(seqs) /\ \A i \in 1 .. Len(seqs) : seqs[i] \in Seq(S)
  OBVIOUS
<1>1. 0 \in T
  <2>1. Range(<<>>) = {}
    BY DEF Range
  <2>. QED BY <2>1, FlattenedSteps
<1>2. ASSUME NEW n \in Nat, n \in T PROVE n + 1 \in T
  <2>. SUFFICES ASSUME n + 1 <= Len(seqs), NEW x
                PROVE  x \in Range(Flattened(seqs, n + 1)) <=> \E i \in 1 .. n + 1 : x \in Range(seqs[i])
    OBVIOUS
  <2>1. n \in 0 .. Len(seqs) - 1 /\ n \in 0 .. Len(seqs) /\ n + 1 \in 1 .. Len(seqs)
    BY <1>0
  <2>2. Flattened(seqs, n + 1) = Flattened(seqs, n) \o seqs[n + 1] /\ Flattened(seqs, n) \in Seq(S)
    BY <2>1, FlattenedSteps
  <2>3. Range(Flattened(seqs, n + 1)) = Range(Flattened(seqs, n)) \cup Range(seqs[n + 1])
    <3>. DEFINE before == Flattened(seqs, n)  next == seqs[n + 1]
    <3>1. before \in Seq(S) /\ next \in Seq(S) /\ Flattened(seqs, n + 1) = before \o next
      BY <1>0, <2>1, <2>2
    <3>. HIDE DEF before, next
    <3>2. Range(before \o next) = Range(before) \cup Range(next)
      BY <3>1, RangeConcatenation
    <3>. QED BY <3>1, <3>2 DEF before, next
  <2>4. x \in Range(Flattened(seqs, n)) <=> \E i \in 1 .. n : x \in Range(seqs[i])
    BY <1>0, <1>2
  <2>5. \A i : i \in 1 .. n + 1 <=> i \in 1 .. n \/ i = n + 1
    OBVIOUS
  <2>. HIDE DEF T
  <2>. QED BY <2>3, <2>4, <2>5
<1>3. Len(seqs) \in T
  <2>. HIDE DEF T
  <2>. QED BY <1>0, <1>1, <1>2, Induction
<1>4. FlattenSeq(seqs) = Flattened(seqs, Len(seqs)) /\ FlattenSeq(seqs) \in Seq(S)
  BY <1>0, FlattenedSteps
<1>5. \A x : x \in Range(Flattened(seqs, Len(seqs))) <=> \E i \in 1 .. Len(seqs) : x \in Range(seqs[i])
  BY <1>0, <1>3
<1>. HIDE DEF T
<1>. QED
  BY <1>0, <1>4, <1>5

\* ConcatAssociative for all sequences over a set.
Associates(V) == \A s, t, u \in V : (s \o t) \o u = s \o (t \o u)

LEMMA ConcatAssociates == \A S : Associates(Seq(S))
  BY ConcatAssociative DEF Associates

\* The lists of two lists are those of the first and then those of the second.
LEMMA FlattenConcat ==
    ASSUME NEW S, NEW a \in Seq(Seq(S)), NEW b \in Seq(Seq(S))
    PROVE  FlattenSeq(a \o b) = FlattenSeq(a) \o FlattenSeq(b)
<1>. DEFINE both == a \o b
            T == {n \in Nat : n <= Len(b) => Flattened(both, Len(a) + n) = FlattenSeq(a) \o Flattened(b, n)}
<1>1. /\ both \in Seq(Seq(S)) /\ Len(both) = Len(a) + Len(b) /\ Len(a) \in Nat /\ Len(b) \in Nat
      /\ \A i \in 1 .. Len(a) : both[i] = a[i]
      /\ \A i \in 1 .. Len(b) : both[Len(a) + i] = b[i]
  BY ConcatProperties
<1>2. FlattenSeq(a) \in Seq(S)
  BY FlattenMembers
<1>. HIDE DEF both
<1>3. Flattened(both, Len(a)) = FlattenSeq(a)
  <2>1. [i \in 1 .. Len(a) |-> both[i]] = [i \in 1 .. Len(a) |-> a[i]]
    BY <1>1
  <2>2. Flattened(both, Len(a)) = Flattened(a, Len(a))
    BY <2>1 DEF Flattened
  <2>. QED BY <2>2, FlattenedSteps
<1>4. 0 \in T
  <2>1. Flattened(b, 0) = <<>>
    BY FlattenedSteps
  <2>2. FlattenSeq(a) \o <<>> = FlattenSeq(a)
    BY <1>2, ConcatEmptySeq
  <2>3. Len(a) + 0 = Len(a)
    BY <1>1
  <2>. QED BY <1>3, <2>1, <2>2, <2>3
<1>5. ASSUME NEW n \in Nat, n \in T PROVE n + 1 \in T
  <2>. SUFFICES ASSUME n + 1 <= Len(b)
                PROVE  Flattened(both, Len(a) + (n + 1)) = FlattenSeq(a) \o Flattened(b, n + 1)
    OBVIOUS
  <2>1. /\ n \in 0 .. Len(b) - 1 /\ n \in 0 .. Len(b) /\ n + 1 \in 1 .. Len(b)
        /\ Len(a) + n \in 0 .. Len(both) - 1 /\ Len(a) + (n + 1) = (Len(a) + n) + 1
    BY <1>1
  <2>2. Flattened(both, Len(a) + (n + 1)) = Flattened(both, Len(a) + n) \o both[Len(a) + (n + 1)]
    BY <1>1, <2>1, FlattenedSteps
  <2>3. Flattened(b, n + 1) = Flattened(b, n) \o b[n + 1] /\ Flattened(b, n) \in Seq(S)
    BY <2>1, FlattenedSteps
  <2>4. both[Len(a) + (n + 1)] = b[n + 1] /\ b[n + 1] \in Seq(S)
    BY <1>1, <2>1
  <2>5. Flattened(both, Len(a) + n) = FlattenSeq(a) \o Flattened(b, n)
    <3>1. n <= Len(b)
      BY <1>1
    <3>. QED BY <1>5, <3>1
  <2>6. (FlattenSeq(a) \o Flattened(b, n)) \o b[n + 1] = FlattenSeq(a) \o (Flattened(b, n) \o b[n + 1])
    <3>. DEFINE first == FlattenSeq(a)  middle == Flattened(b, n)  last == b[n + 1]
    <3>1. first \in Seq(S) /\ middle \in Seq(S) /\ last \in Seq(S)
      BY <1>2, <2>3, <2>4
    <3>. HIDE DEF first, middle, last
    <3>2. (first \o middle) \o last = first \o (middle \o last)
      <4>1. Associates(Seq(S))
        BY ConcatAssociates
      <4>. QED BY <3>1, <4>1 DEF Associates
    <3>. QED BY <3>2 DEF first, middle, last
  <2>. HIDE DEF T
  <2>. QED BY <2>2, <2>3, <2>4, <2>5, <2>6
<1>6. Len(b) \in T
  <2>. HIDE DEF T
  <2>. QED BY <1>1, <1>4, <1>5, Induction
<1>7. FlattenSeq(both) = Flattened(both, Len(a) + Len(b)) /\ FlattenSeq(b) = Flattened(b, Len(b))
  BY <1>1, FlattenedSteps
<1>. QED
  BY <1>1, <1>6, <1>7 DEF both

--------------------------------------------------------------------------------
(* Rows.                                                                         *)

\* The places of a list are 1 .. Len, and hold its members.
LEMMA Indices ==
    ASSUME NEW list, IsList(list)
    PROVE  /\ Len(list) \in Nat /\ DOMAIN list = 1 .. Len(list)
           /\ \A i \in DOMAIN list : list[i] \in Range(list)
           /\ \A x \in Range(list) : \E i \in DOMAIN list : x = list[i]
  BY DEF IsList, Range

\* A sequence is a list of members of its set.
LEMMA ListOf ==
    ASSUME NEW S, NEW list \in Seq(S)
    PROVE  IsList(list) /\ Range(list) \subseteq S
<1>1. Range(list) \subseteq S
  BY DEF Range
<1>2. \A i \in 1 .. Len(list) : list[i] \in Range(list)
  BY DEF Range
<1>. QED
  BY <1>1, <1>2 DEF IsList

\* The list of no members.
LEMMA EmptyList == IsList(<<>>) /\ Range(<<>>) = {}
  BY DEF IsList, Range

\* Lists of one to four members.
LEMMA ShortLists ==
    /\ \A a : IsList(<<a>>) /\ Range(<<a>>) = {a}
    /\ \A a, b : IsList(<<a, b>>) /\ Range(<<a, b>>) = {a, b}
    /\ \A a, b, c : IsList(<<a, b, c>>) /\ Range(<<a, b, c>>) = {a, b, c}
    /\ \A a, b, c, d : IsList(<<a, b, c, d>>) /\ Range(<<a, b, c, d>>) = {a, b, c, d}
<1>1. \A a : IsList(<<a>>) /\ Range(<<a>>) = {a}
  BY DEF IsList, Range
<1>2. \A a, b : IsList(<<a, b>>) /\ Range(<<a, b>>) = {a, b}
  BY DEF IsList, Range
<1>3. \A a, b, c : IsList(<<a, b, c>>) /\ Range(<<a, b, c>>) = {a, b, c}
  BY DEF IsList, Range
<1>4. \A a, b, c, d : IsList(<<a, b, c, d>>) /\ Range(<<a, b, c, d>>) = {a, b, c, d}
  BY DEF IsList, Range
<1>. QED
  BY <1>1, <1>2, <1>3, <1>4

\* A list after a list is a list of the members of both.
LEMMA ListsJoin ==
    ASSUME NEW a, IsList(a), NEW b, IsList(b)
    PROVE  IsList(a \o b) /\ Range(a \o b) = Range(a) \cup Range(b)
<1>. DEFINE S == Range(a) \cup Range(b)
<1>1. a \in Seq(S) /\ b \in Seq(S)
  BY DEF IsList
<1>. HIDE DEF S
<1>2. a \o b \in Seq(S) /\ Range(a \o b) = Range(a) \cup Range(b)
  BY <1>1, ConcatProperties, RangeConcatenation
<1>. QED
  BY <1>2, ListOf

\* What a loop over a list appends is a list, if it is one at every turn.
LEMMA LoopAppends ==
    ASSUME NEW list, IsList(list), NEW seqs, seqs = [i \in DOMAIN list |-> seqs[i]],
           \A i \in DOMAIN list : IsList(seqs[i])
    PROVE  /\ IsList(FlattenSeq(seqs))
           /\ \A x : x \in Range(FlattenSeq(seqs)) <=> \E i \in DOMAIN list : x \in Range(seqs[i])
<1>. DEFINE S == UNION {Range(seqs[i]) : i \in DOMAIN list}
<1>1. DOMAIN list = 1 .. Len(list) /\ Len(list) \in Nat
  BY Indices
<1>2. \A i \in DOMAIN list : seqs[i] \in Seq(S)
  <2>. TAKE i \in DOMAIN list
  <2>1. seqs[i] \in Seq(Range(seqs[i]))
    BY DEF IsList
  <2>2. Range(seqs[i]) \subseteq S
    OBVIOUS
  <2>. HIDE DEF S
  <2>. QED BY <2>1, <2>2
<1>. HIDE DEF S
<1>3. seqs \in Seq(Seq(S)) /\ DOMAIN seqs = DOMAIN list
  <2>1. seqs = [i \in 1 .. Len(list) |-> seqs[i]]
    BY <1>1
  <2>. QED BY <1>1, <1>2, <2>1
<1>4. FlattenSeq(seqs) \in Seq(S)
  BY <1>3, FlattenMembers
<1>. QED
  BY <1>3, <1>4, FlattenMembers, ListOf

\* Rows whose values are numbers.
Numbers(rows) == IsList(rows) /\ \A r \in Range(rows) : r.value \in Int

\* Each row of what is left comes with its limit, which bounds it.
Bounded(rows) ==
    \A left \in Range(rows) : left.metric = RemainingMetric =>
        /\ left.value >= 0
        /\ \/ \E limit \in Range(rows) :
                 limit.metric = LimitMetric /\ limit.labels = left.labels /\ left.value <= limit.value
           \/ \E used \in Range(rows) :
                 used.metric = UsageMetric /\ used.labels = left.labels /\ used.value < 0

\* The fields of a row.
LEMMA RowFields ==
    \A m, l, v : Row(m, l, v).metric = m /\ Row(m, l, v).labels = l /\ Row(m, l, v).value = v
  BY DEF Row

\* The names of the metrics differ.
LEMMA Metrics ==
    /\ RemainingMetric \notin {LimitMetric, UsageMetric, RemainingPercentMetric, UsagePercentMetric,
                                ResetMetric, RequestsMetric, TokensMetric, CostMetric,
                                "window.duration", "limit.reached", "plan.type", "usage.cost.usd"}
    /\ LimitMetric \notin {UsageMetric, RemainingPercentMetric, ResetMetric, CostMetric, TokensMetric}
    /\ CostMetric \notin {UsageMetric, ResetMetric, TokensMetric}
  BY DEF LimitMetric, UsageMetric, RemainingMetric, RemainingPercentMetric, UsagePercentMetric,
         ResetMetric, RequestsMetric, TokensMetric, CostMetric

\* Rows that state nothing of what is left need no limit.
LEMMA NothingLeft ==
    ASSUME NEW rows, \A r \in Range(rows) : r.metric # RemainingMetric
    PROVE  Bounded(rows)
  BY DEF Bounded

\* A reading of no rows is one of numbers, and bounded.
LEMMA NoRows == Numbers(<<>>) /\ Bounded(<<>>)
  BY EmptyList DEF Numbers, Bounded

\* Numbers after numbers are numbers, and stay bounded.
LEMMA RowsJoin ==
    ASSUME NEW a, NEW b, Numbers(a), Numbers(b)
    PROVE  Numbers(a \o b) /\ (Bounded(a) /\ Bounded(b) => Bounded(a \o b))
<1>1. IsList(a \o b) /\ Range(a \o b) = Range(a) \cup Range(b)
  BY ListsJoin DEF Numbers
<1>2. Numbers(a \o b)
  BY <1>1 DEF Numbers
<1>3. ASSUME Bounded(a), Bounded(b) PROVE Bounded(a \o b)
  BY <1>1, <1>3 DEF Bounded
<1>. QED
  BY <1>2, <1>3

\* So do the rows that a loop appends.
LEMMA RowsAppended ==
    ASSUME NEW list, IsList(list), NEW seqs, seqs = [i \in DOMAIN list |-> seqs[i]],
           \A i \in DOMAIN list : Numbers(seqs[i])
    PROVE  /\ Numbers(FlattenSeq(seqs))
           /\ (\A i \in DOMAIN list : Bounded(seqs[i])) => Bounded(FlattenSeq(seqs))
<1>1. /\ IsList(FlattenSeq(seqs))
      /\ \A x : x \in Range(FlattenSeq(seqs)) <=> \E i \in DOMAIN list : x \in Range(seqs[i])
  BY LoopAppends DEF Numbers
<1>2. Numbers(FlattenSeq(seqs))
  BY <1>1 DEF Numbers
<1>3. ASSUME \A i \in DOMAIN list : Bounded(seqs[i]) PROVE Bounded(FlattenSeq(seqs))
  BY <1>1, <1>3 DEF Bounded
<1>. QED
  BY <1>2, <1>3

\* An optional row is of its metric, and a number if what the vendor sent is.
LEMMA OptionRows ==
    ASSUME NEW metric, NEW labels, NEW option, IsOption(option)
    PROVE  /\ Numbers(OptionRow(metric, labels, option))
           /\ \A r \in Range(OptionRow(metric, labels, option)) : r.metric = metric
<1>1. CASE option = <<>>
  BY <1>1, EmptyList DEF OptionRow, Absent, Numbers
<1>2. CASE option # <<>>
  <2>1. option[1] \in Int
    BY <1>2 DEF IsOption
  <2>2. OptionRow(metric, labels, option) = <<Row(metric, labels, option[1])>>
    BY <1>2 DEF OptionRow, Absent
  <2>. QED BY <2>1, <2>2, ShortLists, RowFields DEF Numbers
<1>. QED
  BY <1>1, <1>2

--------------------------------------------------------------------------------
(* Numbers.                                                                      *)

\* The largest member of a set of numbers is its Max.
LEMMA MaxOf ==
    ASSUME NEW m, NEW S, S \subseteq Int, m \in S, \A x \in S : m >= x
    PROVE  Max(S) = m
<1>1. Max(S) \in S /\ \A x \in S : Max(S) >= x
  BY DEF Max
<1>2. Max(S) \in Int /\ m \in Int /\ m >= Max(S) /\ Max(S) >= m
  BY <1>1
<1>. QED
  BY <1>2

\* max(v, 0).
LEMMA NotNegative ==
    ASSUME NEW v, v \in Int
    PROVE  /\ NonNegative(v) \in Nat
           /\ v >= 0 => NonNegative(v) = v
           /\ v < 0 => NonNegative(v) = 0
<1>1. CASE v >= 0
  <2>1. {0, v} \subseteq Int /\ v \in {0, v} /\ \A x \in {0, v} : v >= x
    BY <1>1
  <2>2. Max({0, v}) = v
    BY <2>1, MaxOf
  <2>. QED BY <1>1, <2>2 DEF NonNegative
<1>2. CASE v < 0
  <2>1. {0, v} \subseteq Int /\ 0 \in {0, v} /\ \A x \in {0, v} : 0 >= x
    BY <1>2
  <2>2. Max({0, v}) = 0
    BY <2>1, MaxOf
  <2>. QED BY <1>2, <2>2 DEF NonNegative
<1>. QED
  BY <1>1, <1>2

\* A clamped percentage is a number.
LEMMA Clamped == \A v \in Int : ClampPercent(v) \in Int
  BY DEF ClampPercent

\* What an optional number holds, and its value or the default, are numbers.
LEMMA OptionValue ==
    ASSUME NEW option, IsOption(option)
    PROVE  /\ option # <<>> => option[1] \in Int
           /\ \A d \in Int : ValueOr(option, d) \in Int
<1>1. option # <<>> => option[1] \in Int
  BY DEF IsOption
<1>. QED
  BY <1>1 DEF ValueOr, Absent

\* Nothing, or one number, is optional.
LEMMA SomeOption == IsOption(<<>>) /\ \A n \in Int : IsOption(<<n>>)
  BY DEF IsOption

\* The sum of a list of numbers is a number.
LEMMA TotalIsNumber ==
    ASSUME NEW numbers \in Seq(Int)
    PROVE  Total(numbers) \in Int
<1>. DEFINE next == [nv \in (1 .. Len(numbers)) \X Int |-> nv[2] + numbers[nv[1]]]
            Sums(g) == g = [n \in 0 .. Len(numbers) |-> IF n = 0 THEN 0 ELSE g[n - 1] + numbers[n]]
<1>1. Turns(Int, Len(numbers), next) /\ 0 \in Int /\ Len(numbers) \in Nat
  BY DEF Turns
<1>2. PICK f : Runs(f, Int, 0, Len(numbers), next)
  <2>. HIDE DEF next
  <2>. QED BY <1>1, Loop
<1>3. /\ f = [n \in 0 .. Len(numbers) |-> f[n]] /\ f[0] = 0 /\ \A n \in 0 .. Len(numbers) : f[n] \in Int
      /\ \A n \in 1 .. Len(numbers) : f[n] = next[<<n, f[n - 1]>>]
  BY <1>2 DEF Runs
<1>4. \A n \in 1 .. Len(numbers) : n - 1 \in 0 .. Len(numbers) /\ f[n] = f[n - 1] + numbers[n]
  <2>. TAKE n \in 1 .. Len(numbers)
  <2>1. n - 1 \in 0 .. Len(numbers)
    BY <1>1
  <2>2. f[n - 1] \in Int
    BY <1>3, <2>1
  <2>. QED BY <1>3, <2>1, <2>2
<1>. HIDE DEF next
<1>5. Sums(f)
  <2>1. \A n \in 0 .. Len(numbers) : f[n] = IF n = 0 THEN 0 ELSE f[n - 1] + numbers[n]
    <3>. TAKE n \in 0 .. Len(numbers)
    <3>1. CASE n = 0
      BY <1>3, <3>1
    <3>2. CASE n # 0
      <4>1. n \in 1 .. Len(numbers)
        BY <1>1, <3>2
      <4>. QED BY <1>4, <3>2, <4>1
    <3>. QED BY <3>1, <3>2
  <2>. QED BY <1>3, <2>1
<1>6. ASSUME NEW g, Sums(g) PROVE g[Len(numbers)] \in Int
  <2>. DEFINE T == {n \in Nat : n <= Len(numbers) => g[n] \in Int}
  <2>1. \A n \in 0 .. Len(numbers) : g[n] = IF n = 0 THEN 0 ELSE g[n - 1] + numbers[n]
    BY <1>6
  <2>2. 0 \in T
    BY <1>1, <2>1
  <2>3. ASSUME NEW n \in Nat, n \in T PROVE n + 1 \in T
    <3>. SUFFICES ASSUME n + 1 <= Len(numbers) PROVE g[n + 1] \in Int
      OBVIOUS
    <3>1. n + 1 \in 0 .. Len(numbers) /\ n + 1 # 0 /\ (n + 1) - 1 = n /\ numbers[n + 1] \in Int /\ g[n] \in Int
      BY <1>1, <2>3
    <3>2. g[n + 1] = g[n] + numbers[n + 1]
      BY <2>1, <3>1
    <3>. QED BY <3>1, <3>2
  <2>. HIDE DEF T
  <2>4. \A n \in Nat : n \in T
    BY <2>2, <2>3, Induction
  <2>. QED BY <1>1, <2>4 DEF T
<1>. DEFINE chosen == CHOOSE g : Sums(g)
<1>7. Sums(chosen)
  <2>. HIDE DEF Sums
  <2>. QED BY <1>5
<1>8. Total(numbers) = chosen[Len(numbers)]
  BY DEF Total
<1>. HIDE DEF Sums, chosen
<1>. QED
  BY <1>6, <1>7, <1>8

\* The largest of the numbers at some places of a list is one of them.
LEMMA LargestAt ==
    ASSUME NEW n \in Nat, NEW D \in SUBSET (1 .. n), D # {}, NEW number, \A i \in D : number[i] \in Int
    PROVE  LET numbers == {number[i] : i \in D}
           IN  Max(numbers) \in numbers /\ \A x \in numbers : x <= Max(numbers)
<1>. DEFINE Upto(k) == {number[i] : i \in {j \in D : j <= k}}
            T == {k \in Nat : Upto(k) # {} => \E m \in Upto(k) : \A x \in Upto(k) : m >= x}
<1>1. \A k \in Nat : Upto(k) \subseteq Int
  OBVIOUS
<1>2. 0 \in T
  <2>1. Upto(0) = {}
    OBVIOUS
  <2>. HIDE DEF Upto
  <2>. QED BY <2>1
<1>3. ASSUME NEW k \in Nat, k \in T PROVE k + 1 \in T
  <2>1. CASE k + 1 \notin D
    <3>1. Upto(k + 1) = Upto(k)
      <4>1. \A j \in D : j <= k + 1 <=> j <= k
        BY <2>1
      <4>. QED BY <4>1
    <3>. HIDE DEF Upto
    <3>. QED BY <1>3, <3>1
  <2>2. CASE k + 1 \in D
    <3>1. Upto(k + 1) = Upto(k) \cup {number[k + 1]}
      <4>1. \A j \in D : j <= k + 1 <=> j <= k \/ j = k + 1
        BY <2>2
      <4>. QED BY <2>2, <4>1
    <3>2. number[k + 1] \in Int /\ Upto(k) \subseteq Int
      BY <1>1, <2>2
    <3>3. Upto(k) = {} \/ \E m \in Upto(k) : \A x \in Upto(k) : m >= x
      BY <1>3
    <3>. HIDE DEF Upto
    <3>4. \E l \in Upto(k + 1) : \A x \in Upto(k + 1) : l >= x
      <4>1. CASE Upto(k) = {}
        BY <3>1, <3>2, <4>1
      <4>2. ASSUME NEW m \in Upto(k), \A x \in Upto(k) : m >= x, m >= number[k + 1]
            PROVE  \E l \in Upto(k + 1) : \A x \in Upto(k + 1) : l >= x
        BY <3>1, <3>2, <4>2
      <4>3. ASSUME NEW m \in Upto(k), \A x \in Upto(k) : m >= x, number[k + 1] > m
            PROVE  \E l \in Upto(k + 1) : \A x \in Upto(k + 1) : l >= x
        <5>1. \A x \in Upto(k) : number[k + 1] >= x
          BY <3>2, <4>3
        <5>. QED BY <3>1, <3>2, <5>1
      <4>. QED BY <3>2, <3>3, <4>1, <4>2, <4>3
    <3>. QED BY <3>4
  <2>. QED BY <2>1, <2>2
<1>4. n \in T
  <2>. HIDE DEF T
  <2>. QED BY <1>2, <1>3, Induction
<1>5. Upto(n) = {number[i] : i \in D}
  <2>1. \A j \in D : j <= n
    OBVIOUS
  <2>. QED BY <2>1
<1>6. Upto(n) # {} /\ Upto(n) \subseteq Int
  BY <1>1, <1>5
<1>7. PICK m \in Upto(n) : \A x \in Upto(n) : m >= x
  BY <1>4, <1>6
<1>. HIDE DEF Upto
<1>8. Max(Upto(n)) = m
  BY <1>6, <1>7, MaxOf
<1>9. \A x \in Upto(n) : x <= m
  BY <1>6, <1>7
<1>. QED
  BY <1>5, <1>7, <1>8, <1>9

--------------------------------------------------------------------------------
(* What the collectors of one exchange read.                                     *)

\* What the Meituan collector reads is numbers, and bounded.
LEMMA MeituanReads ==
    ASSUME NEW entries \in MeituanUsages
    PROVE  Numbers(MeituanRows(entries)) /\ Bounded(MeituanRows(entries))
<1>. DEFINE Labels(e, type) == [model |-> e.model, resource |-> "tokens", window |-> "day", type |-> type]
            Tokens(e, type, option) == OptionRow(TokensMetric, Labels(e, type), option)
            RowsOf(e) == IF e.model = "" THEN <<>>
                         ELSE Tokens(e, "input", e.input) \o Tokens(e, "output", e.output)
            seqs == [i \in DOMAIN entries |-> RowsOf(entries[i])]
<1>1. MeituanRows(entries) = FlattenSeq(seqs)
  BY DEF MeituanRows, ForEach
<1>2. IsList(entries) /\ \A e \in Range(entries) : IsOption(e.input) /\ IsOption(e.output)
  BY ConsoleAssumption
<1>3. ASSUME NEW i \in DOMAIN entries PROVE Numbers(seqs[i]) /\ Bounded(seqs[i])
  <2>. DEFINE e == entries[i]  in == Tokens(e, "input", e.input)  out == Tokens(e, "output", e.output)
  <2>1. IsOption(e.input) /\ IsOption(e.output)
    BY <1>2, Indices
  <2>2. Numbers(in) /\ Bounded(in) /\ Numbers(out) /\ Bounded(out)
    BY <2>1, OptionRows, NothingLeft, Metrics
  <2>3. seqs[i] = IF e.model = "" THEN <<>> ELSE in \o out
    OBVIOUS
  <2>. HIDE DEF in, out, e, seqs
  <2>. QED BY <2>2, <2>3, RowsJoin, NoRows
<1>4. seqs = [i \in DOMAIN entries |-> seqs[i]]
  OBVIOUS
<1>. HIDE DEF seqs
<1>. QED
  BY <1>1, <1>2, <1>3, <1>4, RowsAppended

\* So is what the OpenRouter collector reads.
LEMMA OpenRouterReads ==
    ASSUME NEW items \in OpenRouterActivity
    PROVE  Numbers(OpenRouterRows(items)) /\ Bounded(OpenRouterRows(items))
<1>. DEFINE RowFor(item, metric, resource, type, value) ==
                IF value <= 0 THEN <<>>
                ELSE <<Row(metric, [model |-> item.model, window |-> "30d",
                                    resource |-> resource, type |-> type], value)>>
            Requests(item) == RowFor(item, RequestsMetric, "requests", "", item.requests)
            Cost(item) == RowFor(item, "usage.cost.usd", "cost", "", item.usage)
            Prompt(item) == RowFor(item, TokensMetric, "tokens", "input", item.prompt)
            Completion(item) == RowFor(item, TokensMetric, "tokens", "output", item.completion)
            RowsOf(item) == Requests(item) \o Cost(item) \o Prompt(item) \o Completion(item)
            seqs == [i \in DOMAIN items |-> RowsOf(items[i])]
<1>1. OpenRouterRows(items) = FlattenSeq(seqs)
  BY DEF OpenRouterRows, ForEach
<1>2. IsList(items) /\ \A item \in Range(items) :
         item.requests \in Int /\ item.usage \in Int /\ item.prompt \in Int /\ item.completion \in Int
  BY ConsoleAssumption
<1>3. ASSUME NEW item, NEW metric, NEW resource, NEW type, NEW value \in Int, metric # RemainingMetric
      PROVE  Numbers(RowFor(item, metric, resource, type, value)) /\ Bounded(RowFor(item, metric, resource, type, value))
  <2>. DEFINE row == Row(metric, [model |-> item.model, window |-> "30d", resource |-> resource, type |-> type], value)
  <2>1. Numbers(<<row>>) /\ Bounded(<<row>>)
    BY <1>3, ShortLists, RowFields DEF Numbers, Bounded
  <2>. HIDE DEF row
  <2>2. RowFor(item, metric, resource, type, value) = IF value <= 0 THEN <<>> ELSE <<row>>
    BY DEF row
  <2>. HIDE DEF RowFor
  <2>. QED BY <2>1, <2>2, NoRows
<1>4. ASSUME NEW i \in DOMAIN items PROVE Numbers(seqs[i]) /\ Bounded(seqs[i])
  <2>. DEFINE item == items[i]
  <2>1. item.requests \in Int /\ item.usage \in Int /\ item.prompt \in Int /\ item.completion \in Int
    BY <1>2, Indices
  <2>2. seqs[i] = Requests(item) \o Cost(item) \o Prompt(item) \o Completion(item)
    OBVIOUS
  <2>. HIDE DEF RowFor, item, seqs
  <2>3. /\ Numbers(Requests(item)) /\ Bounded(Requests(item)) /\ Numbers(Cost(item)) /\ Bounded(Cost(item))
        /\ Numbers(Prompt(item)) /\ Bounded(Prompt(item)) /\ Numbers(Completion(item)) /\ Bounded(Completion(item))
    BY <1>3, <2>1, Metrics
  <2>. HIDE DEF Requests, Cost, Prompt, Completion
  <2>4. Numbers(Requests(item) \o Cost(item)) /\ Bounded(Requests(item) \o Cost(item))
    BY <2>3, RowsJoin
  <2>5. /\ Numbers(Requests(item) \o Cost(item) \o Prompt(item))
        /\ Bounded(Requests(item) \o Cost(item) \o Prompt(item))
    BY <2>3, <2>4, RowsJoin
  <2>. QED BY <2>2, <2>3, <2>5, RowsJoin
<1>5. seqs = [i \in DOMAIN items |-> seqs[i]]
  OBVIOUS
<1>. HIDE DEF seqs, RowFor
<1>. QED
  BY <1>1, <1>2, <1>4, <1>5, RowsAppended

\* What the MiniMax collector reads is numbers; it takes what is left from the
\* vendor.
LEMMA MinimaxReads ==
    ASSUME NEW entries \in MinimaxRemains
    PROVE  Numbers(MinimaxRows(entries))
<1>. DEFINE Labels(e) == [model |-> e.model, resource |-> "requests", window |-> "day"]
            Remains(e) == OptionRow(RemainingMetric, Labels(e), e.remaining)
            Limits(e) == OptionRow(LimitMetric, Labels(e), e.total)
            Percents(e) == OptionRow(RemainingPercentMetric, Labels(e), MinimaxPercent(e))
            Resets(e) == OptionRow(ResetMetric, Labels(e), e.reset)
            RowsOf(e) == IF e.supported THEN Remains(e) \o Limits(e) \o Percents(e) \o Resets(e) ELSE <<>>
            seqs == [i \in DOMAIN entries |-> RowsOf(entries[i])]
<1>1. MinimaxRows(entries) = FlattenSeq(seqs)
  BY DEF MinimaxRows, ForEach
<1>2. IsList(entries) /\ \A e \in Range(entries) :
         IsOption(e.remaining) /\ IsOption(e.total) /\ IsOption(e.percent) /\ IsOption(e.reset)
  BY ConsoleAssumption
<1>3. ASSUME NEW e, IsOption(e.remaining), IsOption(e.total), IsOption(e.percent)
      PROVE  IsOption(MinimaxPercent(e))
  <2>2. ASSUME NEW n, n \in Int PROVE IsOption(NormalizePercent(n))
    <3>1. n \div 100 \in Int
      BY <2>2
    <3>. DEFINE fraction == n \in 0 .. 100  percent == n \in 101 .. 10000
    <3>2. ASSUME fraction, percent PROVE FALSE
      <4>1. n <= 100
        BY <3>2
      <4>2. n >= 101
        BY <3>2
      <4>. QED BY <2>2, <4>1, <4>2
    <3>3. NormalizePercent(n) =
             CASE fraction -> <<n>> [] percent -> <<n \div 100>> [] OTHER -> <<>>
      BY DEF NormalizePercent
    <3>. HIDE DEF fraction, percent
    <3>4. IsOption(<<n>>) /\ IsOption(<<n \div 100>>) /\ IsOption(<<>>)
      BY <2>2, <3>1, SomeOption
    <3>. QED BY <3>2, <3>3, <3>4
  <2>3. CASE Absent(e.percent) /\ ~Absent(e.remaining) /\ ValueOr(e.total, 0) > 0
    <3>1. e.total[1] = ValueOr(e.total, 0) /\ e.total[1] \in Int /\ e.total[1] > 0 /\ e.remaining[1] \in Int
      <4>1. e.total # <<>> /\ e.remaining # <<>>
        BY <2>3 DEF ValueOr, Absent
      <4>. QED BY <1>3, <2>3, <4>1, OptionValue DEF ValueOr, Absent
    <3>2. (100 * e.remaining[1]) \div e.total[1] \in Int
      BY <3>1
    <3>3. MinimaxPercent(e) = <<(100 * e.remaining[1]) \div e.total[1]>>
      BY <2>3 DEF MinimaxPercent
    <3>. QED BY <3>2, <3>3, SomeOption
  <2>4. CASE ~Absent(e.percent)
    <3>1. e.percent[1] \in Int
      BY <1>3, <2>4, OptionValue DEF Absent
    <3>2. MinimaxPercent(e) = NormalizePercent(e.percent[1])
      BY <2>4 DEF MinimaxPercent
    <3>. QED BY <2>2, <3>1, <3>2
  <2>5. CASE Absent(e.percent) /\ ~(~Absent(e.remaining) /\ ValueOr(e.total, 0) > 0)
    BY <2>5, SomeOption DEF MinimaxPercent
  <2>. QED BY <2>3, <2>4, <2>5
<1>4. ASSUME NEW i \in DOMAIN entries PROVE Numbers(seqs[i])
  <2>. DEFINE e == entries[i]
  <2>1. IsOption(e.remaining) /\ IsOption(e.total) /\ IsOption(MinimaxPercent(e)) /\ IsOption(e.reset)
    BY <1>2, <1>3, Indices
  <2>2. seqs[i] = IF e.supported THEN Remains(e) \o Limits(e) \o Percents(e) \o Resets(e) ELSE <<>>
    OBVIOUS
  <2>. HIDE DEF e, seqs
  <2>3. Numbers(Remains(e)) /\ Numbers(Limits(e)) /\ Numbers(Percents(e)) /\ Numbers(Resets(e))
    BY <2>1, OptionRows
  <2>. HIDE DEF Remains, Limits, Percents, Resets
  <2>4. Numbers(Remains(e) \o Limits(e))
    BY <2>3, RowsJoin
  <2>5. Numbers(Remains(e) \o Limits(e) \o Percents(e))
    BY <2>3, <2>4, RowsJoin
  <2>6. Numbers(Remains(e) \o Limits(e) \o Percents(e) \o Resets(e))
    BY <2>3, <2>5, RowsJoin
  <2>. QED BY <2>2, <2>6, NoRows
<1>5. seqs = [i \in DOMAIN entries |-> seqs[i]]
  OBVIOUS
<1>. HIDE DEF seqs
<1>. QED
  BY <1>1, <1>2, <1>4, <1>5, RowsAppended

\* Four rows that show a limit, its use, what is left and a percentage.
LEMMA QuotaShown ==
    ASSUME NEW labels, NEW limit \in Int, NEW used \in Int, limit > 0,
           NEW rows, rows = <<Row(LimitMetric, labels, limit), Row(UsageMetric, labels, used),
                              Row(RemainingMetric, labels, NonNegative(limit - used)),
                              Row(UsagePercentMetric, labels, (100 * used) \div limit)>>
    PROVE  Numbers(rows) /\ Bounded(rows)
<1>. DEFINE l == Row(LimitMetric, labels, limit)  u == Row(UsageMetric, labels, used)
            left == Row(RemainingMetric, labels, NonNegative(limit - used))
            p == Row(UsagePercentMetric, labels, (100 * used) \div limit)
<1>1. NonNegative(limit - used) \in Nat /\ (NonNegative(limit - used) <= limit \/ used < 0)
  <2>1. limit - used \in Int
    OBVIOUS
  <2>. QED BY <2>1, NotNegative
<1>2. (100 * used) \div limit \in Int
  OBVIOUS
<1>3. /\ l.metric = LimitMetric /\ l.labels = labels /\ l.value = limit
      /\ u.metric = UsageMetric /\ u.labels = labels /\ u.value = used
      /\ left.metric = RemainingMetric /\ left.labels = labels /\ left.value = NonNegative(limit - used)
      /\ p.metric = UsagePercentMetric /\ p.value = (100 * used) \div limit
  BY RowFields
<1>. HIDE DEF l, u, left, p
<1>4. rows = <<l, u, left, p>> /\ IsList(rows) /\ Range(rows) = {l, u, left, p}
  BY ShortLists DEF l, u, left, p
<1>5. Numbers(rows)
  BY <1>1, <1>2, <1>3, <1>4 DEF Numbers
<1>6. \A r \in Range(rows) : r.metric = RemainingMetric => r = left
  BY <1>3, <1>4, Metrics
<1>7. l \in Range(rows) /\ u \in Range(rows)
  BY <1>4
<1>8. Bounded(rows)
  <2>1. left.value >= 0 /\ (left.value <= l.value \/ u.value < 0)
    BY <1>1, <1>3
  <2>. QED BY <1>3, <1>6, <1>7, <2>1 DEF Bounded
<1>. QED
  BY <1>5, <1>8

\* What the InternLM collector reads is numbers, and bounded unless the
\* vendor's use is negative.
LEMMA InternlmReads ==
    ASSUME NEW s \in InternlmStatistics
    PROVE  Numbers(InternlmRows(s)) /\ Bounded(InternlmRows(s))
<1>. DEFINE Labels(type) == [window |-> "day", resource |-> "tokens", type |-> type]
            Quota(type) == <<Row(LimitMetric, Labels(type), s.quota[type]), Row(UsageMetric, Labels(type), s.used[type]),
                             Row(RemainingMetric, Labels(type), NonNegative(s.quota[type] - s.used[type])),
                             Row(UsagePercentMetric, Labels(type), (100 * s.used[type]) \div s.quota[type])>>
            RowsOf(type) == IF s.quota[type] <= 0 THEN <<>> ELSE Quota(type)
<1>1. ASSUME NEW type \in {"input", "output"} PROVE Numbers(RowsOf(type)) /\ Bounded(RowsOf(type))
  <2>1. s.quota[type] \in Int /\ s.used[type] \in Int
    BY ConsoleAssumption
  <2>2. CASE s.quota[type] <= 0
    BY <2>2, NoRows
  <2>3. CASE s.quota[type] > 0
    <3>1. Numbers(Quota(type)) /\ Bounded(Quota(type))
      BY <2>1, <2>3, QuotaShown
    <3>2. RowsOf(type) = Quota(type)
      BY <2>1, <2>3
    <3>. HIDE DEF Quota, RowsOf
    <3>. QED BY <3>1, <3>2
  <2>. QED BY <2>1, <2>2, <2>3
<1>2. InternlmRows(s) = RowsOf("input") \o RowsOf("output")
  BY DEF InternlmRows
<1>. HIDE DEF RowsOf
<1>. QED
  BY <1>1, <1>2, RowsJoin

\* The rows of one window of Codex are numbers, and state nothing of what is
\* left.
LEMMA CodexWindowReads ==
    ASSUME NEW name, NEW window, IsWindow(window)
    PROVE  LET rows == <<Row(UsagePercentMetric, [window |-> name], window.used),
                         Row(ResetMetric, [window |-> name], NonNegative(window.reset)),
                         Row("window.duration", [window |-> name], NonNegative(window.seconds) \div 60)>>
           IN  Numbers(rows) /\ Bounded(rows)
<1>. DEFINE u == Row(UsagePercentMetric, [window |-> name], window.used)
            r == Row(ResetMetric, [window |-> name], NonNegative(window.reset))
            d == Row("window.duration", [window |-> name], NonNegative(window.seconds) \div 60)
<1>1. window.used \in Int /\ NonNegative(window.reset) \in Int /\ NonNegative(window.seconds) \div 60 \in Int
  <2>1. window.used \in Int /\ window.reset \in Int /\ window.seconds \in Int
    BY DEF IsWindow
  <2>2. NonNegative(window.reset) \in Nat /\ NonNegative(window.seconds) \in Nat
    BY <2>1, NotNegative
  <2>. QED BY <2>1, <2>2
<1>2. u.value \in Int /\ r.value \in Int /\ d.value \in Int
  BY <1>1, RowFields
<1>3. u.metric # RemainingMetric /\ r.metric # RemainingMetric /\ d.metric # RemainingMetric
  BY RowFields, Metrics
<1>. HIDE DEF u, r, d
<1>4. IsList(<<u, r, d>>) /\ Range(<<u, r, d>>) = {u, r, d}
  BY ShortLists
<1>5. Numbers(<<u, r, d>>) /\ Bounded(<<u, r, d>>)
  BY <1>2, <1>3, <1>4 DEF Numbers, Bounded
<1>. QED
  BY <1>5 DEF u, r, d

\* So are all the rows of Codex.
LEMMA CodexReads ==
    ASSUME NEW plan \in Int, NEW reached \in BOOLEAN, NEW primary, NEW secondary, IsWindow(primary), IsWindow(secondary)
    PROVE  LET rows == CodexRows(plan, reached, primary, secondary)
           IN  Numbers(rows) /\ Bounded(rows)
<1>. DEFINE RowsOfWindow(name, window) ==
                <<Row(UsagePercentMetric, [window |-> name], window.used),
                  Row(ResetMetric, [window |-> name], NonNegative(window.reset)),
                  Row("window.duration", [window |-> name], NonNegative(window.seconds) \div 60)>>
            limit == Row("limit.reached", [window |-> "any"], IF reached THEN 1 ELSE 0)
            type == Row("plan.type", [window |-> "any"], plan)
            first == RowsOfWindow("primary", primary)
            second == RowsOfWindow("secondary", secondary)
<1>1. Numbers(first) /\ Bounded(first) /\ Numbers(second) /\ Bounded(second)
  BY CodexWindowReads
<1>2. Numbers(<<limit, type>>) /\ Bounded(<<limit, type>>)
  <2>1. limit.value \in Int /\ type.value \in Int /\ limit.metric # RemainingMetric /\ type.metric # RemainingMetric
    BY RowFields, Metrics
  <2>. HIDE DEF limit, type
  <2>2. IsList(<<limit, type>>) /\ Range(<<limit, type>>) = {limit, type}
    BY ShortLists
  <2>. QED BY <2>1, <2>2 DEF Numbers, Bounded
<1>3. CodexRows(plan, reached, primary, secondary) = <<limit, type>> \o first \o second
  BY DEF CodexRows
<1>. HIDE DEF first, second, limit, type
<1>4. Numbers(<<limit, type>> \o first) /\ Bounded(<<limit, type>> \o first)
  BY <1>1, <1>2, RowsJoin
<1>5. Numbers(<<limit, type>> \o first \o second) /\ Bounded(<<limit, type>> \o first \o second)
  BY <1>1, <1>4, RowsJoin
<1>. QED
  BY <1>3, <1>5

--------------------------------------------------------------------------------
(* The buckets of a group, whatever their number.                                *)

\* The optional numbers, the summaries of groups, and the buckets they are
\* made of.
Options == {o \in Seq(Int) : Len(o) <= 1}
Summaries == [percent : Options, amount : Options, reset : Options]
IsBucket(b) == IsOption(b.percent) /\ IsOption(b.amount) /\ IsOption(b.reset)

\* One bucket of the group merged into its summary.
Merged(summary, bucket) ==
    IF ~Replaces(summary, BucketPercent(bucket), bucket.amount) THEN summary
    ELSE [percent |-> IF Absent(BucketPercent(bucket)) THEN summary.percent ELSE BucketPercent(bucket),
          amount |-> bucket.amount, reset |-> bucket.reset]

\* Merging keeps a summary, and takes the smaller percentage of the two.
LEMMA MergedSummary ==
    ASSUME NEW summary \in Summaries, NEW bucket, IsBucket(bucket)
    PROVE  /\ Merged(summary, bucket) \in Summaries
           /\ bucket.percent = <<>> => Merged(summary, bucket).percent = summary.percent
           /\ bucket.percent # <<>> =>
                 LET percent == ClampPercent(bucket.percent[1])
                 IN  Merged(summary, bucket).percent =
                        IF summary.percent = <<>> \/ percent < summary.percent[1] THEN <<percent>> ELSE summary.percent
<1>. DEFINE p == BucketPercent(bucket)
            replaced == [percent |-> IF Absent(p) THEN summary.percent ELSE p,
                         amount |-> bucket.amount, reset |-> bucket.reset]
<1>1. bucket.amount \in Options /\ bucket.reset \in Options /\ summary.percent \in Options
  BY DEF Options, IsBucket, IsOption, Summaries
<1>2. CASE bucket.percent = <<>>
  <2>1. p = <<>> /\ Absent(p)
    BY <1>2 DEF BucketPercent, Absent
  <2>2. replaced \in Summaries /\ replaced.percent = summary.percent
    BY <1>1, <2>1 DEF Summaries
  <2>3. Merged(summary, bucket) = IF ~Replaces(summary, p, bucket.amount) THEN summary ELSE replaced
    BY DEF Merged
  <2>. HIDE DEF p, replaced
  <2>. QED BY <1>2, <2>2, <2>3
<1>3. CASE bucket.percent # <<>>
  <2>. DEFINE percent == ClampPercent(bucket.percent[1])
  <2>1. percent \in Int
    BY <1>3, OptionValue, Clamped DEF IsBucket
  <2>2. p = <<percent>> /\ ~Absent(p) /\ p[1] = percent
    BY <1>3 DEF BucketPercent, Absent
  <2>. HIDE DEF percent, p
  <2>3. p \in Options
    BY <2>1, <2>2 DEF Options
  <2>4. replaced \in Summaries /\ replaced.percent = p
    BY <1>1, <2>2, <2>3 DEF Summaries
  <2>5. Replaces(summary, p, bucket.amount) <=> summary.percent = <<>> \/ percent < summary.percent[1]
    BY <2>2 DEF Replaces, Absent
  <2>6. Merged(summary, bucket) = IF ~Replaces(summary, p, bucket.amount) THEN summary ELSE replaced
    BY DEF Merged, p
  <2>. HIDE DEF replaced
  <2>. QED BY <1>3, <2>2, <2>4, <2>5, <2>6 DEF percent
<1>. QED
  BY <1>2, <1>3

\* What a group's summary is after n of the buckets.
SummaryAfter(f, buckets, group, n) ==
    f[n] = IF n = 0 THEN NoSummary
           ELSE IF buckets[n].group # group THEN f[n - 1] ELSE Merged(f[n - 1], buckets[n])

\* A group's summary is what merging the buckets one by one gives.
LEMMA SummarySteps ==
    ASSUME NEW buckets, IsList(buckets), \A b \in Range(buckets) : IsBucket(b), NEW group
    PROVE  \E f : /\ GroupSummary(buckets, group) = f[Len(buckets)]
                  /\ \A n \in 0 .. Len(buckets) : f[n] \in Summaries /\ SummaryAfter(f, buckets, group, n)
<1>. DEFINE next == [nv \in (1 .. Len(buckets)) \X Summaries |->
                        IF buckets[nv[1]].group # group THEN nv[2] ELSE Merged(nv[2], buckets[nv[1]])]
            Loops(g) == g = [n \in 0 .. Len(buckets) |->
                               IF n = 0 THEN NoSummary
                               ELSE IF buckets[n].group # group THEN g[n - 1] ELSE Merged(g[n - 1], buckets[n])]
<1>1. Len(buckets) \in Nat /\ \A n \in 1 .. Len(buckets) : IsBucket(buckets[n])
  BY Indices
<1>2. NoSummary \in Summaries
  BY DEF NoSummary, Summaries, Options
<1>3. \A n \in 1 .. Len(buckets), v \in Summaries :
         /\ next[<<n, v>>] = IF buckets[n].group # group THEN v ELSE Merged(v, buckets[n])
         /\ next[<<n, v>>] \in Summaries
  <2>. TAKE n \in 1 .. Len(buckets), v \in Summaries
  <2>1. next[<<n, v>>] = IF buckets[n].group # group THEN v ELSE Merged(v, buckets[n])
    OBVIOUS
  <2>. HIDE DEF next
  <2>. QED BY <1>1, <2>1, MergedSummary
<1>. HIDE DEF next
<1>4. PICK f : Runs(f, Summaries, NoSummary, Len(buckets), next)
  <2>1. Turns(Summaries, Len(buckets), next)
    BY <1>3 DEF Turns
  <2>. QED BY <1>1, <1>2, <2>1, Loop
<1>5. /\ f = [n \in 0 .. Len(buckets) |-> f[n]] /\ f[0] = NoSummary
      /\ \A n \in 0 .. Len(buckets) : f[n] \in Summaries
      /\ \A n \in 1 .. Len(buckets) : f[n] = next[<<n, f[n - 1]>>]
  BY <1>4 DEF Runs
<1>6. \A n \in 0 .. Len(buckets) : SummaryAfter(f, buckets, group, n)
  <2>. TAKE n \in 0 .. Len(buckets)
  <2>1. CASE n = 0
    BY <1>5, <2>1 DEF SummaryAfter
  <2>2. CASE n # 0
    <3>1. n \in 1 .. Len(buckets) /\ n - 1 \in 0 .. Len(buckets)
      BY <1>1, <2>2
    <3>. QED BY <1>3, <1>5, <2>2, <3>1 DEF SummaryAfter
  <2>. QED BY <2>1, <2>2
<1>7. Loops(f)
  BY <1>5, <1>6 DEF SummaryAfter
<1>8. \A g : Loops(g) => \A n \in 0 .. Len(buckets) : SummaryAfter(g, buckets, group, n)
  BY DEF SummaryAfter
<1>9. ASSUME NEW g, Loops(g) PROVE \A n \in 0 .. Len(buckets) : g[n] \in Summaries
  <2>. DEFINE T == {n \in Nat : n <= Len(buckets) => g[n] \in Summaries}
  <2>1. 0 \in T
    BY <1>1, <1>2, <1>8, <1>9 DEF SummaryAfter
  <2>2. ASSUME NEW n \in Nat, n \in T PROVE n + 1 \in T
    <3>. SUFFICES ASSUME n + 1 <= Len(buckets) PROVE g[n + 1] \in Summaries
      OBVIOUS
    <3>1. n + 1 \in 0 .. Len(buckets) /\ n + 1 \in 1 .. Len(buckets) /\ n + 1 # 0 /\ (n + 1) - 1 = n /\ n <= Len(buckets)
      BY <1>1
    <3>2. g[n + 1] = IF buckets[n + 1].group # group THEN g[n] ELSE Merged(g[n], buckets[n + 1])
      BY <1>8, <1>9, <3>1 DEF SummaryAfter
    <3>3. g[n] \in Summaries
      BY <2>2, <3>1
    <3>. QED BY <1>1, <3>1, <3>2, <3>3, MergedSummary
  <2>. HIDE DEF T
  <2>3. \A n \in Nat : n \in T
    BY <2>1, <2>2, Induction
  <2>. QED BY <1>1, <2>3 DEF T
<1>. DEFINE chosen == CHOOSE g : Loops(g)
<1>10. Loops(chosen)
  <2>. HIDE DEF Loops
  <2>. QED BY <1>7
<1>11. GroupSummary(buckets, group) = chosen[Len(buckets)]
  BY DEF GroupSummary, Merged
<1>. HIDE DEF Loops, chosen
<1>. QED
  BY <1>8, <1>9, <1>10, <1>11

\* What the Gemini collector reads is numbers, and no limit.
LEMMA GeminiReads ==
    ASSUME NEW buckets \in GeminiBuckets
    PROVE  Numbers(GeminiRows(buckets)) /\ \A r \in Range(GeminiRows(buckets)) : r.metric # LimitMetric
<1>. DEFINE Amount(group) == Row(RemainingMetric, [group |-> group], ValueOr(GroupSummary(buckets, group).amount, 0))
            Percent(group) == Row(RemainingPercentMetric, [group |-> group], ValueOr(GroupSummary(buckets, group).percent, 0))
            Reset(group) == Row(ResetMetric, [group |-> group], ValueOr(GroupSummary(buckets, group).reset, 0))
            RowsOf(group) == <<Amount(group), Percent(group), Reset(group)>>
            seqs == [i \in DOMAIN GeminiGroups |-> RowsOf(GeminiGroups[i])]
<1>1. GeminiRows(buckets) = FlattenSeq(seqs)
  BY DEF GeminiRows, ForEach
<1>2. IsList(buckets) /\ \A b \in Range(buckets) : IsBucket(b)
  BY CodeAssistAssumption DEF IsBucket
<1>3. ASSUME NEW group
      PROVE  /\ IsList(RowsOf(group)) /\ Range(RowsOf(group)) = {Amount(group), Percent(group), Reset(group)}
             /\ \A r \in {Amount(group), Percent(group), Reset(group)} : r.value \in Int /\ r.metric # LimitMetric
  <2>1. GroupSummary(buckets, group) \in Summaries
    <3>1. Len(buckets) \in Nat
      BY <1>2, Indices
    <3>2. PICK f : /\ GroupSummary(buckets, group) = f[Len(buckets)]
                   /\ \A n \in 0 .. Len(buckets) : f[n] \in Summaries /\ SummaryAfter(f, buckets, group, n)
      BY <1>2, SummarySteps
    <3>. QED BY <3>1, <3>2
  <2>2. \A option \in Options : ValueOr(option, 0) \in Int
    BY OptionValue DEF Options, IsOption
  <2>3. /\ ValueOr(GroupSummary(buckets, group).amount, 0) \in Int
        /\ ValueOr(GroupSummary(buckets, group).percent, 0) \in Int
        /\ ValueOr(GroupSummary(buckets, group).reset, 0) \in Int
    <3>. DEFINE summary == GroupSummary(buckets, group)
    <3>1. summary \in Summaries
      BY <2>1
    <3>. HIDE DEF summary
    <3>2. summary.amount \in Options /\ summary.percent \in Options /\ summary.reset \in Options
      BY <3>1 DEF Summaries
    <3>. QED BY <2>2, <3>2 DEF summary
  <2>4. /\ Amount(group).value \in Int /\ Percent(group).value \in Int /\ Reset(group).value \in Int
        /\ Amount(group).metric = RemainingMetric /\ Percent(group).metric = RemainingPercentMetric
        /\ Reset(group).metric = ResetMetric
    BY <2>3, RowFields
  <2>. HIDE DEF Amount, Percent, Reset
  <2>5. IsList(RowsOf(group)) /\ Range(RowsOf(group)) = {Amount(group), Percent(group), Reset(group)}
    BY ShortLists
  <2>. QED BY <2>4, <2>5, Metrics
<1>. HIDE DEF RowsOf
<1>4. IsList(GeminiGroups) /\ seqs = [i \in DOMAIN GeminiGroups |-> seqs[i]]
  BY ShortLists DEF GeminiGroups
<1>5. \A i \in DOMAIN GeminiGroups : seqs[i] = RowsOf(GeminiGroups[i])
  OBVIOUS
<1>. HIDE DEF seqs
<1>6. Numbers(FlattenSeq(seqs))
  <2>1. \A i \in DOMAIN GeminiGroups : Numbers(seqs[i])
    BY <1>3, <1>5 DEF Numbers
  <2>. QED BY <1>4, <2>1, RowsAppended
<1>7. \A r \in Range(FlattenSeq(seqs)) : r.metric # LimitMetric
  <2>1. \A i \in DOMAIN GeminiGroups : IsList(seqs[i])
    BY <1>3, <1>5
  <2>2. \A r \in Range(FlattenSeq(seqs)) : \E i \in DOMAIN GeminiGroups : r \in Range(seqs[i])
    BY <1>4, <2>1, LoopAppends
  <2>. QED BY <1>3, <1>5, <2>2
<1>. QED
  BY <1>1, <1>6, <1>7

\* A bucket of the group that states a percentage.
Counts(buckets, group, i) == buckets[i].group = group /\ buckets[i].percent # <<>>

\* After n buckets the group's percentage is the one of the scarcest that counts.
Scarcest(percent, buckets, group, n) ==
    \/ percent = <<>> /\ \A i \in 1 .. n : ~Counts(buckets, group, i)
    \/ \E i \in 1 .. n :
          /\ Counts(buckets, group, i)
          /\ percent = <<ClampPercent(buckets[i].percent[1])>>
          /\ \A j \in 1 .. n : Counts(buckets, group, j) => buckets[i].percent[1] <= buckets[j].percent[1]

\* Clamping percentages keeps their order.
LEMMA ClampKeepsOrder ==
    ASSUME NEW a, NEW b, a \in Int, b \in Int
    PROVE  /\ a <= b => ~(ClampPercent(b) < ClampPercent(a))
           /\ b < a /\ ~(ClampPercent(b) < ClampPercent(a)) => ClampPercent(b) = ClampPercent(a)
  BY DEF ClampPercent

\* One more bucket keeps the scarcest.
LEMMA ScarcestStep ==
    ASSUME NEW buckets, \A i \in DOMAIN buckets : IsBucket(buckets[i]), NEW group, NEW n \in Nat,
           1 .. n + 1 \subseteq DOMAIN buckets, NEW summary \in Summaries, Scarcest(summary.percent, buckets, group, n)
    PROVE  LET next == IF buckets[n + 1].group # group THEN summary ELSE Merged(summary, buckets[n + 1])
           IN  Scarcest(next.percent, buckets, group, n + 1)
<1>. DEFINE b == buckets[n + 1]
            next == IF b.group # group THEN summary ELSE Merged(summary, b)
<1>0. /\ IsBucket(b) /\ n + 1 \in DOMAIN buckets
      /\ \A i \in 1 .. n : IsBucket(buckets[i])
      /\ \A i : i \in 1 .. n + 1 <=> i \in 1 .. n \/ i = n + 1
  OBVIOUS
<1>1. CASE ~Counts(buckets, group, n + 1)
  <2>1. next.percent = summary.percent
    BY <1>0, <1>1, MergedSummary DEF Counts
  <2>. HIDE DEF next, b
  <2>2. CASE summary.percent = <<>> /\ \A i \in 1 .. n : ~Counts(buckets, group, i)
    <3>1. \A i \in 1 .. n + 1 : ~Counts(buckets, group, i)
      BY <1>0, <1>1, <2>2
    <3>. QED BY <2>1, <2>2, <3>1 DEF Scarcest, next, b
  <2>3. CASE ~(summary.percent = <<>> /\ \A i \in 1 .. n : ~Counts(buckets, group, i))
    <3>1. PICK i \in 1 .. n :
             /\ Counts(buckets, group, i)
             /\ summary.percent = <<ClampPercent(buckets[i].percent[1])>>
             /\ \A j \in 1 .. n : Counts(buckets, group, j) => buckets[i].percent[1] <= buckets[j].percent[1]
      BY <2>3 DEF Scarcest
    <3>2. i \in 1 .. n + 1 /\ \A j \in 1 .. n + 1 : Counts(buckets, group, j) => buckets[i].percent[1] <= buckets[j].percent[1]
      BY <1>0, <1>1, <3>1
    <3>. QED BY <2>1, <3>1, <3>2 DEF Scarcest, next, b
  <2>. QED BY <2>2, <2>3
<1>2. CASE Counts(buckets, group, n + 1)
  <2>. DEFINE p == b.percent[1]
  <2>1. b.group = group /\ b.percent # <<>> /\ p \in Int
    BY <1>0, <1>2, OptionValue DEF Counts, IsBucket
  <2>2. next.percent = IF summary.percent = <<>> \/ ClampPercent(p) < summary.percent[1]
                       THEN <<ClampPercent(p)>> ELSE summary.percent
    BY <1>0, <2>1, MergedSummary
  <2>3. n + 1 \in 1 .. n + 1
    OBVIOUS
  <2>4. CASE summary.percent = <<>> /\ \A i \in 1 .. n : ~Counts(buckets, group, i)
    <3>1. \A j \in 1 .. n + 1 : Counts(buckets, group, j) => p <= buckets[j].percent[1]
      BY <1>0, <2>1, <2>4
    <3>2. next.percent = <<ClampPercent(buckets[n + 1].percent[1])>>
      BY <2>2, <2>4
    <3>. HIDE DEF next
    <3>3. Scarcest(next.percent, buckets, group, n + 1)
      BY <1>2, <2>3, <3>1, <3>2 DEF Scarcest
    <3>. QED BY <3>3 DEF next
  <2>5. CASE ~(summary.percent = <<>> /\ \A i \in 1 .. n : ~Counts(buckets, group, i))
    <3>1. PICK i \in 1 .. n :
             /\ Counts(buckets, group, i)
             /\ summary.percent = <<ClampPercent(buckets[i].percent[1])>>
             /\ \A j \in 1 .. n : Counts(buckets, group, j) => buckets[i].percent[1] <= buckets[j].percent[1]
      BY <2>5 DEF Scarcest
    <3>. DEFINE least == buckets[i].percent[1]
    <3>2. least \in Int /\ \A j \in 1 .. n : Counts(buckets, group, j) => buckets[j].percent[1] \in Int
      <4>1. \A j \in 1 .. n : Counts(buckets, group, j) => IsOption(buckets[j].percent) /\ buckets[j].percent # <<>>
        BY <1>0 DEF IsBucket, Counts
      <4>. QED BY <3>1, <4>1, OptionValue
    <3>3. summary.percent # <<>> /\ summary.percent[1] = ClampPercent(least)
      BY <3>1
    <3>4. CASE least <= p
      <4>1. next.percent = summary.percent
        BY <2>1, <2>2, <3>2, <3>3, <3>4, ClampKeepsOrder
      <4>2. i \in 1 .. n + 1 /\ \A j \in 1 .. n + 1 : Counts(buckets, group, j) => least <= buckets[j].percent[1]
        BY <1>0, <3>1, <3>4
      <4>. HIDE DEF next
      <4>3. Scarcest(next.percent, buckets, group, n + 1)
        BY <3>1, <4>1, <4>2 DEF Scarcest
      <4>. QED BY <4>3 DEF next
    <3>5. CASE p < least
      <4>1. next.percent = <<ClampPercent(p)>>
        BY <2>1, <2>2, <3>1, <3>2, <3>3, <3>5, ClampKeepsOrder
      <4>2. \A j \in 1 .. n + 1 : Counts(buckets, group, j) => p <= buckets[j].percent[1]
        <5>1. ASSUME NEW j \in 1 .. n, Counts(buckets, group, j) PROVE p <= buckets[j].percent[1]
          <6>1. least <= buckets[j].percent[1] /\ buckets[j].percent[1] \in Int
            BY <3>1, <3>2, <5>1
          <6>. QED BY <2>1, <3>2, <3>5, <6>1
        <5>. QED BY <1>0, <2>1, <5>1
      <4>. HIDE DEF next
      <4>3. Scarcest(next.percent, buckets, group, n + 1)
        BY <1>2, <2>3, <4>1, <4>2 DEF Scarcest
      <4>. QED BY <4>3 DEF next
    <3>. QED BY <2>1, <3>2, <3>4, <3>5
  <2>. QED BY <2>4, <2>5
<1>. QED
  BY <1>1, <1>2

\* So the summary of a group shows its scarcest bucket.
LEMMA ScarcestAtEnd ==
    ASSUME NEW buckets, IsList(buckets), \A b \in Range(buckets) : IsBucket(b), NEW group
    PROVE  Scarcest(GroupSummary(buckets, group).percent, buckets, group, Len(buckets))
<1>1. Len(buckets) \in Nat /\ DOMAIN buckets = 1 .. Len(buckets) /\ \A i \in DOMAIN buckets : IsBucket(buckets[i])
  BY Indices
<1>2. PICK f : /\ GroupSummary(buckets, group) = f[Len(buckets)]
               /\ \A n \in 0 .. Len(buckets) : f[n] \in Summaries /\ SummaryAfter(f, buckets, group, n)
  BY SummarySteps
<1>. DEFINE T == {n \in Nat : n <= Len(buckets) => Scarcest(f[n].percent, buckets, group, n)}
<1>3. 0 \in T
  <2>1. f[0] = NoSummary
    BY <1>1, <1>2 DEF SummaryAfter
  <2>2. Scarcest(f[0].percent, buckets, group, 0)
    BY <2>1 DEF Scarcest, NoSummary
  <2>. QED BY <2>2
<1>4. ASSUME NEW n \in Nat, n \in T PROVE n + 1 \in T
  <2>. SUFFICES ASSUME n + 1 <= Len(buckets) PROVE Scarcest(f[n + 1].percent, buckets, group, n + 1)
    OBVIOUS
  <2>1. /\ n \in 0 .. Len(buckets) /\ n + 1 \in 0 .. Len(buckets) /\ n + 1 # 0 /\ (n + 1) - 1 = n
        /\ 1 .. n + 1 \subseteq DOMAIN buckets
    BY <1>1
  <2>2. Scarcest(f[n].percent, buckets, group, n) /\ f[n] \in Summaries
    BY <1>2, <1>4, <2>1
  <2>3. f[n + 1] = IF buckets[n + 1].group # group THEN f[n] ELSE Merged(f[n], buckets[n + 1])
    BY <1>2, <2>1 DEF SummaryAfter
  <2>. HIDE DEF T
  <2>. QED BY <1>1, <2>1, <2>2, <2>3, ScarcestStep
<1>. HIDE DEF T
<1>5. Len(buckets) \in T
  BY <1>1, <1>3, <1>4, Induction
<1>. QED
  BY <1>1, <1>2, <1>5 DEF T

\* The smallest member of a set of numbers is its Min.
LEMMA MinOf ==
    ASSUME NEW m, NEW S, S \subseteq Int, m \in S, \A x \in S : m <= x
    PROVE  Min(S) = m
<1>1. Min(S) \in S /\ \A x \in S : Min(S) <= x
  BY DEF Min
<1>2. Min(S) \in Int /\ m \in Int /\ m <= Min(S) /\ Min(S) <= m
  BY <1>1
<1>. QED
  BY <1>2

\* Of a list of any length.
LEMMA ScarcestOfList ==
    ASSUME NEW list, IsList(list), \A b \in Range(list) : IsBucket(b), NEW group
    PROVE  LET percents == {b.percent[1] : b \in {x \in Range(list) : x.group = group /\ ~Absent(x.percent)}}
           IN  GroupSummary(list, group).percent =
                   IF percents = {} THEN <<>> ELSE <<ClampPercent(Min(percents))>>
<1>. DEFINE percents == {b.percent[1] : b \in {x \in Range(list) : x.group = group /\ ~Absent(x.percent)}}
            percent == GroupSummary(list, group).percent
<1>1. Len(list) \in Nat /\ DOMAIN list = 1 .. Len(list) /\ \A i \in DOMAIN list : list[i] \in Range(list)
  BY Indices
<1>2. \A x \in Range(list) : \E i \in 1 .. Len(list) : x = list[i]
  BY <1>1, Indices
<1>3. \A i \in 1 .. Len(list) : Counts(list, group, i) => list[i].percent[1] \in percents
  BY <1>1 DEF Counts, Absent
<1>4. \A p \in percents : \E i \in 1 .. Len(list) : Counts(list, group, i) /\ p = list[i].percent[1]
  BY <1>2 DEF Counts, Absent
<1>5. percents \subseteq Int
  <2>1. \A b \in Range(list) : ~Absent(b.percent) => b.percent[1] \in Int
    BY OptionValue DEF IsBucket, Absent
  <2>. QED BY <2>1
<1>6. Scarcest(percent, list, group, Len(list))
  BY ScarcestAtEnd
<1>. HIDE DEF percents, percent
<1>7. CASE percent = <<>> /\ \A i \in 1 .. Len(list) : ~Counts(list, group, i)
  BY <1>4, <1>7 DEF percents, percent
<1>8. CASE ~(percent = <<>> /\ \A i \in 1 .. Len(list) : ~Counts(list, group, i))
  <2>1. PICK i \in 1 .. Len(list) :
           /\ Counts(list, group, i)
           /\ percent = <<ClampPercent(list[i].percent[1])>>
           /\ \A j \in 1 .. Len(list) : Counts(list, group, j) => list[i].percent[1] <= list[j].percent[1]
    BY <1>6, <1>8 DEF Scarcest
  <2>2. list[i].percent[1] \in percents /\ \A p \in percents : list[i].percent[1] <= p
    BY <1>3, <1>4, <2>1
  <2>3. Min(percents) = list[i].percent[1]
    BY <1>5, <2>2, MinOf
  <2>4. percents # {}
    BY <2>2
  <2>. QED BY <2>1, <2>3, <2>4 DEF percents, percent
<1>. QED
  BY <1>7, <1>8

\* What the spec states of the short lists of the instance.
LEMMA ShortListsShowScarcest == ScarcestOfLists
<1>. DEFINE buckets == UNION {Range(list) : list \in GeminiBuckets}
<1>1. ASSUME NEW list \in BoundedSeq(buckets, 3)
      PROVE  IsList(list) /\ \A b \in Range(list) : IsBucket(b)
  <2>1. \A b \in buckets : IsBucket(b)
    BY CodeAssistAssumption DEF IsBucket
  <2>2. list \in Seq(buckets)
    <3>. HIDE DEF buckets
    <3>1. PICK m \in 0 .. 3 : list \in [1 .. m -> buckets]
      BY DEF BoundedSeq, SeqOf
    <3>. QED BY <3>1
  <2>. HIDE DEF buckets
  <2>. QED BY <2>1, <2>2, ListOf
<1>2. ASSUME NEW list \in BoundedSeq(buckets, 3), NEW group \in Range(GeminiGroups)
      PROVE  LET percents == {b.percent[1] : b \in {x \in Range(list) : x.group = group /\ ~Absent(x.percent)}}
             IN  GroupSummary(list, group).percent =
                     IF percents = {} THEN <<>> ELSE <<ClampPercent(Min(percents))>>
  <2>. HIDE DEF buckets
  <2>. QED BY <1>1, ScarcestOfList
<1>. HIDE DEF buckets
<1>. QED
  BY <1>2 DEF ScarcestOfLists, buckets

(* A group of Gemini's buckets shows the percentage of the scarcest one that      *)
(* states one, whatever their number and order: merging keeps the smaller of     *)
(* two, and the first of the group is kept as it is.                             *)
THEOREM ScarcestIsShown == Spec => []ScarcestBucketShown
<1>1. ScarcestBucketShown
  BY ShortListsShowScarcest DEF ScarcestBucketShown
<1>. QED
  BY <1>1, PTL

\* What the Antigravity collector reads is numbers, and bounded.
LEMMA AntigravityReads ==
    ASSUME NEW models \in AntigravityModels
    PROVE  Numbers(AntigravityRows(models)) /\ Bounded(AntigravityRows(models))
<1>. DEFINE Percent(m) == OptionRow(RemainingPercentMetric, [model |-> m.model], BucketPercent(m))
            Reset(m) == OptionRow(ResetMetric, [model |-> m.model], m.reset)
            RowsOf(m) == IF m.supported THEN Percent(m) \o Reset(m) ELSE <<>>
            seqs == [i \in DOMAIN models |-> RowsOf(models[i])]
<1>1. AntigravityRows(models) = FlattenSeq(seqs)
  BY DEF AntigravityRows, ForEach
<1>2. IsList(models) /\ \A m \in Range(models) : IsOption(m.percent) /\ IsOption(m.reset)
  BY CodeAssistAssumption
<1>3. ASSUME NEW i \in DOMAIN models PROVE Numbers(seqs[i]) /\ Bounded(seqs[i])
  <2>. DEFINE m == models[i]
  <2>1. IsOption(m.percent) /\ IsOption(m.reset)
    BY <1>2, Indices
  <2>2. IsOption(BucketPercent(m))
    <3>1. m.percent # <<>> => ClampPercent(m.percent[1]) \in Int
      BY <2>1, OptionValue, Clamped
    <3>. QED BY <3>1, SomeOption DEF BucketPercent, Absent
  <2>3. Numbers(Percent(m)) /\ Bounded(Percent(m)) /\ Numbers(Reset(m)) /\ Bounded(Reset(m))
    BY <2>1, <2>2, OptionRows, NothingLeft, Metrics
  <2>4. seqs[i] = IF m.supported THEN Percent(m) \o Reset(m) ELSE <<>>
    OBVIOUS
  <2>. HIDE DEF Percent, Reset, m, seqs
  <2>. QED BY <2>3, <2>4, RowsJoin, NoRows
<1>4. seqs = [i \in DOMAIN models |-> seqs[i]]
  OBVIOUS
<1>. HIDE DEF seqs
<1>. QED
  BY <1>1, <1>2, <1>3, <1>4, RowsAppended

\* An amount at a window, or 0, is a number.
LEMMA AmountAt ==
    ASSUME NEW numbers, Amounts(numbers), NEW window
    PROVE  At(numbers, window) \in Nat
<1>1. CASE window \in DOMAIN numbers
  <2>1. numbers[window] \in Int
    BY <1>1 DEF Amounts
  <2>. QED BY <1>1, <2>1, NotNegative DEF At
<1>2. CASE window \notin DOMAIN numbers
  BY <1>2 DEF At
<1>. QED
  BY <1>1, <1>2

\* Max of a set of places is one of them.
LEMMA PlaceOfLargest ==
    ASSUME NEW n \in Nat, NEW D \in SUBSET (1 .. n), D # {}
    PROVE  Max(D) \in D
<1>. DEFINE gaps == {n - k : k \in D}
<1>1. gaps \in SUBSET Nat /\ gaps # {}
  <2>1. \A k \in D : n - k \in Nat
    OBVIOUS
  <2>2. PICK k \in D : TRUE
    OBVIOUS
  <2>. QED BY <2>1, <2>2
<1>2. PICK least \in gaps : \A gap \in gaps : least <= gap
  BY <1>1, Least
<1>3. PICK m \in D : least = n - m
  OBVIOUS
<1>4. \A k \in D : n - k \in gaps
  OBVIOUS
<1>. HIDE DEF gaps
<1>5. \A k \in D : m >= k
  BY <1>2, <1>3, <1>4
<1>. QED
  BY <1>5 DEF Max

\* What the Cerebras collector reads of an organization is numbers, and
\* bounded: what is left is what its use leaves of the limit, or nothing.
LEMMA CerebrasReads ==
    ASSUME NEW org, NEW quotas, quotas \in CerebrasLimits \/ quotas = <<>>, NEW usages, usages \in CerebrasUsages \/ usages = <<>>
    PROVE  Numbers(OrganizationRows(org, quotas, usages)) /\ Bounded(OrganizationRows(org, quotas, usages))
<1>. DEFINE RowsOf(q, window) == IF At(q.limits, window) > 0 THEN WindowRows(org, q, usages, window) ELSE <<>>
            windows(q) == [i \in DOMAIN QuotaWindows |-> RowsOf(q, QuotaWindows[i])]
            seqs == [i \in DOMAIN quotas |-> FlattenSeq(windows(quotas[i]))]
<1>1. OrganizationRows(org, quotas, usages) = FlattenSeq(seqs)
  BY DEF OrganizationRows, ForEach
<1>2. IsList(quotas) /\ \A q \in Range(quotas) : Amounts(q.limits)
  BY CerebrasAssumption, EmptyList
<1>3. \A q : Amounts(UsageOf(q, usages))
  <2>. TAKE q
  <2>. DEFINE same == {i \in DOMAIN usages : usages[i].model = q.model /\ usages[i].region = q.region}
  <2>1. Amounts(<<>>)
    BY DEF Amounts
  <2>2. CASE same = {}
    BY <2>1, <2>2 DEF UsageOf
  <2>3. CASE same # {}
    <3>1. usages \in CerebrasUsages
      BY <2>3
    <3>2. IsList(usages) /\ \A u \in Range(usages) : Amounts(u.used)
      BY <3>1, CerebrasAssumption
    <3>3. Len(usages) \in Nat /\ DOMAIN usages = 1 .. Len(usages) /\ same \in SUBSET (1 .. Len(usages))
      BY <3>2, Indices
    <3>4. UsageOf(q, usages) = usages[Max(same)].used
      BY <2>3 DEF UsageOf
    <3>5. Max(same) \in DOMAIN usages
      <4>. HIDE DEF same
      <4>. QED BY <2>3, <3>3, PlaceOfLargest
    <3>. HIDE DEF same
    <3>. QED BY <3>2, <3>4, <3>5, Indices
  <2>. QED BY <2>2, <2>3
<1>4. ASSUME NEW q, Amounts(q.limits), NEW window
      PROVE  Numbers(RowsOf(q, window)) /\ Bounded(RowsOf(q, window))
  <2>. DEFINE limit == At(q.limits, window)  used == At(UsageOf(q, usages), window)
              labels == [model |-> q.model, window |-> window[1], resource |-> window[2],
                         org |-> org.id, region |-> q.region]
              rows == <<Row(LimitMetric, labels, limit), Row(UsageMetric, labels, used),
                        Row(RemainingMetric, labels, NonNegative(limit - used)),
                        Row(UsagePercentMetric, labels, (100 * used) \div limit)>>
  <2>1. limit \in Nat /\ used \in Nat
    BY <1>3, <1>4, AmountAt
  <2>2. WindowRows(org, q, usages, window) = rows
    BY DEF WindowRows
  <2>3. RowsOf(q, window) = IF limit > 0 THEN rows ELSE <<>>
    BY <2>2
  <2>4. limit > 0 => Numbers(rows) /\ Bounded(rows)
    <3>. HIDE DEF limit, used, labels
    <3>. QED BY <2>1, QuotaShown
  <2>. HIDE DEF rows, limit, RowsOf
  <2>. QED BY <2>3, <2>4, NoRows
<1>. HIDE DEF RowsOf
<1>5. IsList(QuotaWindows)
  <2>1. QuotaWindows \in Seq({QuotaWindows[i] : i \in 1 .. 6})
    BY DEF QuotaWindows
  <2>. QED BY <2>1, ListOf
<1>6. ASSUME NEW i \in DOMAIN quotas PROVE Numbers(seqs[i]) /\ Bounded(seqs[i])
  <2>. DEFINE q == quotas[i]
  <2>1. Amounts(q.limits)
    BY <1>2, Indices
  <2>. HIDE DEF q
  <2>2. \A j \in DOMAIN QuotaWindows : windows(q)[j] = RowsOf(q, QuotaWindows[j])
    OBVIOUS
  <2>3. windows(q) = [j \in DOMAIN QuotaWindows |-> windows(q)[j]]
    OBVIOUS
  <2>4. seqs[i] = FlattenSeq(windows(q))
    BY DEF q
  <2>. HIDE DEF windows, seqs
  <2>5. Numbers(FlattenSeq(windows(q))) /\ Bounded(FlattenSeq(windows(q)))
    BY <1>4, <1>5, <2>1, <2>2, <2>3, RowsAppended
  <2>. QED BY <2>4, <2>5
<1>7. seqs = [i \in DOMAIN quotas |-> seqs[i]]
  OBVIOUS
<1>. HIDE DEF seqs
<1>. QED
  BY <1>1, <1>2, <1>6, <1>7, RowsAppended

--------------------------------------------------------------------------------
(* What the AI Studio collector reads.                                           *)

\* A list of some of the members of a list.
LEMMA SelectedMembers ==
    ASSUME NEW list, IsList(list), NEW seqs, seqs = [i \in DOMAIN list |-> seqs[i]],
           \A i \in DOMAIN list : seqs[i] \in {<<list[i]>>, <<>>}
    PROVE  /\ IsList(FlattenSeq(seqs)) /\ Range(FlattenSeq(seqs)) \subseteq Range(list)
           /\ \A x \in Range(FlattenSeq(seqs)) : \E i \in DOMAIN list : x = list[i] /\ seqs[i] = <<x>>
<1>1. \A i \in DOMAIN list : IsList(seqs[i]) /\ \A x \in Range(seqs[i]) : x = list[i] /\ seqs[i] = <<x>>
  BY ShortLists, EmptyList
<1>2. /\ IsList(FlattenSeq(seqs))
      /\ \A x \in Range(FlattenSeq(seqs)) : \E i \in DOMAIN list : x \in Range(seqs[i])
  BY <1>1, LoopAppends
<1>3. \A x \in Range(FlattenSeq(seqs)) : \E i \in DOMAIN list : x = list[i] /\ seqs[i] = <<x>>
  BY <1>1, <1>2
<1>4. Range(FlattenSeq(seqs)) \subseteq Range(list)
  <2>. DEFINE members == Range(list)
  <2>1. \A i \in DOMAIN list : list[i] \in members
    BY Indices
  <2>. HIDE DEF members
  <2>2. Range(FlattenSeq(seqs)) \subseteq members
    BY <1>3, <2>1
  <2>. QED BY <2>2 DEF members
<1>. QED
  BY <1>2, <1>3, <1>4

\* The limits and the series the AI Studio collector holds between its
\* exchanges.
LimitsTyped(limits) == IsList(limits) /\ \A l \in Range(limits) : l.value \in Int /\ l.value > 0
FetchedTyped(fetched) == \A q \in DOMAIN fetched : fetched[q] \in StudioSeries

\* Limits of which one model has one value of a quota.
LimitsAgree(limits) ==
    \A l, k \in Range(limits) : l.model = k.model /\ l.quota = k.quota => l.value = k.value

\* The limits it makes of the entries are positive numbers, one of each quota of
\* a model: however many tiers the entries are of, it takes those of one.
LEMMA RateLimitsTyped ==
    ASSUME NEW entries \in StudioLimits, NEW hint, NEW meta
    PROVE  LET limits == RateLimits(entries, hint, meta)
           IN  LimitsTyped(limits) /\ (QuotasListedOnce => LimitsAgree(limits))
<1>. DEFINE Supports(e) == e.model \in DOMAIN meta /\ CategoryOf(e, meta[e.model]) # ""
            some == [i \in DOMAIN entries |-> IF Supports(entries[i]) THEN <<entries[i]>> ELSE <<>>]
            supported == FlattenSeq(some)
            tier == SelectTier(hint, supported)
            Keeps(e) == e.value > 0 /\ e.tier \in tier
            fewer == [i \in DOMAIN supported |-> IF Keeps(supported[i]) THEN <<supported[i]>> ELSE <<>>]
            kept == FlattenSeq(fewer)
            First(model) == Selected(kept, LAMBDA e : e.model = model)[1]
            Of(e) == [model |-> e.model, tier |-> e.tier, value |-> e.value,
                      category |-> CategoryOf(First(e.model), meta[e.model]),
                      preview |-> meta[e.model].preview,
                      quota |-> <<QuotaResource(e.resource), QuotaWindow(e.window)>>]
            limits == [i \in DOMAIN kept |-> Of(kept[i])]
<1>1. RateLimits(entries, hint, meta) = limits
  BY DEF RateLimits, Selected, ForEach
<1>2. IsList(entries) /\ \A e \in Range(entries) : e.value \in Int
  BY StudioAssumption
<1>3. IsList(supported) /\ Range(supported) \subseteq Range(entries)
  <2>1. \A i \in DOMAIN entries : some[i] \in {<<entries[i]>>, <<>>}
    OBVIOUS
  <2>2. some = [i \in DOMAIN entries |-> some[i]]
    OBVIOUS
  <2>. HIDE DEF some
  <2>. QED BY <1>2, <2>1, <2>2, SelectedMembers
<1>9. \A t, u \in tier : t = u
  BY DEF SelectTier
<1>. HIDE DEF supported, tier
<1>4. /\ IsList(kept) /\ Range(kept) \subseteq Range(supported)
      /\ \A e \in Range(kept) : e.value > 0 /\ e.tier \in tier
  <2>1. \A i \in DOMAIN supported : fewer[i] = IF Keeps(supported[i]) THEN <<supported[i]>> ELSE <<>>
    OBVIOUS
  <2>2. fewer = [i \in DOMAIN supported |-> fewer[i]]
    OBVIOUS
  <2>3. \A e : Keeps(e) => e.value > 0 /\ e.tier \in tier
    OBVIOUS
  <2>. HIDE DEF fewer, Keeps
  <2>4. \A i \in DOMAIN supported : fewer[i] \in {<<supported[i]>>, <<>>}
    BY <2>1
  <2>5. /\ IsList(kept) /\ Range(kept) \subseteq Range(supported)
        /\ \A x \in Range(kept) : \E i \in DOMAIN supported : x = supported[i] /\ fewer[i] = <<x>>
    BY <1>3, <2>2, <2>4, SelectedMembers
  <2>. HIDE DEF kept
  <2>6. ASSUME NEW x \in Range(kept) PROVE Keeps(x)
    <3>1. PICK i \in DOMAIN supported : x = supported[i] /\ fewer[i] = <<x>>
      BY <2>5
    <3>2. <<x>> # <<>>
      OBVIOUS
    <3>. QED BY <2>1, <3>1, <3>2
  <2>. QED BY <2>3, <2>5, <2>6
<1>. HIDE DEF kept
<1>5. \A e : /\ Of(e).value = e.value /\ Of(e).model = e.model
             /\ Of(e).quota = <<QuotaResource(e.resource), QuotaWindow(e.window)>>
  OBVIOUS
<1>. HIDE DEF Of
<1>6. Len(kept) \in Nat /\ DOMAIN kept = 1 .. Len(kept) /\ \A i \in DOMAIN kept : kept[i] \in Range(kept)
  BY <1>4, Indices
<1>7. IsList(limits) /\ \A l \in Range(limits) : \E i \in DOMAIN kept : l = Of(kept[i])
  <2>1. limits \in Seq({Of(kept[i]) : i \in DOMAIN kept})
    BY <1>6
  <2>. QED BY <2>1, ListOf
<1>8. LimitsTyped(limits)
  <2>. HIDE DEF limits
  <2>. QED BY <1>2, <1>3, <1>4, <1>5, <1>6, <1>7 DEF LimitsTyped
<1>10. ASSUME QuotasListedOnce PROVE LimitsAgree(limits)
  <2>. HIDE DEF limits
  <2>. SUFFICES ASSUME NEW l \in Range(limits), NEW k \in Range(limits), l.model = k.model, l.quota = k.quota
                PROVE  l.value = k.value
    BY DEF LimitsAgree
  <2>1. PICK i \in DOMAIN kept : l = Of(kept[i])
    BY <1>7
  <2>2. PICK j \in DOMAIN kept : k = Of(kept[j])
    BY <1>7
  <2>. DEFINE e == kept[i]  f == kept[j]
  <2>3. e \in Range(entries) /\ f \in Range(entries) /\ e.value > 0 /\ f.value > 0 /\ e.tier = f.tier
    BY <1>3, <1>4, <1>6, <1>9
  <2>. HIDE DEF e, f
  <2>4. /\ e.model = f.model /\ QuotaResource(e.resource) = QuotaResource(f.resource)
        /\ QuotaWindow(e.window) = QuotaWindow(f.window)
    BY <1>5, <2>1, <2>2 DEF e, f
  <2>5. e.value = f.value
    BY <1>10, <2>3, <2>4 DEF QuotasListedOnce
  <2>. QED BY <1>5, <2>1, <2>2, <2>5 DEF e, f
<1>. QED
  BY <1>1, <1>8, <1>10

\* Each row of what is left of an AI Studio limit comes with it, and exceeds it by
\* no more than a series counts the model's usage below nothing.
Covered(rows) ==
    \A left \in Range(rows) : left.metric = RemainingMetric =>
        /\ left.value >= 0
        /\ \E limit \in Range(rows) :
              /\ limit.metric = LimitMetric /\ limit.labels = left.labels
              /\ \/ left.value <= limit.value
                 \/ CountedBelow(left.labels.model, left.value - limit.value)

\* What a series counts as used is a number, and the amount below nothing by which
\* it is counted if it is negative.
LEMMA UsedIsCounted ==
    ASSUME NEW series \in StudioSeries, NEW model
    PROVE  /\ UsedOf(series, model) \in Int
           /\ UsedOf(series, model) < 0 => CountedBelow(model, -UsedOf(series, model))
<1>. DEFINE D == {j \in DOMAIN series : series[j].model = model}
            used == [i \in DOMAIN series |-> series[i].used]
            numbers == {used[i] : i \in D}
<1>1. IsList(series) /\ \A p \in Range(series) : p.used \in Int
  BY StudioAssumption
<1>2. Len(series) \in Nat /\ D \in SUBSET (1 .. Len(series)) /\ \A i \in D : used[i] \in Int
  BY <1>1, Indices
<1>3. PointsOf(series, model) = numbers
  <2>1. \A i \in D : used[i] = series[i].used
    OBVIOUS
  <2>. HIDE DEF used
  <2>. QED BY <2>1 DEF PointsOf
<1>4. UsedOf(series, model) = IF numbers = {} THEN 0 ELSE Max(numbers)
  BY <1>3 DEF UsedOf
<1>. HIDE DEF D, used
<1>5. CASE numbers = {}
  BY <1>4, <1>5
<1>6. CASE numbers # {}
  <2>1. D # {}
    BY <1>6
  <2>2. Max(numbers) \in numbers /\ \A x \in numbers : x <= Max(numbers)
    BY <1>2, <2>1, LargestAt
  <2>3. numbers \subseteq Int
    BY <1>2
  <2>. DEFINE most == Max(numbers)
  <2>4. most \in numbers /\ \A x \in numbers : x <= most
    BY <2>2
  <2>. HIDE DEF most, numbers
  <2>5. most \in Int /\ \A x \in numbers : x + (-most) <= 0
    BY <2>3, <2>4
  <2>6. CountedBelow(model, -most)
    BY <1>3, <1>6, <2>5 DEF CountedBelow
  <2>. QED BY <1>4, <1>6, <2>5, <2>6 DEF most
<1>. QED
  BY <1>5, <1>6

\* What the AI Studio collector reads is numbers, and covered.
LEMMA StudioReads ==
    ASSUME NEW limits, LimitsTyped(limits), NEW fetched, FetchedTyped(fetched)
    PROVE  Numbers(StudioRows(limits, fetched)) /\ Covered(StudioRows(limits, fetched))
<1>. DEFINE Labels(l) == [model |-> l.model, category |-> l.category, preview |-> l.preview, quota |-> l.quota]
            resetOf(l) == CASE l.quota[2] = "minute" -> <<60>> [] l.quota[2] = "day" -> <<86400>> [] OTHER -> <<>>
            Limit(l) == Row(LimitMetric, Labels(l), l.value)
            Left(l) == OptionRow(RemainingMetric, Labels(l), Remaining(l, fetched))
            Reset(l) == OptionRow(ResetMetric, Labels(l), resetOf(l))
            RowsOf(l) == <<Limit(l)>> \o Left(l) \o Reset(l)
            seqs == [i \in DOMAIN limits |-> RowsOf(limits[i])]
            \* What may be left of a limit.
            MayBeLeft(l, n) == n <= l.value \/ CountedBelow(l.model, n - l.value)
<1>1. StudioRows(limits, fetched) = FlattenSeq(seqs)
  BY DEF StudioRows, ForEach
<1>2. ASSUME NEW l, l.value \in Int, l.value > 0
      PROVE  \/ Remaining(l, fetched) = <<>>
             \/ \E n \in Nat : Remaining(l, fetched) = <<n>> /\ MayBeLeft(l, n)
  <2>1. CASE l.quota \notin DOMAIN fetched
    BY <2>1 DEF Remaining
  <2>2. CASE l.quota \in DOMAIN fetched
    <3>. DEFINE used == UsedOf(fetched[l.quota], l.model)
                left == NonNegative(l.value - used)
    <3>1. used \in Int /\ (used < 0 => CountedBelow(l.model, -used))
      BY <2>2, UsedIsCounted DEF FetchedTyped
    <3>2. Remaining(l, fetched) = <<left>>
      BY <2>2 DEF Remaining
    <3>. HIDE DEF used
    <3>3. /\ left \in Nat
          /\ l.value - used >= 0 => left = l.value - used
          /\ l.value - used < 0 => left = 0
      BY <1>2, <3>1, NotNegative
    <3>. HIDE DEF left
    <3>4. CASE used >= 0
      <4>1. left <= l.value
        BY <1>2, <3>1, <3>3, <3>4
      <4>. QED BY <3>2, <3>3, <4>1
    <3>5. CASE used < 0
      <4>1. left - l.value = -used
        BY <1>2, <3>1, <3>3, <3>5
      <4>2. CountedBelow(l.model, left - l.value)
        BY <3>1, <3>5, <4>1
      <4>. QED BY <3>2, <3>3, <4>2
    <3>. QED BY <3>1, <3>4, <3>5
  <2>. QED BY <2>1, <2>2
<1>3. ASSUME NEW l, l.value \in Int, l.value > 0 PROVE Numbers(RowsOf(l)) /\ Covered(RowsOf(l))
  <2>1. IsOption(resetOf(l))
    BY SomeOption
  <2>2. Numbers(Reset(l)) /\ \A r \in Range(Reset(l)) : r.metric = ResetMetric
    <3>. HIDE DEF resetOf
    <3>. QED BY <2>1, OptionRows
  <2>3. /\ Limit(l).metric = LimitMetric /\ Limit(l).labels = Labels(l) /\ Limit(l).value = l.value
        /\ Labels(l).model = l.model
    BY RowFields
  <2>4. Numbers(<<Limit(l)>>) /\ Range(<<Limit(l)>>) = {Limit(l)}
    <3>. HIDE DEF Limit
    <3>. QED BY <1>3, <2>3, ShortLists DEF Numbers
  <2>5. /\ Numbers(Left(l))
        /\ \A r \in Range(Left(l)) :
              r.metric = RemainingMetric /\ r.labels = Labels(l) /\ r.value >= 0 /\ MayBeLeft(l, r.value)
    <3>1. CASE Remaining(l, fetched) = <<>>
      <4>1. Left(l) = <<>>
        BY <3>1 DEF OptionRow, Absent
      <4>. HIDE DEF Left
      <4>. QED BY <4>1, NoRows, EmptyList
    <3>2. CASE Remaining(l, fetched) # <<>>
      <4>1. PICK n \in Nat : Remaining(l, fetched) = <<n>> /\ MayBeLeft(l, n)
        BY <1>2, <1>3, <3>2
      <4>. DEFINE left == Row(RemainingMetric, Labels(l), n)
      <4>2. Left(l) = <<left>>
        BY <4>1 DEF OptionRow, Absent
      <4>3. left.metric = RemainingMetric /\ left.labels = Labels(l) /\ left.value = n
        BY RowFields
      <4>. HIDE DEF left, Left, Labels, MayBeLeft
      <4>4. Numbers(<<left>>) /\ Range(<<left>>) = {left}
        BY <4>3, ShortLists DEF Numbers
      <4>. QED BY <4>1, <4>2, <4>3, <4>4
    <3>. QED BY <3>1, <3>2
  <2>. HIDE DEF Limit, Left, Reset, Labels
  <2>6. /\ Numbers(<<Limit(l)>> \o Left(l)) /\ Numbers(RowsOf(l))
        /\ Range(RowsOf(l)) = {Limit(l)} \cup Range(Left(l)) \cup Range(Reset(l))
    <3>1. Numbers(<<Limit(l)>> \o Left(l)) /\ Numbers(RowsOf(l))
      BY <2>2, <2>4, <2>5, RowsJoin
    <3>2. IsList(<<Limit(l)>>) /\ IsList(Left(l)) /\ IsList(Reset(l)) /\ IsList(<<Limit(l)>> \o Left(l))
      BY <2>2, <2>4, <2>5, <3>1 DEF Numbers
    <3>3. Range(<<Limit(l)>> \o Left(l)) = Range(<<Limit(l)>>) \cup Range(Left(l))
      BY <3>2, ListsJoin
    <3>4. Range(RowsOf(l)) = Range(<<Limit(l)>> \o Left(l)) \cup Range(Reset(l))
      BY <3>2, ListsJoin
    <3>. QED BY <2>4, <3>1, <3>3, <3>4
  <2>. HIDE DEF RowsOf
  <2>7. Covered(RowsOf(l))
    <3>. SUFFICES ASSUME NEW left \in Range(RowsOf(l)), left.metric = RemainingMetric
                  PROVE  /\ left.value >= 0
                         /\ /\ Limit(l).metric = LimitMetric /\ Limit(l).labels = left.labels
                            /\ \/ left.value <= Limit(l).value
                               \/ CountedBelow(left.labels.model, left.value - Limit(l).value)
      BY <2>6 DEF Covered
    <3>1. left \in Range(Left(l))
      BY <2>2, <2>3, <2>6, Metrics
    <3>. QED BY <2>3, <2>5, <3>1
  <2>. QED BY <2>6, <2>7
<1>4. IsList(limits) /\ \A i \in DOMAIN limits : limits[i].value \in Int /\ limits[i].value > 0
  BY Indices DEF LimitsTyped
<1>5. \A i \in DOMAIN limits : seqs[i] = RowsOf(limits[i])
  OBVIOUS
<1>6. seqs = [i \in DOMAIN limits |-> seqs[i]]
  OBVIOUS
<1>. HIDE DEF seqs, RowsOf
<1>7. \A i \in DOMAIN limits : Numbers(seqs[i]) /\ Covered(seqs[i])
  BY <1>3, <1>4, <1>5
<1>8. Numbers(FlattenSeq(seqs))
  BY <1>4, <1>6, <1>7, RowsAppended
<1>9. \A x : x \in Range(FlattenSeq(seqs)) <=> \E i \in DOMAIN limits : x \in Range(seqs[i])
  <2>1. \A i \in DOMAIN limits : IsList(seqs[i])
    BY <1>7 DEF Numbers
  <2>. QED BY <1>4, <1>6, <2>1, LoopAppends
<1>10. Covered(FlattenSeq(seqs))
  BY <1>7, <1>9 DEF Covered
<1>. QED
  BY <1>1, <1>8, <1>10

--------------------------------------------------------------------------------
(* What the Mistral collector reads: tokens, costs and their total.              *)

\* A finite set as a list.
LEMMA SetAsList ==
    ASSUME NEW S, IsFiniteSet(S)
    PROVE  IsList(SetToSeq(S)) /\ Range(SetToSeq(S)) \subseteq S
<1>1. Cardinality(S) \in Nat /\ \E f \in [1 .. Cardinality(S) -> S] : IsInjective(f)
  BY FS_CardinalityType DEF ExistsBijection, Bijection, Injection
<1>2. SetToSeq(S) \in [1 .. Cardinality(S) -> S]
  BY <1>1 DEF SetToSeq
<1>3. SetToSeq(S) \in Seq(S)
  <2>. DEFINE list == SetToSeq(S)  n == Cardinality(S)
  <2>1. list \in [1 .. n -> S] /\ n \in Nat
    BY <1>1, <1>2
  <2>. HIDE DEF list, n
  <2>2. list \in Seq(S)
    BY <2>1
  <2>. QED BY <2>2 DEF list
<1>. QED
  BY <1>3, ListOf

\* What is at the places of a list is finite.
LEMMA ImageIsFinite ==
    ASSUME NEW n \in Nat, NEW f, DOMAIN f = 1 .. n, f = [i \in 1 .. n |-> f[i]]
    PROVE  IsFiniteSet({f[i] : i \in 1 .. n})
<1>. DEFINE S == {f[i] : i \in 1 .. n}
<1>1. f \in Surjection(1 .. n, S)
  BY DEF Surjection
<1>2. IsFiniteSet(1 .. n)
  BY FS_Interval
<1>. HIDE DEF S
<1>3. IsFiniteSet(S)
  BY <1>1, <1>2, FS_Surjection
<1>. QED
  BY <1>3 DEF S

\* The aggregates of entries are a list of numbers.
LEMMA AggregatesTyped ==
    ASSUME NEW id, NEW entries, IsList(entries), NEW amounts, \A i \in DOMAIN entries : amounts[i] \in Int
    PROVE  IsList(Aggregates(id, entries, amounts)) /\ \A g \in Range(Aggregates(id, entries, amounts)) : g.value \in Int
<1>. DEFINE Billed(key) == {i \in DOMAIN entries : BillingID(id, entries[i]) = key}
            summed(key) == [i \in DOMAIN entries |-> IF i \in Billed(key) THEN amounts[i] ELSE 0]
            Group(key) == [billing |-> key, label |-> ModelLabel(id, entries[Max(Billed(key))]),
                           value |-> Total(summed(key))]
            group == [i \in DOMAIN entries |-> Group(BillingID(id, entries[i]))]
            groups == {Group(BillingID(id, entries[i])) : i \in DOMAIN entries}
            some == {g \in groups : g.value > 0}
<1>1. Aggregates(id, entries, amounts) = SetToSeq(some)
  BY DEF Aggregates
<1>2. Len(entries) \in Nat /\ DOMAIN entries = 1 .. Len(entries)
  BY Indices
<1>3. \A key : Total(summed(key)) \in Int
  <2>. TAKE key
  <2>1. summed(key) \in Seq(Int)
    <3>1. \A i \in DOMAIN entries : summed(key)[i] \in Int
      OBVIOUS
    <3>2. summed(key) = [i \in 1 .. Len(entries) |-> summed(key)[i]]
      BY <1>2
    <3>. HIDE DEF summed
    <3>. QED BY <1>2, <3>1, <3>2
  <2>. HIDE DEF summed
  <2>. QED BY <2>1, TotalIsNumber
<1>. HIDE DEF summed, Billed
<1>4. \A g \in groups : g.value \in Int
  BY <1>3
<1>5. IsFiniteSet(groups)
  <2>1. groups = {group[i] : i \in 1 .. Len(entries)} /\ DOMAIN group = 1 .. Len(entries)
        /\ group = [i \in 1 .. Len(entries) |-> group[i]]
    <3>. HIDE DEF Group
    <3>. QED BY <1>2
  <2>. HIDE DEF group, groups
  <2>. QED BY <1>2, <2>1, ImageIsFinite
<1>. HIDE DEF groups
<1>6. IsFiniteSet(some)
  BY <1>5, FS_Subset
<1>7. some \subseteq groups
  OBVIOUS
<1>. HIDE DEF some
<1>. QED
  BY <1>1, <1>4, <1>6, <1>7, SetAsList

\* One row of each member of a list.
LEMMA MappedRows ==
    ASSUME NEW list, IsList(list), NEW rows, rows = [i \in DOMAIN list |-> rows[i]]
    PROVE  IsList(rows) /\ \A r \in Range(rows) : \E i \in DOMAIN list : r = rows[i]
<1>1. Len(list) \in Nat /\ DOMAIN list = 1 .. Len(list)
  BY Indices
<1>2. rows \in Seq({rows[i] : i \in DOMAIN list})
  BY <1>1
<1>. QED
  BY <1>2, ListOf

\* The first positive of two numbers, or the second.
LEMMA FirstPositiveIsNumber ==
    ASSUME NEW a, NEW b, a \in Int, b \in Int
    PROVE  FirstPositive(a, b) \in Int
  BY NotNegative DEF FirstPositive

\* The usage entries of a model of Mistral, decoded.
EntriesTyped(entries) == IsList(entries) /\ \A e \in Range(entries) : e.value \in Int /\ e.paid \in Int
ModelTyped(m) == EntriesTyped(m.input) /\ EntriesTyped(m.output) /\ EntriesTyped(m.cached)

\* The tokens of a model are numbers.
LEMMA TokenReads ==
    ASSUME NEW model, ModelTyped(model)
    PROVE  Numbers(TokenRows(model)) /\ \A r \in Range(TokenRows(model)) : r.metric = TokensMetric
<1>. DEFINE totals(type) == Aggregates(model.id, model[type], [i \in DOMAIN model[type] |-> UsageValue(model[type][i])])
            RowOf(t, type) == Row(TokensMetric, [model |-> t.billing, request |-> Display(model.id),
                                                 label |-> t.label, type |-> type], t.value)
            OfType(type) == [i \in DOMAIN totals(type) |-> RowOf(totals(type)[i], type)]
<1>1. TokenRows(model) = OfType("input") \o OfType("output") \o OfType("cached")
  BY DEF TokenRows
<1>2. ASSUME NEW type \in {"input", "output", "cached"}
      PROVE  Numbers(OfType(type)) /\ \A r \in Range(OfType(type)) : r.metric = TokensMetric
  <2>. DEFINE amounts == [i \in DOMAIN model[type] |-> UsageValue(model[type][i])]
  <2>1. EntriesTyped(model[type])
    BY DEF ModelTyped
  <2>2. \A i \in DOMAIN model[type] : amounts[i] \in Int
    <3>1. \A i \in DOMAIN model[type] : model[type][i].value \in Int /\ model[type][i].paid \in Int
      BY <2>1, Indices DEF EntriesTyped
    <3>. QED BY <3>1, FirstPositiveIsNumber DEF UsageValue
  <2>3. totals(type) = Aggregates(model.id, model[type], amounts)
    OBVIOUS
  <2>. HIDE DEF amounts, totals
  <2>4. IsList(totals(type)) /\ \A g \in Range(totals(type)) : g.value \in Int
    BY <2>1, <2>2, <2>3, AggregatesTyped DEF EntriesTyped
  <2>5. \A i \in DOMAIN totals(type) : OfType(type)[i].value \in Int /\ OfType(type)[i].metric = TokensMetric
    BY <2>4, Indices, RowFields
  <2>6. OfType(type) = [i \in DOMAIN totals(type) |-> OfType(type)[i]]
    OBVIOUS
  <2>. HIDE DEF OfType
  <2>. QED BY <2>4, <2>5, <2>6, MappedRows DEF Numbers
<1>. HIDE DEF OfType
<1>3. /\ Numbers(OfType("input") \o OfType("output"))
      /\ Range(OfType("input") \o OfType("output")) = Range(OfType("input")) \cup Range(OfType("output"))
  BY <1>2, RowsJoin, ListsJoin DEF Numbers
<1>4. /\ Numbers(OfType("input") \o OfType("output") \o OfType("cached"))
      /\ Range(OfType("input") \o OfType("output") \o OfType("cached")) =
            Range(OfType("input")) \cup Range(OfType("output")) \cup Range(OfType("cached"))
  BY <1>2, <1>3, RowsJoin, ListsJoin DEF Numbers
<1>. QED
  BY <1>1, <1>2, <1>4

\* Prices by key.
PricesTyped(prices) == \A key \in DOMAIN prices : prices[key] \in Int

\* The index of the prices holds numbers.
LEMMA PriceIndexTyped ==
    ASSUME NEW prices, IsList(prices), \A p \in Range(prices) : p.price \in Int
    PROVE  PricesTyped(PriceIndex(prices))
<1>. DEFINE Key(i) == <<prices[i].metric, prices[i].group>>
            valid == {i \in DOMAIN prices : prices[i].metric # "" /\ prices[i].group # "" /\ prices[i].price > 0}
            places(key) == {i \in valid : Key(i) = key}
<1>1. PriceIndex(prices) = [key \in {Key(i) : i \in valid} |-> prices[Max(places(key))].price]
  BY DEF PriceIndex
<1>2. Len(prices) \in Nat /\ DOMAIN prices = 1 .. Len(prices)
  BY Indices
<1>3. ASSUME NEW key \in {Key(i) : i \in valid} PROVE prices[Max(places(key))].price \in Int
  <2>1. places(key) # {} /\ places(key) \in SUBSET (1 .. Len(prices))
    BY <1>2
  <2>. HIDE DEF places
  <2>2. Max(places(key)) \in 1 .. Len(prices)
    BY <1>2, <2>1, PlaceOfLargest
  <2>. QED BY <1>2, <2>2, Indices
<1>. QED
  BY <1>1, <1>3 DEF PricesTyped

\* A model's costs are a list of numbers.
LEMMA CostsTyped ==
    ASSUME NEW model, ModelTyped(model), NEW prices, PricesTyped(prices)
    PROVE  IsList(CostAggregates(model, prices)) /\ \A c \in Range(CostAggregates(model, prices)) : c.value \in Int
<1>. DEFINE Cost(e) == EntryCost(e, prices)
            all == model.input \o model.output \o model.cached
            some == [i \in DOMAIN all |-> IF Cost(all[i]) > 0 THEN <<all[i]>> ELSE <<>>]
            priced == FlattenSeq(some)
            amounts == [i \in DOMAIN priced |-> Cost(priced[i])]
<1>1. CostAggregates(model, prices) = Aggregates(model.id, priced, amounts)
  BY DEF CostAggregates, Selected, ForEach
<1>2. EntriesTyped(all)
  <2>1. EntriesTyped(model.input \o model.output)
    BY ListsJoin DEF ModelTyped, EntriesTyped
  <2>. QED BY <2>1, ListsJoin DEF ModelTyped, EntriesTyped
<1>. HIDE DEF all
<1>3. EntriesTyped(priced)
  <2>1. \A i \in DOMAIN all : some[i] \in {<<all[i]>>, <<>>}
    OBVIOUS
  <2>2. some = [i \in DOMAIN all |-> some[i]]
    OBVIOUS
  <2>. HIDE DEF some
  <2>3. IsList(priced) /\ Range(priced) \subseteq Range(all)
    BY <1>2, <2>1, <2>2, SelectedMembers DEF EntriesTyped
  <2>. QED BY <1>2, <2>3 DEF EntriesTyped
<1>. HIDE DEF priced
<1>4. \A i \in DOMAIN priced : amounts[i] \in Int
  <2>. TAKE i \in DOMAIN priced
  <2>. DEFINE e == priced[i]  key == <<e.metric, e.group>>
  <2>1. e.value \in Int /\ e.paid \in Int
    BY <1>3, Indices DEF EntriesTyped
  <2>2. BillableValue(e) \in Int
    BY <2>1, FirstPositiveIsNumber DEF BillableValue
  <2>3. key \in DOMAIN prices => BillableValue(e) * prices[key] \in Int
    BY <2>2 DEF PricesTyped
  <2>4. amounts[i] = EntryCost(e, prices)
    OBVIOUS
  <2>. QED BY <2>3, <2>4 DEF EntryCost
<1>. HIDE DEF amounts
<1>. QED
  BY <1>1, <1>3, <1>4, AggregatesTyped DEF EntriesTyped

\* The costs of a scope, in order.
IsCost(r, scope) == r.metric = CostMetric /\ r.labels.scope = scope
CostRows(rows, scope) == FlattenSeq([i \in DOMAIN rows |-> IF IsCost(rows[i], scope) THEN <<rows[i]>> ELSE <<>>])
CostsOf(rows, scope) == Values(CostRows(rows, scope))

\* The total adds up if there is one at most, and it is the sum of the costs
\* of the models.
LEMMA CostsOfTotal ==
    ASSUME NEW rows
    PROVE  TotalOfModels(rows) <=>
              /\ Len(CostsOf(rows, "total")) <= 1
              /\ CostsOf(rows, "total") # <<>> => CostsOf(rows, "total")[1] = Total(CostsOf(rows, "model"))
  BY DEF TotalOfModels, CostsOf, CostRows, IsCost, Selected, ForEach

\* A list of no members is empty.
LEMMA ListWithoutMembers ==
    ASSUME NEW list, IsList(list), Range(list) = {}
    PROVE  list = <<>>
  BY DEF IsList

\* The costs of a scope are rows of it.
LEMMA CostRowsMembers ==
    ASSUME NEW rows, IsList(rows), NEW scope
    PROVE  /\ IsList(CostRows(rows, scope)) /\ Range(CostRows(rows, scope)) \subseteq Range(rows)
           /\ \A r \in Range(CostRows(rows, scope)) : IsCost(r, scope)
<1>. DEFINE seqs == [i \in DOMAIN rows |-> IF IsCost(rows[i], scope) THEN <<rows[i]>> ELSE <<>>]
<1>1. CostRows(rows, scope) = FlattenSeq(seqs)
  BY DEF CostRows
<1>2. \A i \in DOMAIN rows : seqs[i] = IF IsCost(rows[i], scope) THEN <<rows[i]>> ELSE <<>>
  OBVIOUS
<1>3. seqs = [i \in DOMAIN rows |-> seqs[i]]
  OBVIOUS
<1>. HIDE DEF seqs
<1>4. \A i \in DOMAIN rows : seqs[i] \in {<<rows[i]>>, <<>>}
  BY <1>2
<1>5. /\ IsList(FlattenSeq(seqs)) /\ Range(FlattenSeq(seqs)) \subseteq Range(rows)
      /\ \A x \in Range(FlattenSeq(seqs)) : \E i \in DOMAIN rows : x = rows[i] /\ seqs[i] = <<x>>
  BY <1>3, <1>4, SelectedMembers
<1>6. ASSUME NEW x \in Range(FlattenSeq(seqs)) PROVE IsCost(x, scope)
  <2>1. PICK i \in DOMAIN rows : x = rows[i] /\ seqs[i] = <<x>>
    BY <1>5
  <2>2. <<x>> # <<>>
    OBVIOUS
  <2>. QED BY <1>2, <2>1, <2>2
<1>. QED
  BY <1>1, <1>5, <1>6

\* Rows none of which is a cost of the scope have no costs of it.
LEMMA NoCosts ==
    ASSUME NEW rows, IsList(rows), NEW scope, \A r \in Range(rows) : ~IsCost(r, scope)
    PROVE  CostsOf(rows, scope) = <<>>
<1>1. CostRows(rows, scope) = <<>>
  BY CostRowsMembers, ListWithoutMembers
<1>. QED
  BY <1>1 DEF CostsOf, Values

\* A list is its members one by one.
LEMMA FlattenSingles ==
    ASSUME NEW list, IsList(list)
    PROVE  FlattenSeq([i \in DOMAIN list |-> <<list[i]>>]) = list
<1>. DEFINE S == Range(list)
            seqs == [i \in DOMAIN list |-> <<list[i]>>]
            part(n) == [i \in 1 .. n |-> list[i]]
            T == {n \in Nat : n <= Len(list) => Flattened(seqs, n) = part(n)}
<1>1. Len(list) \in Nat /\ DOMAIN list = 1 .. Len(list) /\ list \in Seq(S)
  BY Indices DEF IsList
<1>2. seqs \in Seq(Seq(S)) /\ Len(seqs) = Len(list) /\ \A i \in 1 .. Len(list) : seqs[i] = <<list[i]>>
  BY <1>1
<1>. HIDE DEF seqs, S
<1>3. 0 \in T
  <2>1. part(0) = <<>>
    OBVIOUS
  <2>2. Flattened(seqs, 0) = <<>>
    BY <1>2, FlattenedSteps
  <2>. HIDE DEF part
  <2>. QED BY <2>1, <2>2
<1>4. ASSUME NEW n \in Nat, n \in T PROVE n + 1 \in T
  <2>. SUFFICES ASSUME n + 1 <= Len(list) PROVE Flattened(seqs, n + 1) = part(n + 1)
    OBVIOUS
  <2>1. n \in 0 .. Len(seqs) - 1 /\ n + 1 \in 1 .. Len(list)
    BY <1>1, <1>2
  <2>2. Flattened(seqs, n + 1) = Flattened(seqs, n) \o <<list[n + 1]>>
    BY <1>2, <2>1, FlattenedSteps
  <2>3. Flattened(seqs, n) = part(n)
    BY <1>1, <1>4
  <2>4. part(n) \o <<list[n + 1]>> = part(n + 1)
    <3>1. part(n) \in Seq(S) /\ <<list[n + 1]>> \in Seq(S) /\ part(n + 1) \in Seq(S)
          /\ Len(part(n)) = n /\ Len(part(n + 1)) = n + 1
      BY <1>1, <2>1
    <3>2. Len(part(n) \o <<list[n + 1]>>) = n + 1 /\ part(n) \o <<list[n + 1]>> \in Seq(S)
      BY <3>1, ConcatProperties
    <3>3. \A i \in 1 .. n + 1 : (part(n) \o <<list[n + 1]>>)[i] = part(n + 1)[i]
      <4>. TAKE i \in 1 .. n + 1
      <4>1. (part(n) \o <<list[n + 1]>>)[i] = IF i <= n THEN part(n)[i] ELSE <<list[n + 1]>>[i - n]
        BY <3>1, ConcatProperties
      <4>2. CASE i <= n
        BY <4>1, <4>2
      <4>3. CASE ~(i <= n)
        <5>1. i = n + 1 /\ i - n = 1
          BY <4>3
        <5>. QED BY <4>1, <4>3, <5>1
      <4>. QED BY <4>2, <4>3
    <3>. HIDE DEF part
    <3>. QED BY <3>1, <3>2, <3>3, SeqEqual
  <2>. HIDE DEF T, part
  <2>. QED BY <2>2, <2>3, <2>4
<1>5. Len(list) \in T
  <2>. HIDE DEF T
  <2>. QED BY <1>1, <1>3, <1>4, Induction
<1>6. FlattenSeq(seqs) = Flattened(seqs, Len(list))
  BY <1>2, FlattenedSteps
<1>7. part(Len(list)) = list
  BY <1>1
<1>. QED
  BY <1>1, <1>5, <1>6, <1>7 DEF seqs

\* Rows all of which are costs of the scope have only those.
LEMMA OnlyCosts ==
    ASSUME NEW rows, IsList(rows), NEW scope, \A r \in Range(rows) : IsCost(r, scope)
    PROVE  CostsOf(rows, scope) = Values(rows)
<1>. DEFINE seqs == [i \in DOMAIN rows |-> IF IsCost(rows[i], scope) THEN <<rows[i]>> ELSE <<>>]
<1>1. \A i \in DOMAIN rows : IsCost(rows[i], scope)
  BY Indices
<1>2. seqs = [i \in DOMAIN rows |-> <<rows[i]>>]
  BY <1>1
<1>3. CostRows(rows, scope) = FlattenSeq(seqs)
  BY DEF CostRows
<1>. HIDE DEF seqs
<1>. QED
  BY <1>2, <1>3, FlattenSingles DEF CostsOf

\* The values of rows after rows.
LEMMA ValuesJoin ==
    ASSUME NEW a, IsList(a), NEW b, IsList(b)
    PROVE  /\ IsList(Values(a)) /\ Len(Values(a)) = Len(a)
           /\ Values(a \o b) = Values(a) \o Values(b)
<1>. DEFINE S == Range(a) \cup Range(b)
            V == {r.value : r \in S}
            both == a \o b
<1>1. a \in Seq(S) /\ b \in Seq(S) /\ Len(a) \in Nat /\ Len(b) \in Nat
  BY Indices DEF IsList
<1>2. /\ both \in Seq(S) /\ Len(both) = Len(a) + Len(b)
      /\ \A i \in 1 .. Len(a) + Len(b) : both[i] = IF i <= Len(a) THEN a[i] ELSE b[i - Len(a)]
  <2>. HIDE DEF S
  <2>. QED BY <1>1, ConcatProperties
<1>3. \A s \in Seq(S) : Values(s) \in Seq(V) /\ Len(Values(s)) = Len(s) /\ \A i \in 1 .. Len(s) : Values(s)[i] = s[i].value
  <2>. TAKE s \in Seq(S)
  <2>1. Len(s) \in Nat /\ DOMAIN s = 1 .. Len(s) /\ \A i \in 1 .. Len(s) : s[i] \in S
    <3>. HIDE DEF S
    <3>. QED OBVIOUS
  <2>2. \A i \in 1 .. Len(s) : s[i].value \in V
    BY <2>1
  <2>. HIDE DEF V, S
  <2>. QED BY <2>1, <2>2 DEF Values
<1>. HIDE DEF S, V, both
<1>4. /\ Values(a) \in Seq(V) /\ Values(b) \in Seq(V) /\ Values(both) \in Seq(V)
      /\ Len(Values(a)) = Len(a) /\ Len(Values(b)) = Len(b) /\ Len(Values(both)) = Len(a) + Len(b)
  BY <1>1, <1>2, <1>3
<1>. DEFINE va == Values(a)
            vb == Values(b)
<1>5. /\ va \o vb \in Seq(V) /\ Len(va \o vb) = Len(a) + Len(b)
      /\ \A i \in 1 .. Len(a) + Len(b) : (va \o vb)[i] = IF i <= Len(a) THEN va[i] ELSE vb[i - Len(a)]
  <2>1. va \in Seq(V) /\ vb \in Seq(V) /\ Len(va) = Len(a) /\ Len(vb) = Len(b)
    BY <1>4
  <2>. HIDE DEF va, vb
  <2>2. /\ va \o vb \in Seq(V) /\ Len(va \o vb) = Len(va) + Len(vb)
        /\ \A i \in 1 .. Len(va) + Len(vb) : (va \o vb)[i] = IF i <= Len(va) THEN va[i] ELSE vb[i - Len(va)]
    BY <2>1, ConcatProperties
  <2>. QED BY <2>1, <2>2
<1>6. \A i \in 1 .. Len(a) + Len(b) : Values(both)[i] = (Values(a) \o Values(b))[i]
  <2>. TAKE i \in 1 .. Len(a) + Len(b)
  <2>1. Values(both)[i] = both[i].value
    BY <1>2, <1>3
  <2>2. CASE i <= Len(a)
    <3>1. i \in 1 .. Len(a)
      BY <1>1, <2>2
    <3>. QED BY <1>1, <1>2, <1>3, <1>5, <2>1, <2>2, <3>1
  <2>3. CASE ~(i <= Len(a))
    <3>1. i - Len(a) \in 1 .. Len(b)
      BY <1>1, <2>3
    <3>. QED BY <1>1, <1>2, <1>3, <1>5, <2>1, <2>3, <3>1
  <2>. QED BY <2>2, <2>3
<1>7. Values(both) = Values(a) \o Values(b)
  BY <1>4, <1>5, <1>6, SeqEqual
<1>. QED
  BY <1>4, <1>7, ListOf DEF both

\* The costs of rows after rows.
LEMMA CostsJoin ==
    ASSUME NEW a, IsList(a), NEW b, IsList(b), NEW scope
    PROVE  CostsOf(a \o b, scope) = CostsOf(a, scope) \o CostsOf(b, scope)
<1>. DEFINE S == Range(a) \cup Range(b)
            both == a \o b
            Of(r) == IF IsCost(r, scope) THEN <<r>> ELSE <<>>
            ofA == [i \in DOMAIN a |-> Of(a[i])]
            ofB == [i \in DOMAIN b |-> Of(b[i])]
            ofBoth == [i \in DOMAIN both |-> Of(both[i])]
<1>1. a \in Seq(S) /\ b \in Seq(S) /\ Len(a) \in Nat /\ Len(b) \in Nat
  BY Indices DEF IsList
<1>2. \A r \in S : Of(r) \in Seq(S)
  <2>. TAKE r \in S
  <2>. HIDE DEF S
  <2>1. <<r>> \in Seq(S) /\ <<>> \in Seq(S)
    OBVIOUS
  <2>. QED BY <2>1
<1>3. /\ CostRows(a, scope) = FlattenSeq(ofA) /\ CostRows(b, scope) = FlattenSeq(ofB)
      /\ CostRows(both, scope) = FlattenSeq(ofBoth)
  BY DEF CostRows
<1>4. /\ both \in Seq(S) /\ Len(both) = Len(a) + Len(b)
      /\ \A i \in 1 .. Len(a) + Len(b) : both[i] = IF i <= Len(a) THEN a[i] ELSE b[i - Len(a)]
  <2>. HIDE DEF S
  <2>. QED BY <1>1, ConcatProperties
<1>. HIDE DEF S, both, Of
<1>. DEFINE SS == Seq(S)
<1>0. \A s \in Seq(S) : /\ [i \in DOMAIN s |-> Of(s[i])] \in Seq(SS) /\ Len([i \in DOMAIN s |-> Of(s[i])]) = Len(s)
                        /\ \A i \in 1 .. Len(s) : [j \in DOMAIN s |-> Of(s[j])][i] = Of(s[i])
  <2>. TAKE s \in Seq(S)
  <2>1. Len(s) \in Nat /\ DOMAIN s = 1 .. Len(s) /\ \A i \in 1 .. Len(s) : s[i] \in S
    OBVIOUS
  <2>2. \A i \in 1 .. Len(s) : Of(s[i]) \in SS
    BY <1>2, <2>1
  <2>. HIDE DEF SS
  <2>. QED BY <2>1, <2>2
<1>5. /\ ofA \in Seq(Seq(S)) /\ Len(ofA) = Len(a) /\ \A i \in 1 .. Len(a) : ofA[i] = Of(a[i])
      /\ ofB \in Seq(Seq(S)) /\ Len(ofB) = Len(b) /\ \A i \in 1 .. Len(b) : ofB[i] = Of(b[i])
  BY <1>0, <1>1
<1>6. /\ ofBoth \in Seq(Seq(S)) /\ Len(ofBoth) = Len(a) + Len(b)
      /\ \A i \in 1 .. Len(a) + Len(b) : ofBoth[i] = Of(both[i])
  BY <1>0, <1>4
<1>. HIDE DEF ofA, ofB, ofBoth
<1>7. /\ ofA \o ofB \in Seq(Seq(S)) /\ Len(ofA \o ofB) = Len(a) + Len(b)
      /\ \A i \in 1 .. Len(a) + Len(b) : (ofA \o ofB)[i] = IF i <= Len(a) THEN ofA[i] ELSE ofB[i - Len(a)]
  <2>1. /\ ofA \o ofB \in Seq(Seq(S)) /\ Len(ofA \o ofB) = Len(ofA) + Len(ofB)
        /\ \A i \in 1 .. Len(ofA) + Len(ofB) : (ofA \o ofB)[i] = IF i <= Len(ofA) THEN ofA[i] ELSE ofB[i - Len(ofA)]
    <3>. DEFINE Lists == Seq(S)
    <3>1. ofA \in Seq(Lists) /\ ofB \in Seq(Lists)
      BY <1>5
    <3>. HIDE DEF Lists
    <3>2. /\ ofA \o ofB \in Seq(Lists) /\ Len(ofA \o ofB) = Len(ofA) + Len(ofB)
          /\ \A i \in 1 .. Len(ofA) + Len(ofB) : (ofA \o ofB)[i] = IF i <= Len(ofA) THEN ofA[i] ELSE ofB[i - Len(ofA)]
      BY <3>1, ConcatProperties
    <3>. QED BY <3>2 DEF Lists
  <2>. QED BY <1>5, <2>1
<1>8. \A i \in 1 .. Len(a) + Len(b) : ofBoth[i] = (ofA \o ofB)[i]
  <2>. TAKE i \in 1 .. Len(a) + Len(b)
  <2>1. CASE i <= Len(a)
    <3>1. i \in 1 .. Len(a)
      BY <1>1, <2>1
    <3>. QED BY <1>4, <1>5, <1>6, <1>7, <2>1, <3>1
  <2>2. CASE ~(i <= Len(a))
    <3>1. i - Len(a) \in 1 .. Len(b)
      BY <1>1, <2>2
    <3>. QED BY <1>4, <1>5, <1>6, <1>7, <2>2, <3>1
  <2>. QED BY <2>1, <2>2
<1>9. ofBoth = ofA \o ofB
  BY <1>6, <1>7, <1>8, SeqEqual
<1>10. FlattenSeq(ofA \o ofB) = FlattenSeq(ofA) \o FlattenSeq(ofB)
  BY <1>5, FlattenConcat
<1>11. CostRows(both, scope) = CostRows(a, scope) \o CostRows(b, scope)
  BY <1>3, <1>9, <1>10
<1>. DEFINE rowsA == CostRows(a, scope)  rowsB == CostRows(b, scope)
<1>12. IsList(rowsA) /\ IsList(rowsB)
  BY CostRowsMembers
<1>. HIDE DEF rowsA, rowsB
<1>13. Values(rowsA \o rowsB) = Values(rowsA) \o Values(rowsB)
  BY <1>12, ValuesJoin
<1>. QED
  BY <1>11, <1>13 DEF CostsOf, rowsA, rowsB, both

\* The lists a loop appends, up to every turn.
LEMMA LoopLists ==
    ASSUME NEW list, IsList(list), NEW seqs, seqs = [i \in DOMAIN list |-> seqs[i]],
           \A i \in DOMAIN list : IsList(seqs[i])
    PROVE  /\ Len(list) \in Nat /\ Flattened(seqs, 0) = <<>> /\ FlattenSeq(seqs) = Flattened(seqs, Len(list))
           /\ \A n \in 0 .. Len(list) : IsList(Flattened(seqs, n))
           /\ \A n \in 0 .. Len(list) - 1 :
                 n + 1 \in DOMAIN list /\ Flattened(seqs, n + 1) = Flattened(seqs, n) \o seqs[n + 1]
<1>. DEFINE S == UNION {Range(seqs[i]) : i \in DOMAIN list}
<1>1. DOMAIN list = 1 .. Len(list) /\ Len(list) \in Nat
  BY Indices
<1>2. \A i \in DOMAIN list : seqs[i] \in Seq(S)
  <2>. TAKE i \in DOMAIN list
  <2>1. seqs[i] \in Seq(Range(seqs[i]))
    BY DEF IsList
  <2>2. Range(seqs[i]) \subseteq S
    OBVIOUS
  <2>. HIDE DEF S
  <2>. QED BY <2>1, <2>2
<1>. HIDE DEF S
<1>3. seqs \in Seq(Seq(S)) /\ Len(seqs) = Len(list)
  <2>1. seqs = [i \in 1 .. Len(list) |-> seqs[i]]
    BY <1>1
  <2>. QED BY <1>1, <1>2, <2>1
<1>4. /\ Flattened(seqs, 0) = <<>> /\ FlattenSeq(seqs) = Flattened(seqs, Len(list))
      /\ \A n \in 0 .. Len(list) : Flattened(seqs, n) \in Seq(S)
      /\ \A n \in 0 .. Len(list) - 1 : Flattened(seqs, n + 1) = Flattened(seqs, n) \o seqs[n + 1]
  BY <1>3, FlattenedSteps
<1>5. \A n \in 0 .. Len(list) : IsList(Flattened(seqs, n))
  BY <1>4, ListOf
<1>6. \A n \in 0 .. Len(list) - 1 : n + 1 \in DOMAIN list
  BY <1>1
<1>. QED
  BY <1>1, <1>4, <1>5, <1>6

\* Costs that a loop adds up as it goes are those of the rows it has appended.
LEMMA CostsAlongLoop ==
    ASSUME NEW list, IsList(list), NEW scope,
           NEW rows, rows = [i \in DOMAIN list |-> rows[i]], \A i \in DOMAIN list : IsList(rows[i]),
           NEW costs, costs = [i \in DOMAIN list |-> costs[i]], \A i \in DOMAIN list : IsList(costs[i]),
           \A i \in DOMAIN list : CostsOf(rows[i], scope) = Values(costs[i])
    PROVE  CostsOf(FlattenSeq(rows), scope) = Values(FlattenSeq(costs))
<1>. DEFINE T == {n \in Nat : n <= Len(list) => CostsOf(Flattened(rows, n), scope) = Values(Flattened(costs, n))}
<1>1. /\ Len(list) \in Nat /\ Flattened(rows, 0) = <<>> /\ FlattenSeq(rows) = Flattened(rows, Len(list))
      /\ \A n \in 0 .. Len(list) : IsList(Flattened(rows, n))
      /\ \A n \in 0 .. Len(list) - 1 :
            n + 1 \in DOMAIN list /\ Flattened(rows, n + 1) = Flattened(rows, n) \o rows[n + 1]
  BY LoopLists
<1>2. /\ Flattened(costs, 0) = <<>> /\ FlattenSeq(costs) = Flattened(costs, Len(list))
      /\ \A n \in 0 .. Len(list) : IsList(Flattened(costs, n))
      /\ \A n \in 0 .. Len(list) - 1 : Flattened(costs, n + 1) = Flattened(costs, n) \o costs[n + 1]
  BY LoopLists
<1>3. 0 \in T
  <2>1. CostsOf(<<>>, scope) = <<>>
    BY EmptyList, NoCosts
  <2>2. Values(<<>>) = <<>>
    BY DEF Values
  <2>. QED BY <1>1, <1>2, <2>1, <2>2
<1>4. ASSUME NEW n \in Nat, n \in T PROVE n + 1 \in T
  <2>. SUFFICES ASSUME n + 1 <= Len(list)
                PROVE  CostsOf(Flattened(rows, n + 1), scope) = Values(Flattened(costs, n + 1))
    OBVIOUS
  <2>1. n \in 0 .. Len(list) - 1 /\ n \in 0 .. Len(list)
    BY <1>1
  <2>. DEFINE r == Flattened(rows, n)  c == Flattened(costs, n)  rs == rows[n + 1]  cs == costs[n + 1]
  <2>2. /\ IsList(r) /\ IsList(c) /\ IsList(rs) /\ IsList(cs)
        /\ Flattened(rows, n + 1) = r \o rs /\ Flattened(costs, n + 1) = c \o cs
        /\ CostsOf(rs, scope) = Values(cs)
    BY <1>1, <1>2, <2>1
  <2>3. CostsOf(r, scope) = Values(c)
    BY <1>4, <2>1
  <2>. HIDE DEF r, c, rs, cs
  <2>4. CostsOf(r \o rs, scope) = CostsOf(r, scope) \o CostsOf(rs, scope)
    <3>1. IsList(r) /\ IsList(rs)
      BY <2>2
    <3>. QED BY <3>1, CostsJoin
  <2>5. Values(c \o cs) = Values(c) \o Values(cs)
    <3>1. IsList(c) /\ IsList(cs)
      BY <2>2
    <3>. QED BY <3>1, ValuesJoin
  <2>. QED BY <2>2, <2>3, <2>4, <2>5
<1>5. Len(list) \in T
  <2>. HIDE DEF T
  <2>. QED BY <1>1, <1>3, <1>4, Induction
<1>. QED
  BY <1>1, <1>2, <1>5

\* The models the loop visits are a list of models of the reply.
LEMMA VisitedModels ==
    ASSUME NEW models, IsList(models)
    PROVE  IsList(Visited(models)) /\ Range(Visited(models)) \subseteq Range(models)
<1>. DEFINE Of(category) == [i \in DOMAIN models |->
                IF models[i].category = category /\ models[i].id # <<"", "">> THEN <<models[i]>> ELSE <<>>]
            seqs == [i \in DOMAIN Categories |-> FlattenSeq(Of(Categories[i]))]
<1>1. Visited(models) = FlattenSeq(seqs)
  BY DEF Visited, ForEach, Selected
<1>2. IsList(Categories)
  <2>1. \A S : \A a \in S, b \in S, c \in S, d \in S, e \in S, f \in S, g \in S, h \in S : <<a, b, c, d, e, f, g, h>> \in Seq(S)
    OBVIOUS
  <2>2. Categories \in Seq({"completion", "ocr", "connectors", "audio", "libraries_api.pages",
                             "libraries_api.tokens", "fine_tuning.training", "fine_tuning.storage"})
    BY <2>1 DEF Categories
  <2>. QED BY <2>2, ListOf
<1>3. ASSUME NEW category
      PROVE  IsList(FlattenSeq(Of(category))) /\ Range(FlattenSeq(Of(category))) \subseteq Range(models)
  <2>. DEFINE some == Of(category)
  <2>1. \A i \in DOMAIN models : some[i] \in {<<models[i]>>, <<>>}
    OBVIOUS
  <2>2. some = [i \in DOMAIN models |-> some[i]]
    OBVIOUS
  <2>. HIDE DEF some
  <2>3. IsList(FlattenSeq(some)) /\ Range(FlattenSeq(some)) \subseteq Range(models)
    BY <2>1, <2>2, SelectedMembers
  <2>. QED BY <2>3 DEF some
<1>. HIDE DEF Of
<1>4. \A i \in DOMAIN Categories : IsList(seqs[i]) /\ Range(seqs[i]) \subseteq Range(models)
  BY <1>3
<1>5. seqs = [i \in DOMAIN Categories |-> seqs[i]]
  OBVIOUS
<1>. HIDE DEF seqs
<1>6. /\ IsList(FlattenSeq(seqs))
      /\ \A x : x \in Range(FlattenSeq(seqs)) <=> \E i \in DOMAIN Categories : x \in Range(seqs[i])
  BY <1>2, <1>4, <1>5, LoopAppends
<1>. QED
  BY <1>1, <1>4, <1>6

\* The fields of a cost row.
LEMMA CostRowFields ==
    \A value, scope, category, model, request, label, currency :
       LET row == CostRow(value, scope, category, model, request, label, currency)
       IN  row.value = value /\ row.metric = CostMetric /\ row.labels.scope = scope
  BY RowFields DEF CostRow

\* A model's cost rows carry its costs.
LEMMA ModelCosts ==
    ASSUME NEW model, ModelTyped(model), NEW prices, PricesTyped(prices), NEW currency
    PROVE  LET rows == ModelCostRows(model, prices, currency)
           IN  /\ Numbers(rows) /\ \A r \in Range(rows) : IsCost(r, "model")
               /\ Values(rows) = Values(CostAggregates(model, prices))
<1>. DEFINE costs == CostAggregates(model, prices)
            Of(c) == CostRow(c.value, "model", model.category, c.billing, Display(model.id), c.label, currency)
            rows == [i \in DOMAIN costs |-> Of(costs[i])]
<1>1. ModelCostRows(model, prices, currency) = rows
  BY DEF ModelCostRows
<1>2. IsList(costs) /\ \A c \in Range(costs) : c.value \in Int
  BY CostsTyped
<1>. HIDE DEF costs
<1>3. \A c : Of(c).value = c.value /\ IsCost(Of(c), "model")
  BY CostRowFields DEF IsCost
<1>4. rows = [i \in DOMAIN costs |-> rows[i]] /\ DOMAIN rows = DOMAIN costs
      /\ \A i \in DOMAIN costs : rows[i] = Of(costs[i])
  <2>. HIDE DEF Of
  <2>. QED OBVIOUS
<1>. HIDE DEF Of, rows
<1>5. IsList(rows) /\ \A r \in Range(rows) : \E i \in DOMAIN costs : r = rows[i]
  BY <1>2, <1>4, MappedRows
<1>6. Numbers(rows) /\ \A r \in Range(rows) : IsCost(r, "model")
  BY <1>2, <1>3, <1>4, <1>5, Indices DEF Numbers
<1>7. Values(rows) = Values(costs)
  BY <1>3, <1>4 DEF Values
<1>. QED
  BY <1>1, <1>6, <1>7 DEF costs

\* What is read of one model.
LEMMA ModelReads ==
    ASSUME NEW model, ModelTyped(model), NEW prices, PricesTyped(prices), NEW currency,
           NEW rows, rows = (IF model.category = "completion" THEN TokenRows(model) ELSE <<>>)
                                \o ModelCostRows(model, prices, currency)
    PROVE  /\ Numbers(rows) /\ \A r \in Range(rows) : r.metric \in {TokensMetric, CostMetric} /\ ~IsCost(r, "total")
           /\ CostsOf(rows, "model") = Values(CostAggregates(model, prices))
<1>. DEFINE tokens == IF model.category = "completion" THEN TokenRows(model) ELSE <<>>
            costs == ModelCostRows(model, prices, currency)
<1>1. Numbers(tokens) /\ \A r \in Range(tokens) : r.metric = TokensMetric
  BY TokenReads, NoRows, EmptyList
<1>2. /\ Numbers(costs) /\ \A r \in Range(costs) : IsCost(r, "model")
      /\ Values(costs) = Values(CostAggregates(model, prices))
  BY ModelCosts
<1>3. rows = tokens \o costs
  OBVIOUS
<1>. HIDE DEF tokens, costs
<1>4. IsList(tokens) /\ IsList(costs)
  BY <1>1, <1>2 DEF Numbers
<1>5. \A r \in Range(tokens) : ~IsCost(r, "model") /\ ~IsCost(r, "total")
  BY <1>1, Metrics DEF IsCost
<1>6. \A r \in Range(costs) : ~IsCost(r, "total")
  BY <1>2 DEF IsCost
<1>7. CostsOf(tokens, "model") = <<>>
  BY <1>4, <1>5, <1>6, NoCosts
<1>8. CostsOf(costs, "model") = Values(costs)
  BY <1>2, <1>4, OnlyCosts
<1>9. CostsOf(rows, "model") = CostsOf(tokens, "model") \o CostsOf(costs, "model")
  <2>1. CostsOf(tokens \o costs, "model") = CostsOf(tokens, "model") \o CostsOf(costs, "model")
    BY <1>4, CostsJoin
  <2>. QED BY <1>3, <2>1
<1>10. <<>> \o Values(costs) = Values(costs)
  <2>. DEFINE v == Values(costs)
  <2>1. IsList(v)
    BY <1>4, ValuesJoin
  <2>. HIDE DEF v
  <2>2. <<>> \o v = v
    BY <2>1 DEF IsList
  <2>. QED BY <2>2 DEF v
<1>11. Numbers(rows)
  BY <1>1, <1>2, <1>3, RowsJoin
<1>12. Range(rows) = Range(tokens) \cup Range(costs)
  BY <1>3, <1>4, ListsJoin
<1>13. \A r \in Range(rows) : r.metric \in {TokensMetric, CostMetric} /\ ~IsCost(r, "total")
  <2>1. \A r \in Range(costs) : r.metric = CostMetric
    BY <1>2 DEF IsCost
  <2>. QED BY <1>1, <1>5, <1>6, <1>12, <2>1
<1>. QED
  BY <1>2, <1>7, <1>8, <1>9, <1>10, <1>11, <1>13

\* The decoded usage reply holds lists of numbers.
LEMMA UsageTyped ==
    ASSUME NEW usage \in MistralUsages
    PROVE  /\ IsList(Visited(usage.models)) /\ \A m \in Range(Visited(usage.models)) : ModelTyped(m)
           /\ PricesTyped(PriceIndex(usage.prices)) /\ usage.endDate \in Int
<1>1. \A m \in Range(usage.models) : ModelTyped(m)
  <2>. TAKE m \in Range(usage.models)
  <2>1. \A type \in {"input", "output", "cached"} :
           IsList(m[type]) /\ \A entry \in Range(m[type]) : entry.value \in Int /\ entry.paid \in Int
    BY MistralAssumption
  <2>. QED BY <2>1 DEF ModelTyped, EntriesTyped
<1>2. IsList(usage.models) /\ IsList(usage.prices) /\ usage.endDate \in Int /\ \A p \in Range(usage.prices) : p.price \in Int
  BY MistralAssumption
<1>. QED
  BY <1>1, <1>2, VisitedModels, PriceIndexTyped

\* The billing rows are numbers, bounded, and their total is the sum of the
\* models' costs.
LEMMA BillingReads ==
    ASSUME NEW usage \in MistralUsages
    PROVE  Numbers(BillingRows(usage)) /\ Bounded(BillingRows(usage)) /\ TotalOfModels(BillingRows(usage))
<1>. DEFINE models == Visited(usage.models)
            prices == PriceIndex(usage.prices)
            currency == IF usage.currency = "" THEN "EUR" ELSE usage.currency
            RowsOf(m) == (IF m.category = "completion" THEN TokenRows(m) ELSE <<>>)
                             \o ModelCostRows(m, prices, currency)
            rows == [i \in DOMAIN models |-> RowsOf(models[i])]
            costs == [i \in DOMAIN models |-> CostAggregates(models[i], prices)]
            loop == FlattenSeq(rows)
            sum == Total(Values(FlattenSeq(costs)))
            total == CostRow(sum, "total", "all", "", "", "", currency)
            reset == QuotaRow(ResetMetric, "", "cost", "month", "billing_cap", usage.endDate + 1)
            tail == IF usage.endDate > 0 THEN <<reset>> ELSE <<>>
<1>1. BillingRows(usage) = IF ~HasUsageShape(usage) THEN <<>> ELSE (loop \o <<total>>) \o tail
  BY DEF BillingRows, ForEach, TotalCost
<1>2. /\ IsList(models) /\ \A m \in Range(models) : ModelTyped(m)
      /\ PricesTyped(prices) /\ usage.endDate \in Int
  BY UsageTyped
<1>. HIDE DEF models, prices, currency
<1>3. \A i \in DOMAIN models : ModelTyped(models[i])
  BY <1>2, Indices
<1>4. /\ rows = [i \in DOMAIN models |-> rows[i]] /\ \A i \in DOMAIN models : rows[i] = RowsOf(models[i])
      /\ costs = [i \in DOMAIN models |-> costs[i]] /\ \A i \in DOMAIN models : costs[i] = CostAggregates(models[i], prices)
  <2>. HIDE DEF RowsOf
  <2>. QED OBVIOUS
<1>. HIDE DEF rows, costs
<1>5. \A i \in DOMAIN models :
         /\ Numbers(rows[i]) /\ \A r \in Range(rows[i]) : r.metric \in {TokensMetric, CostMetric} /\ ~IsCost(r, "total")
         /\ CostsOf(rows[i], "model") = Values(costs[i])
  <2>. TAKE i \in DOMAIN models
  <2>. DEFINE m == models[i]  these == RowsOf(m)
  <2>1. ModelTyped(m)
    BY <1>3
  <2>2. these = (IF m.category = "completion" THEN TokenRows(m) ELSE <<>>) \o ModelCostRows(m, prices, currency)
    OBVIOUS
  <2>3. rows[i] = these /\ costs[i] = CostAggregates(m, prices)
    BY <1>4
  <2>. HIDE DEF m, these
  <2>4. /\ Numbers(these) /\ \A r \in Range(these) : r.metric \in {TokensMetric, CostMetric} /\ ~IsCost(r, "total")
        /\ CostsOf(these, "model") = Values(CostAggregates(m, prices))
    BY <1>2, <2>1, <2>2, ModelReads
  <2>. QED BY <2>3, <2>4
<1>6. \A i \in DOMAIN models : IsList(costs[i]) /\ \A c \in Range(costs[i]) : c.value \in Int
  BY <1>2, <1>3, <1>4, CostsTyped
<1>. HIDE DEF RowsOf
<1>7. /\ Numbers(loop)
      /\ \A r \in Range(loop) : r.metric \in {TokensMetric, CostMetric} /\ ~IsCost(r, "total")
  <2>1. \A i \in DOMAIN models : IsList(rows[i])
    BY <1>5 DEF Numbers
  <2>2. IsList(loop) /\ \A x : x \in Range(loop) <=> \E i \in DOMAIN models : x \in Range(rows[i])
    BY <1>2, <1>4, <2>1, LoopAppends
  <2>3. Numbers(loop)
    BY <1>2, <1>4, <1>5, RowsAppended
  <2>. QED BY <1>5, <2>2, <2>3
<1>8. sum \in Int
  <2>1. /\ IsList(FlattenSeq(costs))
        /\ \A x : x \in Range(FlattenSeq(costs)) <=> \E i \in DOMAIN models : x \in Range(costs[i])
    BY <1>2, <1>4, <1>6, LoopAppends
  <2>. DEFINE all == FlattenSeq(costs)
  <2>2. IsList(all) /\ \A c \in Range(all) : c.value \in Int
    BY <1>6, <2>1
  <2>. HIDE DEF all
  <2>3. Values(all) \in Seq(Int)
    <3>1. Len(all) \in Nat /\ DOMAIN all = 1 .. Len(all) /\ \A i \in 1 .. Len(all) : all[i].value \in Int
      BY <2>2, Indices
    <3>. QED BY <3>1 DEF Values
  <2>. QED BY <2>3, TotalIsNumber DEF all
<1>9. CostsOf(loop, "model") = Values(FlattenSeq(costs))
  <2>1. \A i \in DOMAIN models : IsList(rows[i]) /\ IsList(costs[i]) /\ CostsOf(rows[i], "model") = Values(costs[i])
    BY <1>5, <1>6 DEF Numbers
  <2>. QED BY <1>2, <1>4, <2>1, CostsAlongLoop
<1>10. CostsOf(loop, "total") = <<>>
  <2>1. IsList(loop) /\ \A r \in Range(loop) : ~IsCost(r, "total")
    BY <1>7 DEF Numbers
  <2>. HIDE DEF loop
  <2>. QED BY <2>1, NoCosts
<1>. DEFINE spent == Values(FlattenSeq(costs))
<1>11. sum = Total(spent)
  OBVIOUS
<1>. HIDE DEF loop, sum, spent
<1>12. total.value = sum /\ total.metric = CostMetric /\ total.labels.scope = "total"
  BY DEF CostRow, Row
<1>13. reset.value = usage.endDate + 1 /\ reset.metric = ResetMetric
  BY DEF QuotaRow, Row
<1>. HIDE DEF total, reset
<1>14. Numbers(<<total>>) /\ Range(<<total>>) = {total} /\ IsList(<<total>>)
  BY <1>8, <1>12, ShortLists DEF Numbers
<1>15. Numbers(tail) /\ \A r \in Range(tail) : r.metric = ResetMetric
  <2>1. Numbers(<<reset>>) /\ Range(<<reset>>) = {reset}
    BY <1>2, <1>13, ShortLists DEF Numbers
  <2>. QED BY <1>13, <2>1, NoRows, EmptyList
<1>. HIDE DEF tail
<1>16. /\ IsList(loop) /\ IsList(tail) /\ Numbers(loop \o <<total>>) /\ IsList(loop \o <<total>>)
       /\ Range(loop \o <<total>>) = Range(loop) \cup {total}
  <2>1. IsList(loop) /\ IsList(tail)
    BY <1>7, <1>15 DEF Numbers
  <2>2. Numbers(loop \o <<total>>)
    BY <1>7, <1>14, RowsJoin
  <2>. QED BY <1>14, <2>1, <2>2, ListsJoin
<1>. DEFINE most == loop \o <<total>>
            all == most \o tail
<1>17. Numbers(all) /\ Range(all) = Range(loop) \cup {total} \cup Range(tail)
  <2>1. Numbers(most) /\ IsList(most) /\ Range(most) = Range(loop) \cup {total}
    BY <1>16
  <2>. HIDE DEF most
  <2>2. Numbers(all) /\ Range(all) = Range(most) \cup Range(tail)
    BY <1>15, <1>16, <2>1, RowsJoin, ListsJoin
  <2>. QED BY <2>1, <2>2
<1>18. Bounded(all)
  <2>1. \A r \in Range(all) : r.metric \in {TokensMetric, CostMetric, ResetMetric}
    BY <1>7, <1>12, <1>15, <1>17
  <2>. HIDE DEF all
  <2>2. \A r \in Range(all) : r.metric # RemainingMetric
    BY <2>1, Metrics
  <2>. QED BY <2>2, NothingLeft
<1>19. ASSUME NEW scope \in {"model", "total"}
       PROVE  CostsOf(all, scope) = (CostsOf(loop, scope) \o CostsOf(<<total>>, scope)) \o CostsOf(tail, scope)
  <2>1. IsList(most) /\ IsList(tail) /\ IsList(loop) /\ IsList(<<total>>)
    BY <1>14, <1>16
  <2>2. CostsOf(most, scope) = CostsOf(loop, scope) \o CostsOf(<<total>>, scope)
    <3>1. IsList(loop) /\ IsList(<<total>>)
      BY <2>1
    <3>2. CostsOf(loop \o <<total>>, scope) = CostsOf(loop, scope) \o CostsOf(<<total>>, scope)
      BY <3>1, CostsJoin
    <3>. QED BY <3>2
  <2>. HIDE DEF most
  <2>3. CostsOf(most \o tail, scope) = CostsOf(most, scope) \o CostsOf(tail, scope)
    BY <2>1, CostsJoin
  <2>. QED BY <2>2, <2>3
<1>20. CostsOf(tail, "model") = <<>> /\ CostsOf(tail, "total") = <<>>
  <2>1. \A r \in Range(tail) : ~IsCost(r, "model") /\ ~IsCost(r, "total")
    BY <1>15, Metrics DEF IsCost
  <2>2. IsList(tail)
    BY <1>16
  <2>. QED BY <2>1, <2>2, NoCosts
<1>21. CostsOf(<<total>>, "model") = <<>>
  <2>1. \A r \in Range(<<total>>) : ~IsCost(r, "model")
    BY <1>12, <1>14 DEF IsCost
  <2>. QED BY <1>14, <2>1, NoCosts
<1>22. CostsOf(<<total>>, "total") = <<sum>>
  <2>1. \A r \in Range(<<total>>) : IsCost(r, "total")
    BY <1>12, <1>14 DEF IsCost
  <2>2. CostsOf(<<total>>, "total") = Values(<<total>>)
    BY <1>14, <2>1, OnlyCosts
  <2>3. Values(<<total>>) = <<total.value>>
    BY DEF Values
  <2>. QED BY <1>12, <2>2, <2>3
<1>23. CostsOf(all, "total") = <<sum>>
  <2>1. (<<>> \o <<sum>>) \o <<>> = <<sum>>
    OBVIOUS
  <2>. QED BY <1>10, <1>19, <1>20, <1>22, <2>1
<1>24. CostsOf(all, "model") = spent
  <2>1. IsList(spent)
    <3>1. /\ IsList(FlattenSeq(costs))
      BY <1>2, <1>4, <1>6, LoopAppends
    <3>. QED BY <3>1, ValuesJoin DEF spent
  <2>2. (spent \o <<>>) \o <<>> = spent
    BY <2>1 DEF IsList
  <2>. QED BY <1>9, <1>19, <1>20, <1>21, <2>2 DEF spent
<1>25. TotalOfModels(all)
  <2>1. Len(<<sum>>) <= 1 /\ <<sum>>[1] = Total(spent)
    BY <1>11
  <2>. HIDE DEF all
  <2>. QED BY <1>23, <1>24, <2>1, CostsOfTotal
<1>26. TotalOfModels(<<>>)
  <2>1. CostsOf(<<>>, "total") = <<>>
    BY EmptyList, NoCosts
  <2>2. Len(<<>>) <= 1
    OBVIOUS
  <2>. QED BY <2>1, <2>2, CostsOfTotal
<1>27. BillingRows(usage) = IF ~HasUsageShape(usage) THEN <<>> ELSE all
  BY <1>1
<1>. HIDE DEF all
<1>. QED
  BY <1>17, <1>18, <1>25, <1>26, <1>27, NoRows

--------------------------------------------------------------------------------
(* The limits of Mistral.                                                        *)

\* The rows of the monthly cap are numbers, bounded, and no costs.
LEMMA CapReads ==
    ASSUME NEW limits \in MistralLimits
    PROVE  /\ Numbers(CapRows(limits)) /\ Bounded(CapRows(limits))
           /\ \A r \in Range(CapRows(limits)) : r.metric # CostMetric
<1>. DEFINE limit == NonNegative(limits.limit)
            usage == FirstPositive(limits.total, NonNegative(limits.usage) + NonNegative(limits.vibe))
            labels == [model |-> "", resource |-> "cost", window |-> "month", pool |-> "billing_cap"]
            l == Row(LimitMetric, labels, limit)
            u == Row(UsageMetric, labels, usage)
            left == Row(RemainingMetric, labels, NonNegative(limit - usage))
            rows == <<l, u, left>>
<1>1. CapRows(limits) = IF limits.unlimited \/ limit = 0 THEN <<>> ELSE rows
  BY DEF CapRows, QuotaRow
<1>2. limit \in Nat /\ usage \in Nat
  <2>1. limits.limit \in Int /\ limits.usage \in Int /\ limits.vibe \in Int /\ limits.total \in Int
    BY MistralAssumption
  <2>. DEFINE a == limits.total  b == NonNegative(limits.usage) + NonNegative(limits.vibe)
  <2>2. a \in Int /\ b \in Nat
    BY <2>1, NotNegative
  <2>3. usage = IF a > 0 THEN a ELSE NonNegative(b)
    BY DEF FirstPositive
  <2>. HIDE DEF a, b
  <2>4. limit \in Nat /\ NonNegative(b) \in Nat
    BY <2>1, <2>2, NotNegative
  <2>. HIDE DEF usage, limit
  <2>. QED BY <2>2, <2>3, <2>4
<1>3. /\ l.metric = LimitMetric /\ l.labels = labels /\ l.value = limit
      /\ u.metric = UsageMetric /\ u.labels = labels /\ u.value = usage
      /\ left.metric = RemainingMetric /\ left.labels = labels /\ left.value = NonNegative(limit - usage)
  <2>. HIDE DEF limit, usage, labels
  <2>. QED BY DEF Row
<1>. HIDE DEF limit, usage, labels, l, u, left
<1>4. IsList(rows) /\ Range(rows) = {l, u, left}
  BY ShortLists
<1>5. left.value \in Nat /\ left.value <= limit
  <2>1. limit - usage \in Int
    BY <1>2
  <2>2. NonNegative(limit - usage) \in Nat /\ (limit - usage >= 0 => NonNegative(limit - usage) = limit - usage)
        /\ (limit - usage < 0 => NonNegative(limit - usage) = 0)
    BY <2>1, NotNegative
  <2>. QED BY <1>2, <1>3, <2>2
<1>. HIDE DEF rows
<1>6. Numbers(rows)
  BY <1>2, <1>3, <1>4, <1>5 DEF Numbers
<1>7. Bounded(rows)
  <2>1. \A r \in Range(rows) : r.metric = RemainingMetric => r = left
    BY <1>3, <1>4, Metrics
  <2>2. l \in Range(rows) /\ left.value >= 0 /\ left.value <= l.value /\ l.labels = left.labels
    BY <1>2, <1>3, <1>4, <1>5
  <2>. QED BY <1>3, <2>1, <2>2 DEF Bounded
<1>8. \A r \in Range(rows) : r.metric # CostMetric
  BY <1>3, <1>4, Metrics
<1>. QED
  BY <1>1, <1>6, <1>7, <1>8, NoRows, EmptyList

\* LoopAppends for the lists of a loop that are given by their members.
Listed(list, seqs) ==
    seqs = [i \in DOMAIN list |-> seqs[i]] /\ \A i \in DOMAIN list : IsList(seqs[i])

LEMMA ListedMembers ==
    ASSUME NEW list, IsList(list), NEW seqs, Listed(list, seqs)
    PROVE  \A x : x \in Range(FlattenSeq(seqs)) <=> \E i \in DOMAIN list : x \in Range(seqs[i])
<1>1. seqs = [i \in DOMAIN list |-> seqs[i]] /\ \A i \in DOMAIN list : IsList(seqs[i])
  BY DEF Listed
<1>. QED
  BY <1>1, LoopAppends

\* One limit row at most of every member.
LEMMA PerModelReads ==
    ASSUME NEW list, IsList(list), NEW resource, NEW window, \A m \in Range(list) : m[window] \in Int,
           NEW seqs, seqs = [i \in DOMAIN list |->
                                IF list[i].model = "" \/ list[i][window] <= 0 THEN <<>>
                                ELSE <<QuotaRow(LimitMetric, list[i].model, resource, window, "", list[i][window])>>]
    PROVE  Numbers(FlattenSeq(seqs)) /\ \A r \in Range(FlattenSeq(seqs)) : r.metric = LimitMetric
<1>. DEFINE Of(m) == QuotaRow(LimitMetric, m.model, resource, window, "", m[window])
<1>1. \A m : Of(m).metric = LimitMetric /\ Of(m).value = m[window]
  BY DEF QuotaRow, Row
<1>2. seqs = [i \in DOMAIN list |-> seqs[i]] /\ \A i \in DOMAIN list : seqs[i] \in {<<>>, <<Of(list[i])>>}
  BY DEF QuotaRow
<1>. HIDE DEF Of
<1>3. \A i \in DOMAIN list : Numbers(seqs[i]) /\ \A r \in Range(seqs[i]) : r.metric = LimitMetric
  <2>. TAKE i \in DOMAIN list
  <2>1. Numbers(<<Of(list[i])>>) /\ Range(<<Of(list[i])>>) = {Of(list[i])}
    <3>1. list[i][window] \in Int
      BY Indices
    <3>2. Of(list[i]).value \in Int
      BY <1>1, <3>1
    <3>. DEFINE row == Of(list[i])
    <3>3. row.value \in Int
      BY <3>2
    <3>. HIDE DEF row
    <3>4. IsList(<<row>>) /\ Range(<<row>>) = {row}
      BY ShortLists
    <3>5. Numbers(<<row>>)
      BY <3>3, <3>4 DEF Numbers
    <3>. QED BY <3>4, <3>5 DEF row
  <2>. QED BY <1>1, <1>2, <2>1, NoRows, EmptyList
<1>. HIDE DEF Of
<1>4. Numbers(FlattenSeq(seqs))
  <2>1. seqs = [i \in DOMAIN list |-> seqs[i]]
    BY <1>2
  <2>. QED BY <1>3, <2>1, RowsAppended
<1>5. \A x : x \in Range(FlattenSeq(seqs)) <=> \E i \in DOMAIN list : x \in Range(seqs[i])
  <2>1. Listed(list, seqs)
    BY <1>2, <1>3 DEF Numbers, Listed
  <2>. QED BY <2>1, ListedMembers
<1>. QED
  BY <1>3, <1>4, <1>5

\* The limit rows are numbers, bounded, and no costs.
LEMMA LimitReads ==
    ASSUME NEW limits \in MistralLimits
    PROVE  /\ Numbers(LimitRows(limits)) /\ Bounded(LimitRows(limits))
           /\ \A r \in Range(LimitRows(limits)) : r.metric # CostMetric
<1>. DEFINE PerModel(list, resource, window) ==
                FlattenSeq([i \in DOMAIN list |->
                    IF list[i].model = "" \/ list[i][window] <= 0 THEN <<>>
                    ELSE <<QuotaRow(LimitMetric, list[i].model, resource, window, "", list[i][window])>>])
            cap == CapRows(limits)
            minute == PerModel(limits.tokens, "tokens", "minute")
            month == PerModel(limits.tokens, "tokens", "month")
            second == PerModel(limits.requests, "requests", "second")
<1>1. LimitRows(limits) = ((cap \o minute) \o month) \o second
  BY DEF LimitRows, ForEach
<1>2. /\ IsList(limits.tokens) /\ \A m \in Range(limits.tokens) : m.minute \in Int /\ m.month \in Int
      /\ IsList(limits.requests) /\ \A m \in Range(limits.requests) : m.second \in Int
  BY MistralAssumption
<1>3. ASSUME NEW list, IsList(list), NEW resource, NEW window, \A m \in Range(list) : m[window] \in Int
      PROVE  /\ Numbers(PerModel(list, resource, window))
             /\ \A r \in Range(PerModel(list, resource, window)) : r.metric = LimitMetric
  BY <1>3, PerModelReads
<1>. HIDE DEF PerModel
<1>4. /\ Numbers(minute) /\ \A r \in Range(minute) : r.metric = LimitMetric
      /\ Numbers(month) /\ \A r \in Range(month) : r.metric = LimitMetric
      /\ Numbers(second) /\ \A r \in Range(second) : r.metric = LimitMetric
  BY <1>2, <1>3
<1>5. Numbers(cap) /\ Bounded(cap) /\ \A r \in Range(cap) : r.metric # CostMetric
  BY CapReads
<1>. HIDE DEF cap, minute, month, second
<1>6. \A rows : (\A r \in Range(rows) : r.metric = LimitMetric) =>
                    Bounded(rows) /\ \A r \in Range(rows) : r.metric # CostMetric
  BY NothingLeft, Metrics
<1>7. ASSUME NEW a, Numbers(a), Bounded(a), \A r \in Range(a) : r.metric # CostMetric,
             NEW b, Numbers(b), \A r \in Range(b) : r.metric = LimitMetric
      PROVE  Numbers(a \o b) /\ Bounded(a \o b) /\ \A r \in Range(a \o b) : r.metric # CostMetric
  <2>1. IsList(a) /\ IsList(b)
    BY <1>7 DEF Numbers
  <2>2. Bounded(b) /\ \A r \in Range(b) : r.metric # CostMetric
    BY <1>6, <1>7
  <2>3. Range(a \o b) = Range(a) \cup Range(b)
    BY <2>1, ListsJoin
  <2>4. Numbers(a \o b) /\ Bounded(a \o b)
    BY <1>7, <2>2, RowsJoin
  <2>. QED BY <1>7, <2>2, <2>3, <2>4
<1>. DEFINE one == cap \o minute
            two == one \o month
<1>8. Numbers(one) /\ Bounded(one) /\ \A r \in Range(one) : r.metric # CostMetric
  BY <1>4, <1>5, <1>7
<1>. HIDE DEF one
<1>9. Numbers(two) /\ Bounded(two) /\ \A r \in Range(two) : r.metric # CostMetric
  BY <1>4, <1>7, <1>8
<1>. HIDE DEF two
<1>10. /\ Numbers(two \o second) /\ Bounded(two \o second)
       /\ \A r \in Range(two \o second) : r.metric # CostMetric
  BY <1>4, <1>7, <1>9
<1>. QED
  BY <1>1, <1>10 DEF one, two

\* The limits add no cost.
LEMMA MistralReads ==
    ASSUME NEW rows, Numbers(rows), Bounded(rows), TotalOfModels(rows), NEW limits \in MistralLimits
    PROVE  LET all == rows \o LimitRows(limits)
           IN  Numbers(all) /\ Bounded(all) /\ TotalOfModels(all)
<1>. DEFINE more == LimitRows(limits)
            all == rows \o more
<1>1. Numbers(more) /\ Bounded(more) /\ \A r \in Range(more) : r.metric # CostMetric
  BY LimitReads
<1>. HIDE DEF more
<1>2. IsList(rows) /\ IsList(more) /\ \A r \in Range(more) : ~IsCost(r, "model") /\ ~IsCost(r, "total")
  BY <1>1 DEF Numbers, IsCost
<1>3. Numbers(all) /\ Bounded(all)
  BY <1>1, RowsJoin
<1>4. \A scope \in {"model", "total"} : CostsOf(all, scope) = CostsOf(rows, scope)
  <2>. TAKE scope \in {"model", "total"}
  <2>1. CostsOf(more, scope) = <<>>
    BY <1>2, NoCosts
  <2>2. CostsOf(all, scope) = CostsOf(rows, scope) \o CostsOf(more, scope)
    BY <1>2, CostsJoin
  <2>. DEFINE costs == CostsOf(rows, scope)
  <2>3. IsList(costs)
    BY <1>2, CostRowsMembers, ValuesJoin DEF CostsOf
  <2>. HIDE DEF costs
  <2>4. costs \o <<>> = costs
    BY <2>3 DEF IsList
  <2>. QED BY <2>1, <2>2, <2>4 DEF costs
<1>. HIDE DEF all
<1>5. TotalOfModels(all)
  BY <1>4, CostsOfTotal
<1>. QED
  BY <1>3, <1>5 DEF all, more

--------------------------------------------------------------------------------
(* Rows that show one value of a gauge.                                          *)

\* The schemas whose readings may hold several rows of a gauge: the total of
\* Mistral, and the activity that OpenRouter and Meituan list by the day.
Repeating == {"mistral-billing", "openrouter-quotas", "meituan-longcat-token-usage"}

\* Where two lists have a row of the same gauge, it shows the same value.
Agree(a, b) ==
    \A left \in Range(a), right \in Range(b) :
        left.metric = right.metric /\ left.labels = right.labels => left.value = right.value

\* The rows of one thing: all of its labels, the metric says which value.
Valued(rows, labels, values) ==
    IsList(rows) /\ \A r \in Range(rows) : r.labels = labels /\ r.value = values[r.metric]

\* No rows agree with any.
LEMMA NoRowsAgree == Agree(<<>>, <<>>)
  BY EmptyList DEF Agree

\* A list after a list agrees with itself if both do, and with one another.
LEMMA JoinAgrees ==
    ASSUME NEW a, IsList(a), NEW b, IsList(b), Agree(a, a), Agree(b, b), Agree(a, b)
    PROVE  Agree(a \o b, a \o b)
<1>1. Range(a \o b) = Range(a) \cup Range(b)
  BY ListsJoin
<1>. QED
  BY <1>1 DEF Agree

\* What a loop appends agrees if what its turns append does.
LEMMA LoopAgrees ==
    ASSUME NEW list, IsList(list), NEW seqs, seqs = [i \in DOMAIN list |-> seqs[i]],
           \A i \in DOMAIN list : IsList(seqs[i]),
           \A i, j \in DOMAIN list : Agree(seqs[i], seqs[j])
    PROVE  Agree(FlattenSeq(seqs), FlattenSeq(seqs))
<1>1. \A x \in Range(FlattenSeq(seqs)) : \E i \in DOMAIN list : x \in Range(seqs[i])
  BY LoopAppends
<1>. SUFFICES ASSUME NEW left \in Range(FlattenSeq(seqs)), NEW right \in Range(FlattenSeq(seqs)),
                     left.metric = right.metric, left.labels = right.labels
              PROVE  left.value = right.value
  BY DEF Agree
<1>2. PICK i \in DOMAIN list : left \in Range(seqs[i])
  BY <1>1
<1>3. PICK j \in DOMAIN list : right \in Range(seqs[j])
  BY <1>1
<1>4. Agree(seqs[i], seqs[j])
  OBVIOUS
<1>. QED
  BY <1>2, <1>3, <1>4 DEF Agree

\* Rows of two things agree unless both have the same labels and differ in value.
LEMMA ValuedAgree ==
    ASSUME NEW a, NEW b, NEW labels, NEW others, NEW values, NEW counts,
           Valued(a, labels, values), Valued(b, others, counts), labels = others => values = counts
    PROVE  Agree(a, b)
  BY DEF Agree, Valued

\* Rows of one thing after rows of it are such rows.
LEMMA ValuedJoin ==
    ASSUME NEW a, NEW b, NEW labels, NEW values, Valued(a, labels, values), Valued(b, labels, values)
    PROVE  Valued(a \o b, labels, values)
<1>1. IsList(a \o b) /\ Range(a \o b) = Range(a) \cup Range(b)
  BY ListsJoin DEF Valued
<1>. QED
  BY <1>1 DEF Valued

\* No row, or an optional one of the metric's value, is one of them.
LEMMA ValuedOption ==
    ASSUME NEW labels, NEW values, NEW metric, NEW option, option # <<>> => option[1] = values[metric]
    PROVE  Valued(OptionRow(metric, labels, option), labels, values)
<1>1. CASE option = <<>>
  BY <1>1, EmptyList DEF OptionRow, Absent, Valued
<1>2. CASE option # <<>>
  <2>. DEFINE row == Row(metric, labels, option[1])
  <2>1. row.metric = metric /\ row.labels = labels /\ row.value = values[metric]
    BY <1>2, RowFields
  <2>2. OptionRow(metric, labels, option) = <<row>>
    BY <1>2 DEF OptionRow, Absent
  <2>. HIDE DEF row
  <2>3. Valued(<<row>>, labels, values)
    BY <2>1, ShortLists DEF Valued
  <2>. QED BY <2>2, <2>3
<1>. QED
  BY <1>1, <1>2

\* Nothing is of any labels and values.
LEMMA ValuedNothing == \A labels, values : Valued(<<>>, labels, values)
  BY EmptyList DEF Valued

\* What the metrics of a row show: the value of each of four.
FourValues(m, k, l, n, a, b, c, d) ==
    [x \in {m, k, l, n} |-> IF x = m THEN a ELSE IF x = k THEN b ELSE IF x = l THEN c ELSE d]

\* The four values are those of their metrics.
LEMMA FourValued ==
    ASSUME NEW m, NEW k, NEW l, NEW n, m # k, m # l, m # n, k # l, k # n, l # n,
           NEW a, NEW b, NEW c, NEW d, NEW values, values = FourValues(m, k, l, n, a, b, c, d)
    PROVE  values[m] = a /\ values[k] = b /\ values[l] = c /\ values[n] = d
  BY DEF FourValues

\* Four rows of a limit, its use, what is left and a percentage.
QuotaValues(limit, used, left, percent) ==
    FourValues(LimitMetric, UsageMetric, RemainingMetric, UsagePercentMetric, limit, used, left, percent)

LEMMA QuotaValued ==
    ASSUME NEW labels, NEW limit, NEW used, NEW left, NEW percent,
           NEW rows, rows = <<Row(LimitMetric, labels, limit), Row(UsageMetric, labels, used),
                              Row(RemainingMetric, labels, left), Row(UsagePercentMetric, labels, percent)>>
    PROVE  Valued(rows, labels, QuotaValues(limit, used, left, percent))
<1>. DEFINE values == QuotaValues(limit, used, left, percent)
            l == Row(LimitMetric, labels, limit)  u == Row(UsageMetric, labels, used)
            r == Row(RemainingMetric, labels, left)  p == Row(UsagePercentMetric, labels, percent)
<1>1. /\ LimitMetric # UsageMetric /\ LimitMetric # RemainingMetric /\ LimitMetric # UsagePercentMetric
      /\ UsageMetric # RemainingMetric /\ UsageMetric # UsagePercentMetric /\ RemainingMetric # UsagePercentMetric
  BY DEF LimitMetric, UsageMetric, RemainingMetric, UsagePercentMetric
<1>2. /\ values[LimitMetric] = limit /\ values[UsageMetric] = used
      /\ values[RemainingMetric] = left /\ values[UsagePercentMetric] = percent
  <2>1. values = FourValues(LimitMetric, UsageMetric, RemainingMetric, UsagePercentMetric, limit, used, left, percent)
    BY DEF QuotaValues
  <2>. HIDE DEF values
  <2>. QED BY <1>1, <2>1, FourValued
<1>3. \A row \in {l, u, r, p} : row.labels = labels /\ row.value = values[row.metric]
  <2>. HIDE DEF values
  <2>. QED BY <1>2, RowFields
<1>. HIDE DEF l, u, r, p, values
<1>4. rows = <<l, u, r, p>>
  BY DEF l, u, r, p
<1>. QED
  BY <1>3, <1>4, ShortLists DEF Valued, values

\* What the Minimax collector reads agrees.
LEMMA MinimaxAgrees ==
    ASSUME QuotasListedOnce, NEW entries \in MinimaxRemains
    PROVE  Agree(MinimaxRows(entries), MinimaxRows(entries))
<1>. DEFINE Labels(e) == [model |-> e.model, resource |-> "requests", window |-> "day"]
            values(e) == FourValues(RemainingMetric, LimitMetric, RemainingPercentMetric, ResetMetric,
                                    e.remaining[1], e.total[1], MinimaxPercent(e)[1], e.reset[1])
            Remains(e) == OptionRow(RemainingMetric, Labels(e), e.remaining)
            Limits(e) == OptionRow(LimitMetric, Labels(e), e.total)
            Percents(e) == OptionRow(RemainingPercentMetric, Labels(e), MinimaxPercent(e))
            Resets(e) == OptionRow(ResetMetric, Labels(e), e.reset)
            RowsOf(e) == IF e.supported THEN Remains(e) \o Limits(e) \o Percents(e) \o Resets(e) ELSE <<>>
            seqs == [i \in DOMAIN entries |-> RowsOf(entries[i])]
<1>1. MinimaxRows(entries) = FlattenSeq(seqs)
  BY DEF MinimaxRows, ForEach
<1>2. /\ IsList(entries)
      /\ \A e, f \in Range(entries) : e.supported /\ f.supported /\ e.model = f.model => e = f
  BY ConsoleAssumption DEF QuotasListedOnce
<1>3. /\ RemainingMetric # LimitMetric /\ RemainingMetric # RemainingPercentMetric /\ RemainingMetric # ResetMetric
      /\ LimitMetric # RemainingPercentMetric /\ LimitMetric # ResetMetric /\ RemainingPercentMetric # ResetMetric
  BY DEF RemainingMetric, LimitMetric, RemainingPercentMetric, ResetMetric
<1>4. ASSUME NEW e PROVE Valued(RowsOf(e), Labels(e), values(e))
  <2>. DEFINE shown == values(e)  labels == Labels(e)
  <2>1. /\ shown[RemainingMetric] = e.remaining[1] /\ shown[LimitMetric] = e.total[1]
        /\ shown[RemainingPercentMetric] = MinimaxPercent(e)[1] /\ shown[ResetMetric] = e.reset[1]
    BY <1>3, FourValued
  <2>2. RowsOf(e) = IF e.supported THEN Remains(e) \o Limits(e) \o Percents(e) \o Resets(e) ELSE <<>>
    OBVIOUS
  <2>3. /\ Remains(e) = OptionRow(RemainingMetric, labels, e.remaining)
        /\ Limits(e) = OptionRow(LimitMetric, labels, e.total)
        /\ Percents(e) = OptionRow(RemainingPercentMetric, labels, MinimaxPercent(e))
        /\ Resets(e) = OptionRow(ResetMetric, labels, e.reset)
    OBVIOUS
  <2>. HIDE DEF shown, labels, RowsOf, Remains, Limits, Percents, Resets
  <2>4. /\ Valued(Remains(e), labels, shown) /\ Valued(Limits(e), labels, shown)
        /\ Valued(Percents(e), labels, shown) /\ Valued(Resets(e), labels, shown)
    BY <2>1, <2>3, ValuedOption
  <2>5. Valued(Remains(e) \o Limits(e), labels, shown)
    BY <2>4, ValuedJoin
  <2>6. Valued(Remains(e) \o Limits(e) \o Percents(e), labels, shown)
    BY <2>4, <2>5, ValuedJoin
  <2>7. Valued(Remains(e) \o Limits(e) \o Percents(e) \o Resets(e), labels, shown)
    BY <2>4, <2>6, ValuedJoin
  <2>8. Valued(RowsOf(e), labels, shown)
    BY <2>2, <2>7, ValuedNothing
  <2>. QED BY <2>8 DEF labels, shown
<1>5. \A e : ~e.supported => RowsOf(e) = <<>>
  OBVIOUS
<1>6. \A e, f : Labels(e) = Labels(f) => e.model = f.model
  OBVIOUS
<1>7. \A i \in DOMAIN entries : seqs[i] = RowsOf(entries[i])
  OBVIOUS
<1>8. seqs = [i \in DOMAIN entries |-> seqs[i]]
  OBVIOUS
<1>. HIDE DEF seqs, RowsOf, Labels, values
<1>9. \A i \in DOMAIN entries : IsList(seqs[i])
  BY <1>4, <1>7 DEF Valued
<1>10. ASSUME NEW i \in DOMAIN entries, NEW j \in DOMAIN entries PROVE Agree(seqs[i], seqs[j])
  <2>. DEFINE e == entries[i]  f == entries[j]
  <2>1. e \in Range(entries) /\ f \in Range(entries) /\ seqs[i] = RowsOf(e) /\ seqs[j] = RowsOf(f)
    BY <1>2, <1>7, Indices
  <2>. HIDE DEF e, f
  <2>2. CASE e.supported /\ f.supported
    <3>1. Labels(e) = Labels(f) => e = f
      BY <1>2, <1>6, <2>1, <2>2
    <3>2. Labels(e) = Labels(f) => values(e) = values(f)
      BY <3>1
    <3>3. Agree(RowsOf(e), RowsOf(f))
      BY <1>4, <3>2, ValuedAgree
    <3>. QED BY <2>1, <3>3
  <2>3. CASE ~(e.supported /\ f.supported)
    <3>1. seqs[i] = <<>> \/ seqs[j] = <<>>
      BY <1>5, <2>1, <2>3
    <3>. QED BY <3>1, EmptyList DEF Agree
  <2>. QED BY <2>2, <2>3
<1>. QED
  BY <1>1, <1>2, <1>8, <1>9, <1>10, LoopAgrees

\* So does what the Antigravity collector reads: one or two rows of a model.
LEMMA AntigravityAgrees ==
    ASSUME QuotasListedOnce, NEW models \in AntigravityModels
    PROVE  Agree(AntigravityRows(models), AntigravityRows(models))
<1>. DEFINE Labels(m) == [model |-> m.model]
            values(m) == [x \in {RemainingPercentMetric, ResetMetric} |->
                             IF x = ResetMetric THEN m.reset[1] ELSE BucketPercent(m)[1]]
            Percent(m) == OptionRow(RemainingPercentMetric, Labels(m), BucketPercent(m))
            Reset(m) == OptionRow(ResetMetric, Labels(m), m.reset)
            RowsOf(m) == IF m.supported THEN Percent(m) \o Reset(m) ELSE <<>>
            seqs == [i \in DOMAIN models |-> RowsOf(models[i])]
<1>1. AntigravityRows(models) = FlattenSeq(seqs)
  BY DEF AntigravityRows, ForEach
<1>2. /\ IsList(models)
      /\ \A m, n \in Range(models) : m.supported /\ n.supported /\ m.model = n.model => m = n
  BY CodeAssistAssumption DEF QuotasListedOnce
<1>3. ASSUME NEW m PROVE Valued(RowsOf(m), Labels(m), values(m))
  <2>. DEFINE shown == values(m)  labels == Labels(m)
  <2>1. shown[RemainingPercentMetric] = BucketPercent(m)[1] /\ shown[ResetMetric] = m.reset[1]
    BY DEF RemainingPercentMetric, ResetMetric
  <2>2. RowsOf(m) = IF m.supported THEN Percent(m) \o Reset(m) ELSE <<>>
    OBVIOUS
  <2>3. /\ Percent(m) = OptionRow(RemainingPercentMetric, labels, BucketPercent(m))
        /\ Reset(m) = OptionRow(ResetMetric, labels, m.reset)
    OBVIOUS
  <2>. HIDE DEF shown, labels, RowsOf, Percent, Reset
  <2>4. Valued(Percent(m), labels, shown) /\ Valued(Reset(m), labels, shown)
    BY <2>1, <2>3, ValuedOption
  <2>5. Valued(RowsOf(m), labels, shown)
    BY <2>2, <2>4, ValuedJoin, ValuedNothing
  <2>. QED BY <2>5 DEF labels, shown
<1>4. \A m : ~m.supported => RowsOf(m) = <<>>
  OBVIOUS
<1>5. \A m, n : Labels(m) = Labels(n) => m.model = n.model
  OBVIOUS
<1>6. \A i \in DOMAIN models : seqs[i] = RowsOf(models[i])
  OBVIOUS
<1>7. seqs = [i \in DOMAIN models |-> seqs[i]]
  OBVIOUS
<1>. HIDE DEF seqs, RowsOf, Labels, values
<1>8. \A i \in DOMAIN models : IsList(seqs[i])
  BY <1>3, <1>6 DEF Valued
<1>9. ASSUME NEW i \in DOMAIN models, NEW j \in DOMAIN models PROVE Agree(seqs[i], seqs[j])
  <2>. DEFINE m == models[i]  n == models[j]
  <2>1. m \in Range(models) /\ n \in Range(models) /\ seqs[i] = RowsOf(m) /\ seqs[j] = RowsOf(n)
    BY <1>2, <1>6, Indices
  <2>. HIDE DEF m, n
  <2>2. CASE m.supported /\ n.supported
    <3>1. Labels(m) = Labels(n) => m = n
      BY <1>2, <1>5, <2>1, <2>2
    <3>2. Labels(m) = Labels(n) => values(m) = values(n)
      BY <3>1
    <3>3. Agree(RowsOf(m), RowsOf(n))
      BY <1>3, <3>2, ValuedAgree
    <3>. QED BY <2>1, <3>3
  <2>3. CASE ~(m.supported /\ n.supported)
    <3>1. seqs[i] = <<>> \/ seqs[j] = <<>>
      BY <1>4, <2>1, <2>3
    <3>. QED BY <3>1, EmptyList DEF Agree
  <2>. QED BY <2>2, <2>3
<1>. QED
  BY <1>1, <1>2, <1>7, <1>8, <1>9, LoopAgrees

\* What the InternLM collector reads agrees: input and output are of different
\* types.
LEMMA InternlmAgrees ==
    ASSUME NEW s
    PROVE  Agree(InternlmRows(s), InternlmRows(s))
<1>. DEFINE Labels(type) == [window |-> "day", resource |-> "tokens", type |-> type]
            values(type) == QuotaValues(s.quota[type], s.used[type], NonNegative(s.quota[type] - s.used[type]),
                                        (100 * s.used[type]) \div s.quota[type])
            Quota(type) == <<Row(LimitMetric, Labels(type), s.quota[type]), Row(UsageMetric, Labels(type), s.used[type]),
                             Row(RemainingMetric, Labels(type), NonNegative(s.quota[type] - s.used[type])),
                             Row(UsagePercentMetric, Labels(type), (100 * s.used[type]) \div s.quota[type])>>
            RowsOf(type) == IF s.quota[type] <= 0 THEN <<>> ELSE Quota(type)
<1>1. ASSUME NEW type PROVE Valued(RowsOf(type), Labels(type), values(type))
  <2>1. Valued(Quota(type), Labels(type), values(type))
    <3>. DEFINE limit == s.quota[type]  used == s.used[type]  left == NonNegative(limit - used)
                percent == (100 * used) \div limit  labels == Labels(type)  rows == Quota(type)
    <3>1. rows = <<Row(LimitMetric, labels, limit), Row(UsageMetric, labels, used),
                   Row(RemainingMetric, labels, left), Row(UsagePercentMetric, labels, percent)>>
      OBVIOUS
    <3>2. values(type) = QuotaValues(limit, used, left, percent)
      OBVIOUS
    <3>. HIDE DEF limit, used, left, percent, labels, rows, values
    <3>3. Valued(rows, labels, QuotaValues(limit, used, left, percent))
      BY <3>1, QuotaValued
    <3>. QED BY <3>2, <3>3 DEF labels, rows
  <2>2. RowsOf(type) = IF s.quota[type] <= 0 THEN <<>> ELSE Quota(type)
    OBVIOUS
  <2>. HIDE DEF RowsOf, Quota, Labels, values
  <2>. QED BY <2>1, <2>2, ValuedNothing
<1>2. InternlmRows(s) = RowsOf("input") \o RowsOf("output")
  BY DEF InternlmRows
<1>3. Labels("input") # Labels("output")
  <2>1. Labels("input").type = "input" /\ Labels("output").type = "output"
    OBVIOUS
  <2>. HIDE DEF Labels
  <2>. QED BY <2>1
<1>. DEFINE in == RowsOf("input")  out == RowsOf("output")
<1>4. Valued(in, Labels("input"), values("input")) /\ Valued(out, Labels("output"), values("output"))
  BY <1>1
<1>. HIDE DEF in, out, Labels, values
<1>5. Agree(in, in) /\ Agree(out, out) /\ Agree(in, out)
  BY <1>3, <1>4, ValuedAgree
<1>6. IsList(in) /\ IsList(out)
  BY <1>4 DEF Valued
<1>7. Agree(in \o out, in \o out)
  BY <1>5, <1>6, JoinAgrees
<1>. QED
  BY <1>2, <1>7 DEF in, out

\* What the Codex collector reads agrees, whatever its windows: their labels
\* differ.
LEMMA CodexAgrees ==
    ASSUME NEW plan, NEW reached, NEW primary, NEW secondary
    PROVE  LET rows == CodexRows(plan, reached, primary, secondary)
           IN  Agree(rows, rows)
<1>. DEFINE Labels(name) == [window |-> name]
            values(window) == FourValues(UsagePercentMetric, ResetMetric, "window.duration", "limit.reached",
                                         window.used, NonNegative(window.reset), NonNegative(window.seconds) \div 60, 0)
            marks == [x \in {"limit.reached", "plan.type"} |->
                         IF x = "plan.type" THEN plan ELSE IF reached THEN 1 ELSE 0]
            RowsOfWindow(name, window) ==
                <<Row(UsagePercentMetric, Labels(name), window.used),
                  Row(ResetMetric, Labels(name), NonNegative(window.reset)),
                  Row("window.duration", Labels(name), NonNegative(window.seconds) \div 60)>>
            limit == Row("limit.reached", Labels("any"), IF reached THEN 1 ELSE 0)
            type == Row("plan.type", Labels("any"), plan)
            any == <<limit, type>>
            first == RowsOfWindow("primary", primary)
            second == RowsOfWindow("secondary", secondary)
<1>1. ASSUME NEW name, NEW window PROVE Valued(RowsOfWindow(name, window), Labels(name), values(window))
  <2>. DEFINE shown == values(window)  labels == Labels(name)
              u == Row(UsagePercentMetric, labels, window.used)
              r == Row(ResetMetric, labels, NonNegative(window.reset))
              d == Row("window.duration", labels, NonNegative(window.seconds) \div 60)
  <2>1. /\ UsagePercentMetric # ResetMetric /\ UsagePercentMetric # "window.duration" /\ UsagePercentMetric # "limit.reached"
        /\ ResetMetric # "window.duration" /\ ResetMetric # "limit.reached" /\ "window.duration" # "limit.reached"
    BY DEF UsagePercentMetric, ResetMetric
  <2>2. /\ shown[UsagePercentMetric] = window.used /\ shown[ResetMetric] = NonNegative(window.reset)
        /\ shown["window.duration"] = NonNegative(window.seconds) \div 60
    BY <2>1, FourValued
  <2>. HIDE DEF shown
  <2>3. \A row \in {u, r, d} : row.labels = labels /\ row.value = shown[row.metric]
    BY <2>2, RowFields
  <2>4. RowsOfWindow(name, window) = <<u, r, d>>
    OBVIOUS
  <2>. HIDE DEF u, r, d, labels, RowsOfWindow
  <2>5. Valued(RowsOfWindow(name, window), labels, shown)
    BY <2>3, <2>4, ShortLists DEF Valued
  <2>. QED BY <2>5 DEF labels, shown
<1>2. Valued(any, Labels("any"), marks)
  <2>. DEFINE labels == Labels("any")
  <2>1. limit.metric = "limit.reached" /\ type.metric = "plan.type" /\ limit.labels = labels /\ type.labels = labels
    BY RowFields
  <2>2. limit.value = marks["limit.reached"] /\ type.value = marks["plan.type"]
    BY RowFields
  <2>. HIDE DEF limit, type, marks, labels
  <2>3. Valued(<<limit, type>>, labels, marks)
    BY <2>1, <2>2, ShortLists DEF Valued
  <2>. QED BY <2>3 DEF labels
<1>3. Labels("any") # Labels("primary") /\ Labels("any") # Labels("secondary") /\ Labels("primary") # Labels("secondary")
  <2>1. \A name : Labels(name).window = name
    OBVIOUS
  <2>. HIDE DEF Labels
  <2>. QED BY <2>1
<1>4. CodexRows(plan, reached, primary, secondary) = any \o first \o second
  BY DEF CodexRows
<1>5. Valued(first, Labels("primary"), values(primary)) /\ Valued(second, Labels("secondary"), values(secondary))
  BY <1>1
<1>. HIDE DEF any, first, second, Labels, values, marks
<1>6. IsList(any) /\ IsList(first) /\ IsList(second)
  BY <1>2, <1>5 DEF Valued
<1>7. /\ Agree(any, any) /\ Agree(first, first) /\ Agree(second, second)
      /\ Agree(any, first) /\ Agree(any, second) /\ Agree(first, second)
  BY <1>2, <1>3, <1>5, ValuedAgree
<1>8. Agree(any \o first, any \o first)
  BY <1>6, <1>7, JoinAgrees
<1>9. IsList(any \o first) /\ Range(any \o first) = Range(any) \cup Range(first)
  BY <1>6, ListsJoin
<1>10. Agree(any \o first, second)
  BY <1>7, <1>9 DEF Agree
<1>11. Agree(any \o first \o second, any \o first \o second)
  BY <1>6, <1>7, <1>8, <1>9, <1>10, JoinAgrees
<1>. QED
  BY <1>4, <1>11

\* What the Gemini collector reads agrees: a group has its own labels, whatever
\* the buckets.
LEMMA GeminiAgrees ==
    ASSUME NEW buckets
    PROVE  Agree(GeminiRows(buckets), GeminiRows(buckets))
<1>. DEFINE amount(group) == ValueOr(GroupSummary(buckets, group).amount, 0)
            percent(group) == ValueOr(GroupSummary(buckets, group).percent, 0)
            reset(group) == ValueOr(GroupSummary(buckets, group).reset, 0)
            Labels(group) == [group |-> group]
            values(group) == FourValues(RemainingMetric, RemainingPercentMetric, ResetMetric, LimitMetric,
                                        amount(group), percent(group), reset(group), 0)
            RowsOf(group) == <<Row(RemainingMetric, Labels(group), amount(group)),
                               Row(RemainingPercentMetric, Labels(group), percent(group)),
                               Row(ResetMetric, Labels(group), reset(group))>>
            seqs == [i \in DOMAIN GeminiGroups |-> RowsOf(GeminiGroups[i])]
<1>1. GeminiRows(buckets) = FlattenSeq(seqs)
  BY DEF GeminiRows, ForEach
<1>. HIDE DEF amount, percent, reset
<1>2. ASSUME NEW group PROVE Valued(RowsOf(group), Labels(group), values(group))
  <2>. DEFINE shown == values(group)  labels == Labels(group)
              a == Row(RemainingMetric, labels, amount(group))
              p == Row(RemainingPercentMetric, labels, percent(group))
              r == Row(ResetMetric, labels, reset(group))
  <2>1. /\ RemainingMetric # RemainingPercentMetric /\ RemainingMetric # ResetMetric /\ RemainingMetric # LimitMetric
        /\ RemainingPercentMetric # ResetMetric /\ RemainingPercentMetric # LimitMetric /\ ResetMetric # LimitMetric
    BY DEF RemainingMetric, RemainingPercentMetric, ResetMetric, LimitMetric
  <2>2. /\ shown[RemainingMetric] = amount(group) /\ shown[RemainingPercentMetric] = percent(group)
        /\ shown[ResetMetric] = reset(group)
    BY <2>1, FourValued
  <2>. HIDE DEF shown
  <2>3. \A row \in {a, p, r} : row.labels = labels /\ row.value = shown[row.metric]
    BY <2>2, RowFields
  <2>4. RowsOf(group) = <<a, p, r>>
    OBVIOUS
  <2>. HIDE DEF a, p, r, labels, RowsOf
  <2>5. Valued(RowsOf(group), labels, shown)
    BY <2>3, <2>4, ShortLists DEF Valued
  <2>. QED BY <2>5 DEF labels, shown
<1>3. \A i \in DOMAIN GeminiGroups : seqs[i] = RowsOf(GeminiGroups[i])
  OBVIOUS
<1>4. IsList(GeminiGroups) /\ seqs = [i \in DOMAIN GeminiGroups |-> seqs[i]]
  BY ShortLists DEF GeminiGroups
<1>5. \A group, other : Labels(group) = Labels(other) => group = other
  OBVIOUS
<1>. HIDE DEF seqs, RowsOf, Labels, values
<1>6. \A i \in DOMAIN GeminiGroups : IsList(seqs[i])
  BY <1>2, <1>3 DEF Valued
<1>7. ASSUME NEW i \in DOMAIN GeminiGroups, NEW j \in DOMAIN GeminiGroups PROVE Agree(seqs[i], seqs[j])
  <2>. DEFINE group == GeminiGroups[i]  other == GeminiGroups[j]
  <2>1. seqs[i] = RowsOf(group) /\ seqs[j] = RowsOf(other)
    BY <1>3
  <2>. HIDE DEF group, other
  <2>2. Labels(group) = Labels(other) => values(group) = values(other)
    BY <1>5
  <2>3. Agree(RowsOf(group), RowsOf(other))
    BY <1>2, <2>2, ValuedAgree
  <2>. QED BY <2>1, <2>3
<1>. QED
  BY <1>1, <1>4, <1>6, <1>7, LoopAgrees

\* The rows of an organization, and of no other.
Within(org, rows) == \A r \in Range(rows) : r.labels.org = org.id

\* What the Cerebras collector reads of an organization agrees, and carries the
\* organization's id.
LEMMA OrganizationAgrees ==
    ASSUME QuotasListedOnce, NEW org, NEW quotas, quotas \in CerebrasLimits \/ quotas = <<>>,
           NEW usages
    PROVE  LET rows == OrganizationRows(org, quotas, usages)
           IN  Agree(rows, rows) /\ Within(org, rows)
<1>. DEFINE Labels(q, window) == [model |-> q.model, window |-> window[1], resource |-> window[2],
                                  org |-> org.id, region |-> q.region]
            limit(q, window) == At(q.limits, window)
            used(q, window) == At(UsageOf(q, usages), window)
            values(q, window) == QuotaValues(limit(q, window), used(q, window),
                                             NonNegative(limit(q, window) - used(q, window)),
                                             (100 * used(q, window)) \div limit(q, window))
            RowsOf(q, window) == IF At(q.limits, window) > 0 THEN WindowRows(org, q, usages, window) ELSE <<>>
            windows(q) == [i \in DOMAIN QuotaWindows |-> RowsOf(q, QuotaWindows[i])]
            rowsOf(q) == FlattenSeq(windows(q))
            seqs == [i \in DOMAIN quotas |-> rowsOf(quotas[i])]
<1>1. OrganizationRows(org, quotas, usages) = FlattenSeq(seqs)
  BY DEF OrganizationRows, ForEach
<1>2. IsList(quotas) /\ \A q, r \in Range(quotas) : q.model = r.model /\ q.region = r.region => q = r
  BY CerebrasAssumption, EmptyList DEF QuotasListedOnce
<1>3. ASSUME NEW q, NEW window PROVE Valued(RowsOf(q, window), Labels(q, window), values(q, window))
  <2>. DEFINE most == limit(q, window)  spent == used(q, window)  labels == Labels(q, window)
              left == NonNegative(most - spent)  percent == (100 * spent) \div most
              rows == WindowRows(org, q, usages, window)
  <2>1. rows = <<Row(LimitMetric, labels, most), Row(UsageMetric, labels, spent),
                 Row(RemainingMetric, labels, left), Row(UsagePercentMetric, labels, percent)>>
    BY DEF WindowRows
  <2>2. RowsOf(q, window) = IF most > 0 THEN rows ELSE <<>>
    OBVIOUS
  <2>3. values(q, window) = QuotaValues(most, spent, left, percent)
    OBVIOUS
  <2>. HIDE DEF most, spent, labels, left, percent, rows, values, RowsOf
  <2>4. Valued(rows, labels, QuotaValues(most, spent, left, percent))
    BY <2>1, QuotaValued
  <2>5. Valued(RowsOf(q, window), labels, values(q, window))
    BY <2>2, <2>3, <2>4, ValuedNothing
  <2>. QED BY <2>5 DEF labels
<1>4. \A q, window : /\ Labels(q, window).model = q.model /\ Labels(q, window).region = q.region
                     /\ Labels(q, window).window = window[1] /\ Labels(q, window).resource = window[2]
                     /\ Labels(q, window).org = org.id
  OBVIOUS
<1>5. IsList(QuotaWindows)
  <2>1. QuotaWindows \in Seq({QuotaWindows[i] : i \in 1 .. 6})
    BY DEF QuotaWindows
  <2>. QED BY <2>1, ListOf
<1>6. \A i \in DOMAIN QuotaWindows : QuotaWindows[i] = <<QuotaWindows[i][1], QuotaWindows[i][2]>>
  BY DEF QuotaWindows
<1>. HIDE DEF RowsOf, Labels, values
<1>7. ASSUME NEW q
      PROVE  /\ IsList(rowsOf(q)) /\ Agree(rowsOf(q), rowsOf(q))
             /\ \A r \in Range(rowsOf(q)) : r.labels.model = q.model /\ r.labels.region = q.region /\ r.labels.org = org.id
  <2>. DEFINE turns == windows(q)
  <2>1. turns = [i \in DOMAIN QuotaWindows |-> turns[i]] /\ rowsOf(q) = FlattenSeq(turns)
    OBVIOUS
  <2>2. \A i \in DOMAIN QuotaWindows : turns[i] = RowsOf(q, QuotaWindows[i])
    OBVIOUS
  <2>. HIDE DEF turns, rowsOf
  <2>3. \A i \in DOMAIN QuotaWindows : Valued(turns[i], Labels(q, QuotaWindows[i]), values(q, QuotaWindows[i]))
    BY <1>3, <2>2
  <2>4. \A i \in DOMAIN QuotaWindows : IsList(turns[i])
    BY <2>3 DEF Valued
  <2>5. ASSUME NEW i \in DOMAIN QuotaWindows, NEW j \in DOMAIN QuotaWindows PROVE Agree(turns[i], turns[j])
    <3>. DEFINE window == QuotaWindows[i]  other == QuotaWindows[j]
    <3>1. /\ Valued(turns[i], Labels(q, window), values(q, window))
          /\ Valued(turns[j], Labels(q, other), values(q, other))
          /\ window = <<window[1], window[2]>> /\ other = <<other[1], other[2]>>
      BY <1>6, <2>3
    <3>. HIDE DEF window, other
    <3>2. Labels(q, window) = Labels(q, other) => window[1] = other[1] /\ window[2] = other[2]
      BY <1>4
    <3>3. Labels(q, window) = Labels(q, other) => values(q, window) = values(q, other)
      BY <3>1, <3>2
    <3>. QED BY <3>1, <3>3, ValuedAgree
  <2>6. Agree(rowsOf(q), rowsOf(q))
    BY <1>5, <2>1, <2>4, <2>5, LoopAgrees
  <2>7. /\ IsList(rowsOf(q))
        /\ \A x \in Range(rowsOf(q)) : \E i \in DOMAIN QuotaWindows : x \in Range(turns[i])
    BY <1>5, <2>1, <2>4, LoopAppends
  <2>8. \A r \in Range(rowsOf(q)) : r.labels.model = q.model /\ r.labels.region = q.region /\ r.labels.org = org.id
    BY <1>4, <2>3, <2>7 DEF Valued
  <2>. QED BY <2>6, <2>7, <2>8
<1>8. \A i \in DOMAIN quotas : seqs[i] = rowsOf(quotas[i])
  OBVIOUS
<1>9. seqs = [i \in DOMAIN quotas |-> seqs[i]]
  OBVIOUS
<1>. HIDE DEF seqs, rowsOf
<1>10. \A i \in DOMAIN quotas : IsList(seqs[i])
  BY <1>7, <1>8
<1>11. ASSUME NEW i \in DOMAIN quotas, NEW j \in DOMAIN quotas PROVE Agree(seqs[i], seqs[j])
  <2>. DEFINE q == quotas[i]  r == quotas[j]
  <2>1. q \in Range(quotas) /\ r \in Range(quotas) /\ seqs[i] = rowsOf(q) /\ seqs[j] = rowsOf(r)
    BY <1>2, <1>8, Indices
  <2>. HIDE DEF q, r
  <2>2. CASE q = r
    BY <1>7, <2>1, <2>2
  <2>3. CASE q # r
    <3>1. q.model # r.model \/ q.region # r.region
      BY <1>2, <2>1, <2>3
    <3>2. \A left \in Range(rowsOf(q)), right \in Range(rowsOf(r)) : left.labels # right.labels
      BY <1>7, <3>1
    <3>. QED BY <2>1, <3>2 DEF Agree
  <2>. QED BY <2>2, <2>3
<1>12. Agree(FlattenSeq(seqs), FlattenSeq(seqs))
  BY <1>2, <1>9, <1>10, <1>11, LoopAgrees
<1>13. Within(org, FlattenSeq(seqs))
  <2>1. \A x \in Range(FlattenSeq(seqs)) : \E i \in DOMAIN quotas : x \in Range(seqs[i])
    BY <1>2, <1>9, <1>10, LoopAppends
  <2>. QED BY <1>7, <1>8, <2>1 DEF Within
<1>. QED
  BY <1>1, <1>12, <1>13

\* So do the rows of AI Studio if its limits do, whatever series it has fetched.
LEMMA StudioAgrees ==
    ASSUME NEW limits, IsList(limits), LimitsAgree(limits), NEW fetched
    PROVE  Agree(StudioRows(limits, fetched), StudioRows(limits, fetched))
<1>. DEFINE Labels(l) == [model |-> l.model, category |-> l.category, preview |-> l.preview, quota |-> l.quota]
            resetOf(quota) == CASE quota[2] = "minute" -> <<60>> [] quota[2] = "day" -> <<86400>> [] OTHER -> <<>>
            leftOf(model, quota, value) ==
                IF quota \notin DOMAIN fetched THEN <<>>
                ELSE <<NonNegative(value - UsedOf(fetched[quota], model))>>
            values(model, quota, value) ==
                FourValues(LimitMetric, RemainingMetric, ResetMetric, UsageMetric,
                           value, leftOf(model, quota, value)[1], resetOf(quota)[1], 0)
            Limit(l) == Row(LimitMetric, Labels(l), l.value)
            Left(l) == OptionRow(RemainingMetric, Labels(l), Remaining(l, fetched))
            Reset(l) == OptionRow(ResetMetric, Labels(l), resetOf(l.quota))
            RowsOf(l) == <<Limit(l)>> \o Left(l) \o Reset(l)
            seqs == [i \in DOMAIN limits |-> RowsOf(limits[i])]
<1>1. StudioRows(limits, fetched) = FlattenSeq(seqs)
  BY DEF StudioRows, ForEach
<1>2. \A l : Remaining(l, fetched) = leftOf(l.model, l.quota, l.value)
  BY DEF Remaining
<1>. HIDE DEF leftOf, resetOf
<1>3. ASSUME NEW l PROVE Valued(RowsOf(l), Labels(l), values(l.model, l.quota, l.value))
  <2>. DEFINE shown == values(l.model, l.quota, l.value)  labels == Labels(l)
  <2>1. /\ LimitMetric # RemainingMetric /\ LimitMetric # ResetMetric /\ LimitMetric # UsageMetric
        /\ RemainingMetric # ResetMetric /\ RemainingMetric # UsageMetric /\ ResetMetric # UsageMetric
    BY DEF LimitMetric, RemainingMetric, ResetMetric, UsageMetric
  <2>2. /\ shown[LimitMetric] = l.value /\ shown[RemainingMetric] = Remaining(l, fetched)[1]
        /\ shown[ResetMetric] = resetOf(l.quota)[1]
    BY <1>2, <2>1, FourValued
  <2>3. /\ Left(l) = OptionRow(RemainingMetric, labels, Remaining(l, fetched))
        /\ Reset(l) = OptionRow(ResetMetric, labels, resetOf(l.quota))
        /\ Limit(l).metric = LimitMetric /\ Limit(l).labels = labels /\ Limit(l).value = l.value
    BY RowFields
  <2>4. RowsOf(l) = <<Limit(l)>> \o Left(l) \o Reset(l)
    OBVIOUS
  <2>. HIDE DEF shown, labels, RowsOf, Limit, Left, Reset
  <2>5. Valued(<<Limit(l)>>, labels, shown)
    BY <2>2, <2>3, ShortLists DEF Valued
  <2>6. Valued(Left(l), labels, shown) /\ Valued(Reset(l), labels, shown)
    BY <2>2, <2>3, ValuedOption
  <2>7. Valued(<<Limit(l)>> \o Left(l), labels, shown)
    BY <2>5, <2>6, ValuedJoin
  <2>8. Valued(RowsOf(l), labels, shown)
    BY <2>4, <2>6, <2>7, ValuedJoin
  <2>. QED BY <2>8 DEF labels, shown
<1>4. \A l, k : Labels(l) = Labels(k) => l.model = k.model /\ l.quota = k.quota
  OBVIOUS
<1>5. \A i \in DOMAIN limits : seqs[i] = RowsOf(limits[i])
  OBVIOUS
<1>6. seqs = [i \in DOMAIN limits |-> seqs[i]]
  OBVIOUS
<1>. HIDE DEF seqs, RowsOf, Labels, values
<1>7. \A i \in DOMAIN limits : IsList(seqs[i])
  BY <1>3, <1>5 DEF Valued
<1>8. ASSUME NEW i \in DOMAIN limits, NEW j \in DOMAIN limits PROVE Agree(seqs[i], seqs[j])
  <2>. DEFINE l == limits[i]  k == limits[j]
  <2>1. l \in Range(limits) /\ k \in Range(limits) /\ seqs[i] = RowsOf(l) /\ seqs[j] = RowsOf(k)
    BY <1>5, Indices
  <2>. HIDE DEF l, k
  <2>2. Labels(l) = Labels(k) => l.model = k.model /\ l.quota = k.quota /\ l.value = k.value
    BY <1>4, <2>1 DEF LimitsAgree
  <2>3. Labels(l) = Labels(k) => values(l.model, l.quota, l.value) = values(k.model, k.quota, k.value)
    BY <2>2
  <2>4. Agree(RowsOf(l), RowsOf(k))
    BY <1>3, <2>3, ValuedAgree
  <2>. QED BY <2>1, <2>4
<1>. QED
  BY <1>1, <1>6, <1>7, <1>8, LoopAgrees

\* The organizations with an id, in order, are a list.
LEMMA InOrderIsList ==
    ASSUME NEW organizations \in CerebrasOrganizations
    PROVE  IsList(InOrder(organizations))
<1>1. ASSUME NEW list, IsList(list), NEW seqs, seqs = [i \in DOMAIN list |-> seqs[i]],
             \A i \in DOMAIN list : seqs[i] \in {<<list[i]>>, <<>>}
      PROVE  IsList(FlattenSeq(seqs))
  BY <1>1, SelectedMembers
<1>. DEFINE ids == [i \in DOMAIN organizations |-> IF organizations[i].id # "" THEN <<organizations[i]>> ELSE <<>>]
            named == FlattenSeq(ids)
            active == [i \in DOMAIN named |-> IF named[i].active THEN <<named[i]>> ELSE <<>>]
            others == [i \in DOMAIN named |-> IF ~named[i].active THEN <<named[i]>> ELSE <<>>]
<1>2. InOrder(organizations) = FlattenSeq(active) \o FlattenSeq(others)
  BY DEF InOrder, Selected, ForEach
<1>3. IsList(named)
  <2>1. \A i \in DOMAIN organizations : ids[i] \in {<<organizations[i]>>, <<>>}
    OBVIOUS
  <2>2. ids = [i \in DOMAIN organizations |-> ids[i]]
    OBVIOUS
  <2>. HIDE DEF ids
  <2>. QED BY <1>1, <2>1, <2>2, CerebrasAssumption
<1>. HIDE DEF named
<1>4. IsList(FlattenSeq(active)) /\ IsList(FlattenSeq(others))
  <2>1. \A i \in DOMAIN named : active[i] \in {<<named[i]>>, <<>>} /\ others[i] \in {<<named[i]>>, <<>>}
    OBVIOUS
  <2>2. active = [i \in DOMAIN named |-> active[i]] /\ others = [i \in DOMAIN named |-> others[i]]
    OBVIOUS
  <2>. HIDE DEF active, others
  <2>. QED BY <1>1, <1>3, <2>1, <2>2
<1>. HIDE DEF active, others
<1>. QED
  BY <1>2, <1>4, ListsJoin

\* The organizations still to be read, listed once, and rows that agree and are
\* of others.
InTurn(orgs, rows) ==
    /\ IsList(orgs) /\ \A i, j \in DOMAIN orgs : orgs[i].id = orgs[j].id => i = j
    /\ Agree(rows, rows)
    /\ \A r \in Range(rows), i \in DOMAIN orgs : r.labels.org # orgs[i].id

\* The first of them may be skipped, or its rows appended.
LEMMA NextInTurn ==
    ASSUME NEW orgs, orgs # <<>>, NEW rows, IsList(rows), InTurn(orgs, rows)
    PROVE  /\ InTurn(Tail(orgs), rows)
           /\ \A more : IsList(more) /\ Agree(more, more) /\ Within(Head(orgs), more)
                 => InTurn(Tail(orgs), rows \o more)
<1>. DEFINE left == Tail(orgs)
<1>1. Len(orgs) \in Nat \ {0} /\ DOMAIN orgs = 1 .. Len(orgs) /\ orgs \in Seq(Range(orgs)) /\ 1 \in DOMAIN orgs
  <2>1. orgs \in Seq(Range(orgs)) /\ Len(orgs) \in Nat /\ DOMAIN orgs = 1 .. Len(orgs)
    BY Indices DEF InTurn, IsList
  <2>. DEFINE S == Range(orgs)
  <2>. HIDE DEF S
  <2>2. Len(orgs) # 0
    <3>1. orgs \in Seq(S)
      BY <2>1 DEF S
    <3>. QED BY <3>1
  <2>. QED BY <2>1, <2>2
<1>2. left \in Seq(Range(orgs)) /\ DOMAIN left = 1 .. Len(orgs) - 1 /\ \A i \in DOMAIN left : left[i] = orgs[i + 1]
  <2>. DEFINE S == Range(orgs)
  <2>1. orgs \in Seq(S)
    BY <1>1
  <2>. HIDE DEF S
  <2>2. left \in Seq(S) /\ Len(left) = Len(orgs) - 1 /\ \A i \in 1 .. Len(left) : left[i] = orgs[i + 1]
    BY <1>1, <2>1
  <2>. QED BY <1>1, <2>2 DEF S
<1>3. Head(orgs) = orgs[1]
  OBVIOUS
<1>. HIDE DEF left
<1>4. IsList(left)
  BY <1>2, ListOf
<1>5. \A i \in DOMAIN left : i + 1 \in DOMAIN orgs /\ i + 1 # 1
  BY <1>1, <1>2
<1>6. \A i, j \in DOMAIN left : left[i].id = left[j].id => i = j
  <2>. SUFFICES ASSUME NEW i \in DOMAIN left, NEW j \in DOMAIN left, left[i].id = left[j].id PROVE i = j
    OBVIOUS
  <2>1. orgs[i + 1].id = orgs[j + 1].id
    BY <1>2
  <2>2. i + 1 = j + 1
    BY <1>5, <2>1 DEF InTurn
  <2>. QED BY <1>1, <1>2, <2>2
<1>7. Agree(rows, rows) /\ \A r \in Range(rows), i \in DOMAIN left : r.labels.org # left[i].id
  BY <1>2, <1>5 DEF InTurn
<1>8. InTurn(left, rows)
  BY <1>4, <1>6, <1>7 DEF InTurn
<1>9. ASSUME NEW more, IsList(more), Agree(more, more), Within(orgs[1], more)
      PROVE  InTurn(left, rows \o more)
  <2>1. \A r \in Range(rows) : r.labels.org # orgs[1].id
    BY <1>1 DEF InTurn
  <2>2. Agree(rows, more)
    BY <1>9, <2>1 DEF Agree, Within
  <2>3. Agree(rows \o more, rows \o more)
    BY <1>7, <1>9, <2>2, JoinAgrees
  <2>4. Range(rows \o more) = Range(rows) \cup Range(more)
    BY <1>9, ListsJoin
  <2>5. \A r \in Range(more), i \in DOMAIN left : r.labels.org # left[i].id
    <3>. TAKE r \in Range(more), i \in DOMAIN left
    <3>1. r.labels.org = orgs[1].id
      BY <1>9 DEF Within
    <3>2. orgs[1].id # orgs[i + 1].id
      BY <1>1, <1>5 DEF InTurn
    <3>. QED BY <1>2, <3>1, <3>2
  <2>6. \A r \in Range(rows \o more), i \in DOMAIN left : r.labels.org # left[i].id
    BY <1>7, <2>4, <2>5
  <2>. QED BY <1>4, <1>6, <2>3, <2>6 DEF InTurn
<1>. QED
  BY <1>3, <1>8, <1>9 DEF left

--------------------------------------------------------------------------------
(* What a collector has gathered between its exchanges.                          *)

\* The schemas that read one row for each entry of a list of the vendor's.
Listing == {"cerebras-quotas", "google-aistudio-quotas", "antigravity", "minimax-remains"}

\* Whether a gauge has one value in the rows, where it should.
Agreeing(id, rows) == (id \in Listing => QuotasListedOnce) /\ id \notin Repeating => Agree(rows, rows)

\* A reading of a collector: rows of numbers that add up and do not compete.
IsReading(id, rows) ==
    /\ Numbers(rows)
    /\ Agreeing(id, rows)
    /\ id # "minimax-remains" => WithinLimits(id, rows)
    /\ id = "mistral-billing" => TotalOfModels(rows)

\* What a collector has gathered on its way to a reading.
Gathered(id, c) ==
    /\ c.at = "collected" => IsReading(id, c.rows)
    /\ id = "mistral-billing" /\ c.at \in {"limits headers", "limits"} =>
          Numbers(c.rows) /\ Bounded(c.rows) /\ TotalOfModels(c.rows)
    /\ id = "cerebras-quotas" /\ c.at \in {"quotas", "usage"} => Numbers(c.rows) /\ Bounded(c.rows)
    /\ id = "cerebras-quotas" /\ c.at \in {"quotas", "usage"} /\ QuotasListedOnce =>
          c.orgs # <<>> /\ InTurn(c.orgs, c.rows)
    /\ id = "cerebras-quotas" /\ c.at = "usage" => c.quotas \in CerebrasLimits \/ c.quotas = <<>>
    /\ id = "google-aistudio-quotas" /\ c.at = "models" => c.entries \in StudioLimits
    /\ id = "google-aistudio-quotas" /\ c.at = "series" => LimitsTyped(c.limits) /\ FetchedTyped(c.fetched)
    /\ id = "google-aistudio-quotas" /\ c.at = "series" /\ QuotasListedOnce => LimitsAgree(c.limits)

\* Every probe has a reading of its schema, and a collector at work has
\* gathered one so far.
ReadingsSound ==
    \A t \in Tasks : /\ IsReading(schema, probe[t].read)
                     /\ probe[t].step = "collect" => Gathered(schema, probe[t].c)

\* Bounded rows are within the limits.
LEMMA BoundedIsWithin ==
    ASSUME NEW id, NEW rows, Bounded(rows)
    PROVE  WithinLimits(id, rows)
  BY DEF Bounded, WithinLimits

\* Covered rows are within those of AI Studio.
LEMMA CoveredIsWithin ==
    ASSUME NEW rows, Covered(rows)
    PROVE  WithinLimits("google-aistudio-quotas", rows)
  BY DEF Covered, WithinLimits

\* So are rows without a limit.
LEMMA WithoutLimits ==
    ASSUME NEW id, NEW rows, \A r \in Range(rows) : r.metric # LimitMetric
    PROVE  WithinLimits(id, rows)
  BY DEF WithinLimits

\* No costs add up.
LEMMA NoCostsAddUp == TotalOfModels(<<>>)
<1>1. CostsOf(<<>>, "total") = <<>>
  BY EmptyList, NoCosts
<1>2. Len(<<>>) <= 1
  OBVIOUS
<1>. QED
  BY <1>1, <1>2, CostsOfTotal

\* No rows are a reading of any schema.
LEMMA NothingRead == \A id : IsReading(id, <<>>)
<1>1. \A id : Agreeing(id, <<>>)
  BY NoRowsAgree DEF Agreeing
<1>. QED
  BY <1>1, NoRows, BoundedIsWithin, NoCostsAddUp DEF IsReading

\* A collector that gives up has gathered nothing, one that is done its
\* reading.
LEMMA GatheredAtEnd ==
    /\ \A id : Gathered(id, Refused) /\ Gathered(id, Failed)
    /\ \A id, rows : IsReading(id, rows) => Gathered(id, Collected(rows))
<1>1. /\ Refused.at = "refused" /\ Failed.at = "failed"
      /\ \A rows : Collected(rows).at = "collected" /\ Collected(rows).rows = rows
  BY DEF Refused, Failed, Collected
<1>. QED
  BY <1>1 DEF Gathered

\* A reply that is ok has a body.
LEMMA BodyOf ==
    ASSUME NEW B, NEW S, "ok" \notin S, NEW reply \in OKReplies(B) \cup ErrorReplies(S), reply.status = "ok"
    PROVE  reply.body \in B
  BY DEF OKReplies, ErrorReplies

\* No reply of Mistral takes the collector off its way: billing rows first,
\* then the limits after them.
LEMMA MistralGathers ==
    ASSUME NEW c, CollectorInOrder("mistral-billing", c), Gathered("mistral-billing", c),
           NEW reply \in MistralReplies(c)
    PROVE  Gathered("mistral-billing", MistralNext(c, reply))
<1>1. c.at \in {"usage headers", "usage", "limits headers", "limits"}
  BY DEF CollectorInOrder, Exchanges
<1>2. ASSUME NEW next, Gathered("mistral-billing", next), reply \in HeaderReplies
      PROVE  Gathered("mistral-billing", AfterHeaders(reply, next))
  BY <1>2, GatheredAtEnd DEF AfterHeaders, HeaderReplies, ErrorReplies
<1>3. ConsoleError(reply) \in {Refused, Failed}
  BY DEF ConsoleError, HTTPError
<1>4. CASE c.at = "usage headers"
  <2>. DEFINE next == [at |-> "usage"]
  <2>1. Gathered("mistral-billing", next)
    BY DEF Gathered
  <2>2. reply \in HeaderReplies /\ MistralNext(c, reply) = AfterHeaders(reply, next)
    BY <1>4 DEF MistralReplies, MistralNext
  <2>. HIDE DEF next
  <2>. QED BY <1>2, <2>1, <2>2
<1>5. CASE c.at = "limits headers"
  <2>. DEFINE next == [at |-> "limits", rows |-> c.rows]
  <2>1. Gathered("mistral-billing", next)
    BY <1>5 DEF Gathered
  <2>2. reply \in HeaderReplies /\ MistralNext(c, reply) = AfterHeaders(reply, next)
    BY <1>5 DEF MistralReplies, MistralNext
  <2>. HIDE DEF next
  <2>. QED BY <1>2, <2>1, <2>2
<1>. DEFINE statuses == Unauthorized \cup PlainErrors \cup {"login", "redirect"}
<1>6. "ok" \notin statuses
  BY DEF Unauthorized, PlainErrors
<1>7. CASE c.at = "usage"
  <2>1. MistralNext(c, reply) = IF reply.status # "ok" THEN ConsoleError(reply)
                                ELSE [at |-> "limits headers", rows |-> BillingRows(reply.body)]
    BY <1>7 DEF MistralNext
  <2>2. reply \in OKReplies(MistralUsages) \cup ErrorReplies(statuses)
    BY <1>7 DEF MistralReplies
  <2>. HIDE DEF statuses
  <2>3. CASE reply.status = "ok"
    <3>1. reply.body \in MistralUsages
      BY <1>6, <2>2, <2>3, BodyOf
    <3>. DEFINE rows == BillingRows(reply.body)
    <3>2. Numbers(rows) /\ Bounded(rows) /\ TotalOfModels(rows)
      BY <3>1, BillingReads
    <3>. HIDE DEF rows
    <3>3. Gathered("mistral-billing", [at |-> "limits headers", rows |-> rows])
      BY <3>2 DEF Gathered
    <3>. QED BY <2>1, <2>3, <3>3 DEF rows
  <2>. QED BY <1>3, <2>1, <2>3, GatheredAtEnd
<1>8. CASE c.at = "limits"
  <2>1. MistralNext(c, reply) = IF reply.status # "ok" THEN ConsoleError(reply)
                                ELSE Collected(c.rows \o LimitRows(reply.body))
    BY <1>8 DEF MistralNext, AfterLimits
  <2>2. reply \in OKReplies(MistralLimits) \cup ErrorReplies(statuses)
    BY <1>8 DEF MistralReplies
  <2>3. Numbers(c.rows) /\ Bounded(c.rows) /\ TotalOfModels(c.rows)
    BY <1>8 DEF Gathered
  <2>. HIDE DEF statuses
  <2>4. CASE reply.status = "ok"
    <3>1. reply.body \in MistralLimits
      BY <1>6, <2>2, <2>4, BodyOf
    <3>. DEFINE rows == c.rows \o LimitRows(reply.body)
    <3>2. Numbers(rows) /\ Bounded(rows) /\ TotalOfModels(rows)
      BY <2>3, <3>1, MistralReads
    <3>. HIDE DEF rows
    <3>3. Agreeing("mistral-billing", rows)
      BY DEF Agreeing, Repeating
    <3>4. IsReading("mistral-billing", rows)
      BY <3>2, <3>3, BoundedIsWithin DEF IsReading
    <3>. QED BY <2>1, <2>4, <3>4, GatheredAtEnd DEF rows
  <2>. QED BY <1>3, <2>1, <2>4, GatheredAtEnd
<1>. QED
  BY <1>1, <1>4, <1>5, <1>7, <1>8

\* Nor one of Cerebras: organization after organization, its quotas and then
\* its usage.
LEMMA CerebrasGathers ==
    ASSUME NEW c, CollectorInOrder("cerebras-quotas", c), Gathered("cerebras-quotas", c),
           NEW reply \in CerebrasReplies(c)
    PROVE  Gathered("cerebras-quotas", CerebrasNext(c, reply))
<1>1. c.at \in {"organizations", "quotas", "usage"}
  BY DEF CollectorInOrder, Exchanges
<1>2. CerebrasError(reply) \in {Refused, Failed}
  BY DEF CerebrasError, HTTPError
<1>3. ASSUME NEW orgs, NEW rows, Numbers(rows), Bounded(rows), QuotasListedOnce => InTurn(orgs, rows)
      PROVE  Gathered("cerebras-quotas", NextOrganization(orgs, rows))
  <2>1. orgs # <<>> => Gathered("cerebras-quotas", [at |-> "quotas", orgs |-> orgs, rows |-> rows])
    BY <1>3 DEF Gathered
  <2>2. Gathered("cerebras-quotas", Collected(rows))
    <3>1. Agreeing("cerebras-quotas", rows)
      BY <1>3 DEF InTurn, Agreeing, Listing
    <3>2. IsReading("cerebras-quotas", rows)
      BY <1>3, <3>1, BoundedIsWithin DEF IsReading
    <3>. QED BY <3>2, GatheredAtEnd
  <2>. QED BY <2>1, <2>2, GatheredAtEnd DEF NextOrganization
<1>. DEFINE statuses == Unauthorized \cup PlainErrors \cup {"denied"}
<1>4. "ok" \notin statuses
  BY DEF Unauthorized, PlainErrors
<1>5. CASE c.at = "organizations"
  <2>. DEFINE orgs == InOrder(reply.body)
  <2>1. CerebrasNext(c, reply) = IF reply.status # "ok" THEN CerebrasError(reply)
                                 ELSE IF orgs = <<>> THEN Failed ELSE NextOrganization(orgs, <<>>)
    BY <1>5 DEF CerebrasNext
  <2>2. reply \in OKReplies(CerebrasOrganizations) \cup ErrorReplies(statuses)
    BY <1>5 DEF CerebrasReplies
  <2>. HIDE DEF orgs, statuses
  <2>3. CASE reply.status = "ok"
    <3>1. reply.body \in CerebrasOrganizations
      BY <1>4, <2>2, <2>3, BodyOf
    <3>2. IsList(orgs) /\ (QuotasListedOnce => \A i, j \in DOMAIN orgs : orgs[i].id = orgs[j].id => i = j)
      BY <3>1, InOrderIsList DEF QuotasListedOnce, orgs
    <3>3. QuotasListedOnce => InTurn(orgs, <<>>)
      BY <3>2, NoRowsAgree, EmptyList DEF InTurn
    <3>4. Gathered("cerebras-quotas", NextOrganization(orgs, <<>>))
      BY <1>3, <3>3, NoRows
    <3>. QED BY <2>1, <2>3, <3>4, GatheredAtEnd
  <2>. QED BY <1>2, <2>1, <2>3, GatheredAtEnd
<1>6. CASE c.at = "quotas"
  <2>. DEFINE quotas == IF reply.status = "ok" THEN reply.body ELSE <<>>
  <2>1. CerebrasNext(c, reply) =
           IF reply.status \in {"ok", "garbled"}
           THEN [at |-> "usage", orgs |-> c.orgs, rows |-> c.rows, quotas |-> quotas]
           ELSE IF CerebrasError(reply) = Refused THEN Refused ELSE NextOrganization(Tail(c.orgs), c.rows)
    BY <1>6 DEF CerebrasNext
  <2>2. reply \in OKReplies(CerebrasLimits) \cup ErrorReplies(statuses)
    BY <1>6 DEF CerebrasReplies
  <2>3. Numbers(c.rows) /\ Bounded(c.rows) /\ (QuotasListedOnce => c.orgs # <<>> /\ InTurn(c.orgs, c.rows))
    BY <1>6 DEF Gathered
  <2>. HIDE DEF statuses
  <2>4. quotas \in CerebrasLimits \/ quotas = <<>>
    BY <1>4, <2>2, BodyOf
  <2>. HIDE DEF quotas
  <2>5. Gathered("cerebras-quotas", [at |-> "usage", orgs |-> c.orgs, rows |-> c.rows, quotas |-> quotas])
    BY <2>3, <2>4 DEF Gathered
  <2>6. Gathered("cerebras-quotas", NextOrganization(Tail(c.orgs), c.rows))
    <3>1. IsList(c.rows)
      BY <2>3 DEF Numbers
    <3>2. QuotasListedOnce => InTurn(Tail(c.orgs), c.rows)
      BY <2>3, <3>1, NextInTurn
    <3>. QED BY <1>3, <2>3, <3>2
  <2>. QED BY <2>1, <2>5, <2>6, GatheredAtEnd
<1>7. CASE c.at = "usage"
  <2>. DEFINE usages == IF reply.status = "ok" THEN reply.body ELSE <<>>
              more == OrganizationRows(Head(c.orgs), c.quotas, usages)
  <2>1. CerebrasNext(c, reply) = NextOrganization(Tail(c.orgs), c.rows \o more)
    BY <1>7 DEF CerebrasNext
  <2>2. reply \in OKReplies(CerebrasUsages) \cup ErrorReplies(statuses)
    BY <1>7 DEF CerebrasReplies
  <2>3. /\ Numbers(c.rows) /\ Bounded(c.rows) /\ (c.quotas \in CerebrasLimits \/ c.quotas = <<>>)
        /\ QuotasListedOnce => c.orgs # <<>> /\ InTurn(c.orgs, c.rows)
    BY <1>7 DEF Gathered
  <2>. HIDE DEF statuses
  <2>4. usages \in CerebrasUsages \/ usages = <<>>
    BY <1>4, <2>2, BodyOf
  <2>. HIDE DEF usages
  <2>5. Numbers(more) /\ Bounded(more)
    BY <2>3, <2>4, CerebrasReads
  <2>6. QuotasListedOnce => Agree(more, more) /\ Within(Head(c.orgs), more)
    BY <2>3, OrganizationAgrees
  <2>. HIDE DEF more
  <2>7. Numbers(c.rows \o more) /\ Bounded(c.rows \o more)
    BY <2>3, <2>5, RowsJoin
  <2>8. IsList(c.rows) /\ IsList(more)
    BY <2>3, <2>5 DEF Numbers
  <2>9. QuotasListedOnce => InTurn(Tail(c.orgs), c.rows \o more)
    BY <2>3, <2>6, <2>8, NextInTurn
  <2>10. Gathered("cerebras-quotas", NextOrganization(Tail(c.orgs), c.rows \o more))
    BY <1>3, <2>7, <2>9
  <2>. QED BY <2>1, <2>10
<1>. QED
  BY <1>1, <1>5, <1>6, <1>7

\* Bounded numbers are a reading of every schema but the one with a total.
LEMMA BoundedReading ==
    ASSUME NEW id, id # "mistral-billing", NEW rows, Numbers(rows), Bounded(rows), Agreeing(id, rows)
    PROVE  IsReading(id, rows)
  BY BoundedIsWithin DEF IsReading

\* Gemini: the last of two exchanges gives the rows.
LEMMA GeminiGathers ==
    ASSUME NEW c, CollectorInOrder("gemini-cli", c), NEW reply \in GeminiReplies(c)
    PROVE  Gathered("gemini-cli", GeminiNext(c, reply))
<1>1. c.at \in {"load", "quota"}
  BY DEF CollectorInOrder, Exchanges
<1>2. CASE reply.status # "ok"
  BY <1>2, GatheredAtEnd DEF GeminiNext, CodeAssistError
<1>3. CASE reply.status = "ok" /\ c.at = "load"
  <2>1. Gathered("gemini-cli", [at |-> "quota"])
    BY DEF Gathered
  <2>2. GeminiNext(c, reply) = IF reply.body.project = "" THEN Failed ELSE [at |-> "quota"]
    BY <1>3 DEF GeminiNext
  <2>. QED BY <2>1, <2>2, GatheredAtEnd
<1>4. CASE reply.status = "ok" /\ c.at = "quota"
  <2>. DEFINE statuses == Unauthorized \cup PlainErrors
              rows == GeminiRows(reply.body)
  <2>1. GeminiNext(c, reply) = Collected(rows)
    BY <1>4 DEF GeminiNext
  <2>2. reply \in OKReplies(GeminiBuckets) \cup ErrorReplies(statuses)
    BY <1>4 DEF GeminiReplies, CodeAssistReplies
  <2>3. "ok" \notin statuses
    BY DEF Unauthorized, PlainErrors
  <2>. HIDE DEF statuses
  <2>4. reply.body \in GeminiBuckets
    BY <1>4, <2>2, <2>3, BodyOf
  <2>5. Numbers(rows) /\ \A r \in Range(rows) : r.metric # LimitMetric
    BY <2>4, GeminiReads
  <2>6. Agree(rows, rows)
    BY GeminiAgrees
  <2>. HIDE DEF rows
  <2>7. Agreeing("gemini-cli", rows)
    BY <2>6 DEF Agreeing
  <2>8. IsReading("gemini-cli", rows)
    BY <2>5, <2>7, WithoutLimits DEF IsReading
  <2>. QED BY <2>1, <2>8, GatheredAtEnd
<1>. QED
  BY <1>1, <1>2, <1>3, <1>4

\* Antigravity: the models of the first endpoint that answers.
LEMMA AntigravityGathers ==
    ASSUME NEW c, CollectorInOrder("antigravity", c), NEW reply \in AntigravityReplies(c)
    PROVE  Gathered("antigravity", AntigravityNext(c, reply))
<1>1. c.at \in {"load", "onboard", "poll", "models"}
  BY DEF CollectorInOrder, Exchanges
<1>2. \A next : next.at \in {"onboard", "poll", "models"} => Gathered("antigravity", next)
  BY DEF Gathered
<1>3. FetchModels.at = "models" /\ [at |-> "onboard"].at = "onboard" /\ \A n : [at |-> "poll", polls |-> n].at = "poll"
  BY DEF FetchModels
<1>4. \A operation, polls : Gathered("antigravity", AfterOperation(operation, polls))
  <2>. TAKE operation, polls
  <2>1. AfterOperation(operation, polls) \in {[at |-> "poll", polls |-> polls], Failed, FetchModels}
    BY DEF AfterOperation
  <2>. QED BY <1>2, <1>3, <2>1, GatheredAtEnd
<1>5. CASE c.at # "models" /\ reply.status # "ok"
  BY <1>5, GatheredAtEnd DEF AntigravityNext, CodeAssistError
<1>6. CASE c.at = "load" /\ reply.status = "ok"
  <2>1. AntigravityNext(c, reply) \in {FetchModels, Failed, [at |-> "onboard"]}
    BY <1>6 DEF AntigravityNext
  <2>. QED BY <1>2, <1>3, <2>1, GatheredAtEnd
<1>7. CASE c.at = "onboard" /\ reply.status = "ok"
  <2>1. AntigravityNext(c, reply) = AfterOperation(reply.body, 0)
    BY <1>7 DEF AntigravityNext
  <2>. QED BY <1>4, <2>1
<1>8. CASE c.at = "poll" /\ reply.status = "ok"
  <2>1. AntigravityNext(c, reply) = AfterOperation(reply.body, c.polls + 1)
    BY <1>8 DEF AntigravityNext
  <2>. QED BY <1>4, <2>1
<1>9. CASE c.at = "models"
  <2>1. AntigravityNext(c, reply) = AfterEndpoint(c, reply)
    BY <1>9 DEF AntigravityNext
  <2>2. CASE reply.status \in {"retryable", "unreachable"}
    <3>1. c \in [at : {"models"}, endpoint : Int]
      BY <1>9 DEF CollectorInOrder
    <3>. DEFINE next == [c EXCEPT !.endpoint = @ + 1]
    <3>2. next.at = "models"
      BY <3>1
    <3>3. AfterEndpoint(c, reply) \in {next, Failed}
      BY <2>2 DEF AfterEndpoint
    <3>. HIDE DEF next
    <3>. QED BY <1>2, <2>1, <3>2, <3>3, GatheredAtEnd
  <2>3. CASE reply.status = "ok"
    <3>. DEFINE statuses == Unauthorized \cup PlainErrors \cup {"retryable"}
                rows == AntigravityRows(reply.body)
    <3>1. AfterEndpoint(c, reply) = Collected(rows)
      BY <2>3 DEF AfterEndpoint
    <3>2. reply \in OKReplies(AntigravityModels) \cup ErrorReplies(statuses)
      BY <1>9 DEF AntigravityReplies, CodeAssistReplies, ErrorReplies
    <3>3. "ok" \notin statuses
      BY DEF Unauthorized, PlainErrors
    <3>. HIDE DEF statuses
    <3>4. reply.body \in AntigravityModels
      BY <2>3, <3>2, <3>3, BodyOf
    <3>5. Numbers(rows) /\ Bounded(rows)
      BY <3>4, AntigravityReads
    <3>6. QuotasListedOnce => Agree(rows, rows)
      BY <3>4, AntigravityAgrees
    <3>. HIDE DEF rows
    <3>7. Agreeing("antigravity", rows)
      BY <3>6 DEF Agreeing, Listing
    <3>8. IsReading("antigravity", rows)
      BY <3>5, <3>7, BoundedReading
    <3>. QED BY <2>1, <3>1, <3>8, GatheredAtEnd
  <2>4. CASE reply.status \notin {"retryable", "unreachable", "ok"}
    <3>1. AfterEndpoint(c, reply) \in {Refused, Failed}
      BY <2>4 DEF AfterEndpoint, HTTPError
    <3>. QED BY <2>1, <3>1, GatheredAtEnd
  <2>. QED BY <2>2, <2>3, <2>4
<1>. QED
  BY <1>1, <1>5, <1>6, <1>7, <1>8, <1>9

\* AI Studio: the limits, then the series of the models.
LEMMA StudioGathers ==
    ASSUME NEW c, CollectorInOrder("google-aistudio-quotas", c), Gathered("google-aistudio-quotas", c),
           NEW reply \in StudioReplies(c)
    PROVE  Gathered("google-aistudio-quotas", StudioNext(c, reply))
<1>. DEFINE id == "google-aistudio-quotas"
<1>1. c.at \in {"project id", "projects", "limits", "models", "series"}
  BY DEF CollectorInOrder, Exchanges
<1>2. \A next : next.at \in {"projects", "limits"} => Gathered(id, next)
  BY DEF Gathered
<1>3. CallError(reply) \in {Refused, Failed}
  BY DEF CallError, HTTPError
<1>4. ASSUME NEW limits, LimitsTyped(limits), QuotasListedOnce => LimitsAgree(limits),
             NEW fetched, FetchedTyped(fetched)
      PROVE  Gathered(id, Collected(StudioRows(limits, fetched)))
  <2>. DEFINE rows == StudioRows(limits, fetched)
  <2>1. Numbers(rows) /\ WithinLimits(id, rows)
    BY <1>4, StudioReads, CoveredIsWithin
  <2>2. IsList(limits)
    BY <1>4 DEF LimitsTyped
  <2>3. QuotasListedOnce => Agree(rows, rows)
    BY <1>4, <2>2, StudioAgrees
  <2>. HIDE DEF rows
  <2>4. Agreeing(id, rows)
    BY <2>3 DEF Agreeing, Listing
  <2>5. IsReading(id, rows)
    BY <2>1, <2>4 DEF IsReading
  <2>. QED BY <2>5, GatheredAtEnd DEF rows
<1>5. ASSUME NEW limits, LimitsTyped(limits), QuotasListedOnce => LimitsAgree(limits),
             NEW fetched, FetchedTyped(fetched), NEW wanted
      PROVE  Gathered(id, NextSeries(limits, wanted, fetched))
  <2>1. Gathered(id, [at |-> "series", limits |-> limits, wanted |-> wanted, fetched |-> fetched])
    BY <1>5 DEF Gathered
  <2>. HIDE DEF id
  <2>. QED BY <1>4, <1>5, <2>1 DEF NextSeries
<1>6. FetchedTyped(<<>>)
  BY DEF FetchedTyped
<1>. DEFINE statuses == Unauthorized \cup PlainErrors \cup {"none", "denied", "down"}
<1>7. "ok" \notin statuses /\ \A B : CallReplies(B) = OKReplies(B) \cup ErrorReplies(statuses)
  BY DEF Unauthorized, PlainErrors, CallReplies
<1>. HIDE DEF statuses
<1>8. CASE c.at # "series" /\ reply.status # "ok"
  <2>1. StudioNext(c, reply) = CallError(reply)
    BY <1>8 DEF StudioNext
  <2>. QED BY <1>3, <2>1, GatheredAtEnd
<1>9. CASE c.at = "project id" /\ reply.status = "ok"
  <2>1. StudioNext(c, reply) = IF reply.body.path THEN [at |-> "limits", hint |-> 0]
                               ELSE [at |-> "projects", id |-> reply.body.id]
    BY <1>9 DEF StudioNext
  <2>2. [at |-> "limits", hint |-> 0].at = "limits" /\ [at |-> "projects", id |-> reply.body.id].at = "projects"
    OBVIOUS
  <2>. QED BY <1>2, <2>1, <2>2
<1>10. CASE c.at = "projects" /\ reply.status = "ok"
  <2>. DEFINE named == ProjectNamed(reply.body, c.id)
  <2>1. StudioNext(c, reply) = IF named = <<>> \/ named[1].path = "" THEN Failed
                               ELSE [at |-> "limits", hint |-> named[1].tier]
    BY <1>10 DEF StudioNext, AfterProjects
  <2>. HIDE DEF named
  <2>. DEFINE next == [at |-> "limits", hint |-> named[1].tier]
  <2>2. Gathered(id, next)
    BY <1>2
  <2>3. StudioNext(c, reply) \in {Failed, next}
    BY <2>1
  <2>. HIDE DEF next
  <2>. QED BY <2>2, <2>3, GatheredAtEnd
<1>11. CASE c.at = "limits" /\ reply.status = "ok"
  <2>1. reply.body \in StudioLimits
    <3>1. reply \in CallReplies(StudioLimits)
      BY <1>11 DEF StudioReplies
    <3>. QED BY <1>7, <1>11, <3>1, BodyOf
  <2>2. Gathered(id, [at |-> "models", hint |-> c.hint, entries |-> reply.body])
    BY <2>1 DEF Gathered
  <2>3. StudioNext(c, reply) = [at |-> "models", hint |-> c.hint, entries |-> reply.body]
    BY <1>11 DEF StudioNext
  <2>. QED BY <2>2, <2>3
<1>12. CASE c.at = "models" /\ reply.status = "ok"
  <2>. DEFINE meta == ModelMeta(reply.body)
              limits == RateLimits(c.entries, c.hint, meta)
  <2>1. StudioNext(c, reply) = IF DOMAIN meta = {} \/ limits = <<>> THEN Failed
                               ELSE NextSeries(limits, SeriesWanted(limits), <<>>)
    BY <1>12 DEF StudioNext, AfterModels
  <2>2. c.entries \in StudioLimits
    BY <1>12 DEF Gathered
  <2>. HIDE DEF meta
  <2>3. LimitsTyped(limits) /\ (QuotasListedOnce => LimitsAgree(limits))
    BY <2>2, RateLimitsTyped
  <2>. HIDE DEF limits
  <2>4. Gathered(id, NextSeries(limits, SeriesWanted(limits), <<>>))
    BY <1>5, <1>6, <2>3
  <2>. QED BY <2>1, <2>4, GatheredAtEnd
<1>13. CASE c.at = "series"
  <2>1. StudioNext(c, reply) = AfterSeries(c, reply)
    BY <1>13 DEF StudioNext
  <2>2. LimitsTyped(c.limits) /\ FetchedTyped(c.fetched) /\ (QuotasListedOnce => LimitsAgree(c.limits))
    BY <1>13 DEF Gathered
  <2>3. CASE reply.status = "ok"
    <3>. DEFINE fetched == Put(c.fetched, Head(c.wanted), reply.body)
    <3>1. reply.body \in StudioSeries
      <4>1. reply \in CallReplies(StudioSeries)
        BY <1>13 DEF StudioReplies
      <4>. QED BY <1>7, <2>3, <4>1, BodyOf
    <3>2. FetchedTyped(fetched)
      BY <2>2, <3>1 DEF FetchedTyped, Put
    <3>3. AfterSeries(c, reply) = NextSeries(c.limits, Tail(c.wanted), fetched)
      BY <2>3 DEF AfterSeries
    <3>. HIDE DEF fetched
    <3>4. Gathered(id, NextSeries(c.limits, Tail(c.wanted), fetched))
      BY <1>5, <2>2, <3>2
    <3>. QED BY <2>1, <3>3, <3>4
  <2>4. CASE reply.status = "garbled"
    <3>1. AfterSeries(c, reply) = Failed
      BY <2>4 DEF AfterSeries
    <3>. QED BY <2>1, <3>1, GatheredAtEnd
  <2>5. CASE reply.status \notin {"ok", "garbled"}
    <3>1. AfterSeries(c, reply) = IF CallError(reply) = Refused THEN Refused ELSE Collected(StudioRows(c.limits, <<>>))
      BY <2>5 DEF AfterSeries
    <3>2. Gathered(id, Collected(StudioRows(c.limits, <<>>)))
      BY <1>4, <1>6, <2>2
    <3>. QED BY <2>1, <3>1, <3>2, GatheredAtEnd
  <2>. QED BY <2>3, <2>4, <2>5
<1>. QED
  BY <1>1, <1>8, <1>9, <1>10, <1>11, <1>12, <1>13

\* An HTTP reply that is ok has a body.
LEMMA HTTPBody ==
    ASSUME NEW B, NEW reply \in HTTPReplies(B), reply.status = "ok"
    PROVE  reply.body \in B
<1>. DEFINE statuses == Unauthorized \cup PlainErrors
<1>1. reply \in OKReplies(B) \cup ErrorReplies(statuses) /\ "ok" \notin statuses
  BY DEF HTTPReplies, Unauthorized, PlainErrors
<1>. HIDE DEF statuses
<1>. QED
  BY <1>1, BodyOf

\* A collector that refuses no rows has gathered its reading when it has some.
LEMMA SomeGathered ==
    ASSUME NEW id, id # "mistral-billing", NEW rows, Numbers(rows), Bounded(rows), Agreeing(id, rows)
    PROVE  Gathered(id, SomeRows(rows)) /\ Gathered(id, Collected(rows))
  BY BoundedReading, GatheredAtEnd DEF SomeRows

\* Codex: one exchange, the windows of its reply.
LEMMA CodexGathers ==
    ASSUME NEW c, NEW reply \in CodexReplies(c)
    PROVE  Gathered("codex", CodexNext(c, reply))
<1>1. HTTPError(reply) \in {Refused, Failed}
  BY DEF HTTPError
<1>2. IsWindow(NoWindow)
  BY DEF IsWindow, NoWindow
<1>3. ASSUME NEW plan \in Int, NEW reached \in BOOLEAN, NEW primary, IsWindow(primary), NEW secondary, IsWindow(secondary)
      PROVE  Gathered("codex", Collected(CodexRows(plan, reached, primary, secondary)))
  <2>. DEFINE rows == CodexRows(plan, reached, primary, secondary)
  <2>1. Numbers(rows) /\ Bounded(rows)
    BY <1>3, CodexReads
  <2>2. Agree(rows, rows)
    BY CodexAgrees
  <2>. HIDE DEF rows
  <2>3. Agreeing("codex", rows)
    BY <2>2 DEF Agreeing
  <2>. QED BY <2>1, <2>3, SomeGathered DEF rows
<1>4. CASE reply.status = "ok"
  <2>. DEFINE usage == reply.body
  <2>1. CodexNext(c, reply) = Collected(CodexUsageRows(usage))
    BY <1>4 DEF CodexNext
  <2>2. usage \in CodexUsages
    <3>1. reply \in HTTPReplies(CodexUsages)
      BY <1>4 DEF CodexReplies
    <3>. QED BY <1>4, <3>1, HTTPBody
  <2>. HIDE DEF usage
  <2>3. usage.plan \in Int
    BY <2>2, ConsoleAssumption
  <2>4. CASE usage.limit = <<>>
    <3>1. CodexUsageRows(usage) = CodexRows(usage.plan, FALSE, NoWindow, NoWindow)
      BY <2>4 DEF CodexUsageRows, Absent
    <3>. QED BY <1>2, <1>3, <2>1, <2>3, <3>1
  <2>5. CASE usage.limit # <<>>
    <3>. DEFINE limit == usage.limit[1]
                reached == limit.reached \/ ~limit.allowed
                primary == ValueOr(limit.primary, NoWindow)
                secondary == ValueOr(limit.secondary, NoWindow)
    <3>1. CodexUsageRows(usage) = CodexRows(usage.plan, reached, primary, secondary)
      BY <2>5 DEF CodexUsageRows, Absent
    <3>2. \A window \in {limit.primary, limit.secondary} : window = <<>> \/ IsWindow(window[1])
      BY <2>2, <2>5, ConsoleAssumption DEF Absent
    <3>3. IsWindow(primary) /\ IsWindow(secondary)
      BY <1>2, <3>2 DEF ValueOr, Absent
    <3>4. reached \in BOOLEAN
      OBVIOUS
    <3>. HIDE DEF reached, primary, secondary
    <3>. QED BY <1>3, <2>1, <2>3, <3>1, <3>3, <3>4
  <2>. QED BY <2>4, <2>5
<1>5. CASE reply.status = "throttled"
  <2>. DEFINE after == RetryAfter(reply.body)
              window == [used |-> 100, reset |-> after[1], seconds |-> 0]
  <2>1. CodexNext(c, reply) = IF after = <<>> THEN Failed ELSE Collected(CodexRows(0, TRUE, window, NoWindow))
    BY <1>5 DEF CodexNext, Absent
  <2>2. reply.body \in CodexLimits
    BY <1>5 DEF CodexReplies, HTTPReplies, OKReplies, ErrorReplies, Unauthorized, PlainErrors
  <2>3. reply.body.resetsAt \in Int /\ reply.body.resetsIn \in Int
    BY <2>2, ConsoleAssumption
  <2>4. after # <<>> => after[1] \in Int
    BY <2>3 DEF RetryAfter
  <2>. HIDE DEF after
  <2>5. after # <<>> => IsWindow(window)
    BY <2>4 DEF IsWindow
  <2>. HIDE DEF window
  <2>6. after # <<>> => Gathered("codex", Collected(CodexRows(0, TRUE, window, NoWindow)))
    <3>. SUFFICES ASSUME after # <<>> PROVE Gathered("codex", Collected(CodexRows(0, TRUE, window, NoWindow)))
      OBVIOUS
    <3>1. 0 \in Int /\ TRUE \in BOOLEAN /\ IsWindow(window)
      BY <2>5
    <3>. QED BY <1>2, <1>3, <3>1
  <2>. QED BY <2>1, <2>6, GatheredAtEnd
<1>6. CASE reply.status \notin {"ok", "throttled"}
  <2>1. CodexNext(c, reply) = HTTPError(reply)
    BY <1>6 DEF CodexNext
  <2>. QED BY <1>1, <2>1, GatheredAtEnd
<1>. QED
  BY <1>4, <1>5, <1>6

\* The collectors of one exchange.
LEMMA SingleGathers ==
    ASSUME NEW id \in Single, NEW c, NEW reply \in CollectReplies(id, c)
    PROVE  Gathered(id, CollectNext(id, c, reply))
<1>1. HTTPError(reply) \in {Refused, Failed}
  BY DEF HTTPError
<1>2. CASE id = "codex"
  BY <1>2, CodexGathers DEF CollectReplies, CollectNext
<1>3. CASE id = "internlm-quotas"
  <2>1. reply \in HTTPReplies(InternlmStatistics)
    BY <1>3 DEF CollectReplies, InternlmReplies
  <2>2. CollectNext(id, c, reply) = IF reply.status # "ok" THEN HTTPError(reply)
                                    ELSE IF reply.body.code # 0 THEN Failed ELSE SomeRows(InternlmRows(reply.body))
    BY <1>3 DEF CollectNext, InternlmNext
  <2>3. ASSUME reply.status = "ok" PROVE Gathered(id, SomeRows(InternlmRows(reply.body)))
    <3>1. reply.body \in InternlmStatistics
      BY <2>1, <2>3, HTTPBody
    <3>2. Numbers(InternlmRows(reply.body)) /\ Bounded(InternlmRows(reply.body))
      BY <3>1, InternlmReads
    <3>3. Agreeing(id, InternlmRows(reply.body))
      BY InternlmAgrees DEF Agreeing
    <3>. QED BY <1>3, <3>2, <3>3, SomeGathered
  <2>. QED BY <1>1, <2>2, <2>3, GatheredAtEnd
<1>4. CASE id = "meituan-longcat-token-usage"
  <2>1. reply \in HTTPReplies(MeituanUsages)
    BY <1>4 DEF CollectReplies, MeituanReplies
  <2>2. CollectNext(id, c, reply) = IF reply.status # "ok" THEN HTTPError(reply) ELSE SomeRows(MeituanRows(reply.body))
    BY <1>4 DEF CollectNext, MeituanNext
  <2>3. ASSUME reply.status = "ok" PROVE Gathered(id, SomeRows(MeituanRows(reply.body)))
    <3>1. reply.body \in MeituanUsages
      BY <2>1, <2>3, HTTPBody
    <3>2. Numbers(MeituanRows(reply.body)) /\ Bounded(MeituanRows(reply.body))
      BY <3>1, MeituanReads
    <3>3. Agreeing(id, MeituanRows(reply.body))
      BY <1>4 DEF Agreeing, Repeating
    <3>. QED BY <1>4, <3>2, <3>3, SomeGathered
  <2>. QED BY <1>1, <2>2, <2>3, GatheredAtEnd
<1>5. CASE id = "openrouter-quotas"
  <2>1. reply \in HTTPReplies(OpenRouterActivity) \cup ErrorReplies({"denied"})
    BY <1>5 DEF CollectReplies, OpenRouterReplies
  <2>2. /\ reply.status = "ok" => CollectNext(id, c, reply) = Collected(OpenRouterRows(reply.body))
        /\ reply.status # "ok" => CollectNext(id, c, reply) \in {Refused, Failed}
    BY <1>5 DEF CollectNext, OpenRouterNext
  <2>3. ASSUME reply.status = "ok" PROVE Gathered(id, Collected(OpenRouterRows(reply.body)))
    <3>0. reply \in HTTPReplies(OpenRouterActivity)
      BY <2>1, <2>3 DEF ErrorReplies
    <3>1. reply.body \in OpenRouterActivity
      BY <2>3, <3>0, HTTPBody
    <3>2. Numbers(OpenRouterRows(reply.body)) /\ Bounded(OpenRouterRows(reply.body))
      BY <3>1, OpenRouterReads
    <3>3. Agreeing(id, OpenRouterRows(reply.body))
      BY <1>5 DEF Agreeing, Repeating
    <3>. QED BY <1>5, <3>2, <3>3, SomeGathered
  <2>. QED BY <2>2, <2>3, GatheredAtEnd
<1>6. CASE id = "minimax-remains"
  <2>1. reply \in HTTPReplies(MinimaxRemains) \cup ErrorReplies({"denied"})
    BY <1>6 DEF CollectReplies, MinimaxReplies
  <2>2. CASE reply.status = "ok"
    <3>1. reply \in HTTPReplies(MinimaxRemains)
      BY <2>1, <2>2 DEF ErrorReplies
    <3>2. reply.body \in MinimaxRemains
      BY <2>2, <3>1, HTTPBody
    <3>. DEFINE rows == MinimaxRows(reply.body)
    <3>3. CollectNext(id, c, reply) = SomeRows(rows)
      BY <1>6, <2>2 DEF CollectNext, MinimaxNext
    <3>4. Numbers(rows)
      BY <3>2, MinimaxReads
    <3>5. QuotasListedOnce => Agree(rows, rows)
      BY <3>2, MinimaxAgrees
    <3>. HIDE DEF rows
    <3>6. Agreeing(id, rows)
      BY <1>6, <3>5 DEF Agreeing, Listing
    <3>7. IsReading(id, rows)
      BY <1>6, <3>4, <3>6 DEF IsReading
    <3>. QED BY <3>3, <3>7, GatheredAtEnd DEF SomeRows
  <2>3. CASE reply.status # "ok"
    <3>1. CollectNext(id, c, reply) \in {Refused, HTTPError(reply)}
      BY <1>6, <2>3 DEF CollectNext, MinimaxNext
    <3>. QED BY <1>1, <3>1, GatheredAtEnd
  <2>. QED BY <2>2, <2>3
<1>. QED
  BY <1>2, <1>3, <1>4, <1>5, <1>6 DEF Single

\* No reply of any vendor takes its collector off its way to a reading.
LEMMA EveryoneGathers ==
    ASSUME NEW id \in CollectorIDs, NEW c, CollectorInOrder(id, c), Gathered(id, c), NEW reply \in CollectReplies(id, c)
    PROVE  Gathered(id, CollectNext(id, c, reply))
<1>1. CASE id = "mistral-billing"
  <2>1. reply \in MistralReplies(c) /\ CollectNext(id, c, reply) = MistralNext(c, reply)
    BY <1>1 DEF CollectReplies, CollectNext
  <2>. QED BY <1>1, <2>1, MistralGathers
<1>2. CASE id = "google-aistudio-quotas"
  <2>1. reply \in StudioReplies(c) /\ CollectNext(id, c, reply) = StudioNext(c, reply)
    BY <1>2 DEF CollectReplies, CollectNext
  <2>. QED BY <1>2, <2>1, StudioGathers
<1>3. CASE id = "cerebras-quotas"
  <2>1. reply \in CerebrasReplies(c) /\ CollectNext(id, c, reply) = CerebrasNext(c, reply)
    BY <1>3 DEF CollectReplies, CollectNext
  <2>. QED BY <1>3, <2>1, CerebrasGathers
<1>4. CASE id = "gemini-cli"
  <2>1. reply \in GeminiReplies(c) /\ CollectNext(id, c, reply) = GeminiNext(c, reply)
    BY <1>4 DEF CollectReplies, CollectNext
  <2>. QED BY <1>4, <2>1, GeminiGathers
<1>5. CASE id = "antigravity"
  <2>1. reply \in AntigravityReplies(c) /\ CollectNext(id, c, reply) = AntigravityNext(c, reply)
    BY <1>5 DEF CollectReplies, CollectNext
  <2>. QED BY <1>5, <2>1, AntigravityGathers
<1>6. CASE id \in Single
  BY <1>6, SingleGathers
<1>. QED
  BY <1>1, <1>2, <1>3, <1>4, <1>5, <1>6 DEF CollectorIDs, Single

\* Every collector starts on its way.
LEMMA StartsGathering ==
    ASSUME NEW id \in CollectorIDs
    PROVE  Gathered(id, CollectStart(id))
<1>1. \A c : c.at \in {"usage headers", "project id", "organizations", "load", "probe"} => Gathered(id, c)
  BY DEF Gathered
<1>2. /\ MistralStart.at = "usage headers" /\ StudioStart.at = "project id" /\ CerebrasStart.at = "organizations"
      /\ GeminiStart.at = "load" /\ AntigravityStart.at = "load" /\ Probing.at = "probe"
  BY DEF MistralStart, StudioStart, CerebrasStart, GeminiStart, AntigravityStart, Probing
<1>3. CollectStart(id) \in {MistralStart, StudioStart, CerebrasStart, GeminiStart, AntigravityStart, Probing, Failed}
  BY DEF CollectorIDs, CollectStart, MinimaxStart, CodexStart, InternlmStart, MeituanStart, OpenRouterStart
<1>. DEFINE next == CollectStart(id)
<1>4. next = Failed \/ next.at \in {"usage headers", "project id", "organizations", "load", "probe"}
  BY <1>2, <1>3
<1>. HIDE DEF next
<1>5. Gathered(id, next)
  <2>1. Gathered(id, Failed)
    BY GatheredAtEnd
  <2>2. CASE next = Failed
    BY <2>1, <2>2
  <2>3. CASE next.at \in {"usage headers", "project id", "organizations", "load", "probe"}
    <3>. DEFINE ats == {"usage headers", "project id", "organizations", "load", "probe"}
    <3>1. next.at \in ats /\ \A c : c.at \in ats => Gathered(id, c)
      BY <1>1, <2>3
    <3>. HIDE DEF ats
    <3>. QED BY <3>1
  <2>. QED BY <1>4, <2>2, <2>3
<1>. QED
  BY <1>5 DEF next

--------------------------------------------------------------------------------
(* Readings stay sound whatever a step does.                                     *)

\* ReadingsSound of one probe, and numbers on every gauge.
SoundAt(t) ==
    /\ IsReading(schema, probe[t].read)
    /\ probe[t].step = "collect" => Gathered(schema, probe[t].c)

GaugesAreNumbers == \A gauge \in DOMAIN gauges : gauges[gauge] \in Int

\* What a settled probe has read, or goes on with.
LEMMA SettledReads ==
    ASSUME NEW p, IsProbe(p), IsReading(schema, p.read),
           NEW c, c.at \in Terminal \/ CollectorInOrder(schema, c), Gathered(schema, c), NEW n, n = Settled(p, c)
    PROVE  IsReading(schema, n.read) /\ (n.step = "collect" => Gathered(schema, n.c))
<1>1. CASE c.at = "collected"
  <2>1. \/ n.step = "done" /\ n.read = p.read
        \/ n.step = "record" /\ n.read = c.rows
    BY <1>1, SettledProbe
  <2>2. IsReading(schema, c.rows)
    BY <1>1 DEF Gathered
  <2>. QED BY <2>1, <2>2
<1>2. CASE c.at \in {"refused", "failed"}
  <2>1. n.step = "done" /\ n.read = p.read
    BY <1>2, SettledProbe
  <2>. QED BY <2>1
<1>3. CASE c.at \notin Terminal
  <2>1. c.at \notin {"collected", "refused", "failed"}
    BY <1>3 DEF Terminal
  <2>2. n.c = c /\ n.read = p.read
    BY <1>3, <2>1, SettledProbe
  <2>. QED BY <2>2
<1>. QED
  BY <1>1, <1>2, <1>3 DEF Terminal

\* Looking up the provider and its schema reads nothing.
LEMMA FindReads ==
    ASSUME IInv, NEW t \in Tasks, Find(t), SoundAt(t)
    PROVE  SoundAt(t)'
<1>. DEFINE p == probe[t]
            found == [p EXCEPT !.step = "found"]
<1>1. IsProbe(p) /\ IsReading(schema, p.read)
  BY DEF IInv, ProbeInOrder, SoundAt
<1>2. probe'[t] \in {Ended(p, "not_found"), Ended(p, "unsupported"), found} /\ schema' = schema
  BY DEF Find, IInv
<1>. HIDE DEF p
<1>3. /\ Ended(p, "not_found").step = "done" /\ Ended(p, "not_found").read = p.read
      /\ Ended(p, "unsupported").step = "done" /\ Ended(p, "unsupported").read = p.read
  BY <1>1 DEF IsProbe, Ended
<1>4. found.step = "found" /\ found.read = p.read
  BY <1>1 DEF IsProbe
<1>. HIDE DEF found
<1>5. probe'[t].step # "collect" /\ probe'[t].read = p.read
  BY <1>2, <1>3, <1>4
<1>. QED
  BY <1>1, <1>2, <1>5 DEF SoundAt

\* Getting the secret starts the collector of the schema.
LEMMA GetReads ==
    ASSUME IInv, NEW t \in Tasks, Get(t), SoundAt(t)
    PROVE  SoundAt(t)'
<1>. DEFINE p == probe[t]
            c == CollectStart(schema)
<1>1. IsProbe(p) /\ IsReading(schema, p.read) /\ schema \in CollectorIDs
  BY DEF IInv, ProbeInOrder, SoundAt, Get
<1>2. probe'[t] = (IF exists THEN Settled(p, c) ELSE Ended(p, "not_found")) /\ schema' = schema
  BY DEF Get, IInv
<1>3. c.at \in Terminal \/ CollectorInOrder(schema, c)
  <2>1. "failed" \in Terminal
    BY DEF Terminal
  <2>. QED BY <1>1, <2>1, CollectorStarts
<1>4. Gathered(schema, c)
  BY <1>1, StartsGathering
<1>. HIDE DEF p, c
<1>5. Ended(p, "not_found").step = "done" /\ Ended(p, "not_found").read = p.read
  BY <1>1 DEF IsProbe, Ended
<1>6. CASE exists
  <2>1. probe'[t] = Settled(p, c)
    BY <1>2, <1>6
  <2>2. IsReading(schema, probe'[t].read) /\ (probe'[t].step = "collect" => Gathered(schema, probe'[t].c))
    BY <1>1, <1>3, <1>4, <2>1, SettledReads
  <2>. QED BY <1>2, <2>2 DEF SoundAt
<1>7. CASE ~exists
  BY <1>1, <1>2, <1>5, <1>7 DEF SoundAt
<1>. QED
  BY <1>6, <1>7

\* An exchange keeps what the probe has read a reading.
LEMMA ExchangeReads ==
    ASSUME IInv, NEW t \in Tasks, Exchange(t), SoundAt(t)
    PROVE  SoundAt(t)'
<1>. DEFINE c == probe[t].c
            Missed(reply) == IF reply.status \in {"ok", "headers", "throttled"} THEN {}
                             ELSE {<<c.at, Told(schema, c.at, reply)>>}
            p(reply) == [probe[t] EXCEPT !.asked = TRUE, !.misses = @ \cup Missed(reply)]
<1>1. /\ IsProbe(probe[t]) /\ IsReading(schema, probe[t].read) /\ schema \in CollectorIDs
      /\ CollectorInOrder(schema, c) /\ Gathered(schema, c)
  BY DEF Exchange, IInv, ProbeInOrder, SoundAt
<1>2. PICK reply \in CollectReplies(schema, c) :
         probe' = [probe EXCEPT ![t] = Settled(p(reply), CollectNext(schema, c, reply))]
  BY DEF Exchange
<1>. DEFINE next == CollectNext(schema, c, reply)
            q == p(reply)
            n == Settled(q, next)
<1>3. probe'[t] = n /\ schema' = schema
  <2>1. probe' = [probe EXCEPT ![t] = n] /\ schema' = schema
    BY <1>2 DEF Exchange
  <2>. HIDE DEF n
  <2>. QED BY <2>1 DEF IInv
<1>4. next.at \in Terminal \/ CollectorInOrder(schema, next)
  BY <1>1, EveryVerdict DEF Verdict
<1>5. Gathered(schema, next)
  BY <1>1, EveryoneGathers
<1>6. IsProbe(q) /\ q.read = probe[t].read
  <2>. DEFINE missed == Missed(reply)
  <2>. HIDE DEF missed
  <2>1. q = [probe[t] EXCEPT !.asked = TRUE, !.misses = @ \cup missed]
    BY DEF missed
  <2>. QED BY <1>1, <2>1 DEF IsProbe
<1>. HIDE DEF next, q
<1>7. IsReading(schema, n.read) /\ (n.step = "collect" => Gathered(schema, n.c))
  BY <1>1, <1>4, <1>5, <1>6, SettledReads
<1>. HIDE DEF n
<1>. QED
  BY <1>3, <1>7 DEF SoundAt

\* Recording a row leaves what was read alone,
LEMMA RecordReads ==
    ASSUME IInv, NEW t \in Tasks, RecordRow(t), ReadingsSound
    PROVE  ReadingsSound'
<1>1. /\ schema' = schema /\ probe'[t].read = probe[t].read /\ probe'[t].step \in {"done", "record"}
  <2>1. \/ probe'[t].step = "done" \/ probe'[t].step = "record"
    BY RecordedRow
  <2>. QED BY <2>1, RecordedRow
<1>2. \A u \in Tasks \ {t} :
         probe'[u].read = probe[u].read /\ probe'[u].step = probe[u].step /\ probe'[u].c = probe[u].c
  BY RecordedRow
<1>. QED
  BY <1>1, <1>2 DEF ReadingsSound

\* and puts a number on a gauge.
LEMMA RecordNumbers ==
    ASSUME IInv, NEW t \in Tasks, RecordRow(t), ReadingsSound, RecordingInOrder, GaugesAreNumbers
    PROVE  GaugesAreNumbers'
<1>. DEFINE read == probe[t].read
            rows == probe[t].rows
<1>1. gauges' = Record(gauges, Head(rows)) /\ probe[t].step = "record"
  BY RecordedRow
<1>2. rows # <<>> /\ rows \in Seq(Range(read))
  BY <1>1 DEF RecordingInOrder, RowsInOrder
<1>3. \A r \in Range(read) : r.value \in Int
  BY DEF ReadingsSound, IsReading, Numbers
<1>. HIDE DEF read, rows
<1>4. Head(rows).value \in Int
  <2>. DEFINE S == Range(read)
  <2>. HIDE DEF S
  <2>1. Head(rows) \in S
    BY <1>2 DEF S
  <2>. QED BY <1>3, <2>1 DEF S
<1>. QED
  BY <1>1, <1>4 DEF GaugesAreNumbers, Record, Put

\* The strengthening: readings are sound, and recorded in order.
ReadInv ==
    /\ schema \in Schemas /\ exists \in BOOLEAN
    /\ ReadingsSound /\ RecordingInOrder /\ GaugesAreNumbers

\* A sound reading is a list.
LEMMA SoundReadsAreLists == ReadingsSound => ReadsAreLists
  BY DEF ReadingsSound, IsReading, Numbers, ReadsAreLists

\* No step makes a reading unsound.
LEMMA ReadingsStaySound ==
    ASSUME IInv, ReadingsSound, [Next]_vars
    PROVE  ReadingsSound'
<1>1. ASSUME NEW t \in Tasks, Find(t) \/ Get(t) \/ Exchange(t) PROVE ReadingsSound'
  <2>1. SoundAt(t)
    BY DEF ReadingsSound, SoundAt
  <2>2. SoundAt(t)'
    BY <1>1, <2>1, FindReads, GetReads, ExchangeReads
  <2>3. schema' = schema /\ \A u \in Tasks \ {t} : probe'[u] = probe[u]
    <3>1. Alone(t)
      BY <1>1, FindKeeps, GetKeeps, ExchangeKeeps
    <3>. QED BY <1>1, <3>1 DEF Alone, Find, Get, Exchange
  <2>. QED BY <2>2, <2>3 DEF ReadingsSound, SoundAt
<1>2. ASSUME NEW t \in Tasks, RecordRow(t) PROVE ReadingsSound'
  BY <1>2, RecordReads
<1>3. CASE DeleteProvider \/ Finished \/ UNCHANGED vars
  <2>1. probe' = probe /\ schema' = schema
    BY <1>3 DEF DeleteProvider, Finished, vars
  <2>. QED BY <2>1 DEF ReadingsSound
<1>. QED
  BY <1>1, <1>2, <1>3 DEF Next, Step

\* The strengthening is invariant.
LEMMA ReadInvariant == Spec => []ReadInv
<1>1. Init => ReadInv
  <2>. SUFFICES ASSUME Init PROVE ReadInv
    OBVIOUS
  <2>1. \A t \in Tasks : probe[t].read = <<>> /\ probe[t].step = "idle"
    BY DEF Init, Idle
  <2>2. ReadingsSound
    BY <2>1, NothingRead DEF ReadingsSound
  <2>3. schema \in Schemas /\ exists \in BOOLEAN /\ gauges = <<>>
    BY DEF Init
  <2>. QED BY <2>2, <2>3, FirstRowsInOrder DEF ReadInv, GaugesAreNumbers
<1>2. IInv /\ ReadInv /\ [Next]_vars => ReadInv'
  <2>. SUFFICES ASSUME IInv, ReadInv, [Next]_vars PROVE ReadInv'
    OBVIOUS
  <2>1. ReadingsSound'
    BY ReadingsStaySound DEF ReadInv
  <2>2. ReadsAreLists /\ ReadsAreLists'
    <3>1. ReadsAreLists
      BY SoundReadsAreLists DEF ReadInv
    <3>2. ReadsAreLists'
      BY <2>1 DEF ReadingsSound, IsReading, Numbers, ReadsAreLists
    <3>. QED BY <3>1, <3>2
  <2>3. RecordingInOrder'
    BY <2>2, RecordingKept DEF ReadInv
  <2>4. GaugesAreNumbers'
    <3>1. ASSUME NEW t \in Tasks, RecordRow(t) PROVE GaugesAreNumbers'
      BY <3>1, RecordNumbers DEF ReadInv
    <3>2. ASSUME gauges' = gauges PROVE GaugesAreNumbers'
      BY <3>2 DEF ReadInv, GaugesAreNumbers
    <3>3. CASE \E t \in Tasks : Find(t) \/ Get(t) \/ Exchange(t)
      BY <3>2, <3>3 DEF Find, Get, Exchange
    <3>4. CASE DeleteProvider \/ Finished \/ UNCHANGED vars
      BY <3>2, <3>4 DEF DeleteProvider, Finished, vars
    <3>. QED BY <3>1, <3>3, <3>4 DEF Next, Step
  <2>5. schema' = schema /\ exists' \in {exists, FALSE}
    <3>1. CASE \E t \in Tasks : Step(t)
      BY <3>1 DEF Step, Find, Get, Exchange, RecordRow
    <3>2. CASE DeleteProvider \/ Finished \/ UNCHANGED vars
      BY <3>2 DEF DeleteProvider, Finished, vars
    <3>. QED BY <3>1, <3>2 DEF Next
  <2>. QED BY <2>1, <2>3, <2>4, <2>5 DEF ReadInv
<1>. QED
  BY <1>1, <1>2, InductiveInvariant, PTL DEF Spec

(* Whatever the vendors reply, to any number of exchanges, what a probe has read *)
(* is numbers, no row of what is left is negative or exceeds its limit by more   *)
(* than the vendor counts usage below nothing, and the total cost of Mistral is  *)
(* the sum of the costs of its models.                                           *)
THEOREM ReadingsAlwaysAddUp == Spec => []ReadingsAddUp
<1>1. IInv /\ ReadInv => ReadingsAddUp
  <2>. SUFFICES ASSUME IInv, ReadInv PROVE ReadingsAddUp
    OBVIOUS
  <2>1. \A t \in Tasks : IsReading(schema, probe[t].read)
    BY DEF ReadInv, ReadingsSound
  <2>2. RemainingWithinLimit /\ TotalIsSumOfModels
    BY <2>1 DEF IsReading, RemainingWithinLimit, TotalIsSumOfModels
  <2>3. ReadsAreLists
    BY SoundReadsAreLists DEF ReadInv
  <2>4. ASSUME NEW t \in Tasks
        PROVE  /\ probe[t].step \in Steps /\ probe[t].outcome \in Outcomes
               /\ probe[t].outcome # "" <=> probe[t].step = "done"
               /\ probe[t].mixed \in BOOLEAN /\ probe[t].asked \in BOOLEAN
    <3>1. IsProbe(probe[t]) /\ (probe[t].outcome # "" <=> probe[t].step = "done")
      BY DEF IInv, ProbeInOrder
    <3>. QED BY <3>1 DEF IsProbe
  <2>5. TypeOK
    BY <2>3, <2>4 DEF TypeOK, ReadInv, GaugesAreNumbers
  <2>. QED BY <2>2, <2>5 DEF ReadingsAddUp
<1>. QED
  BY <1>1, InductiveInvariant, ReadInvariant, PTL

(* An executed probe that no other probe recorded during or after shows its      *)
(* reading on the gauges, however its rows and another probe's interleave: the   *)
(* last row of each gauge is the one it holds.                                   *)
THEOREM ExecutedReadingIsShown == Spec => []GaugesShowLastProbe
<1>1. IInv /\ ReadInv => GaugesShowLastProbe
  <2>. SUFFICES ASSUME IInv, ReadInv, NEW t \in Tasks,
                       probe[t].outcome = "executed", ~probe[t].mixed,
                       NEW read, read = probe[t].read, NEW i \in DOMAIN read,
                       \A j \in DOMAIN read : j > i => GaugeOf(read[j]) # GaugeOf(read[i])
                PROVE  gauges[GaugeOf(read[i])] = read[i].value
    BY DEF GaugesShowLastProbe
  <2>1. read \in Seq(Range(read)) /\ RowsInOrder(t)
    BY SoundReadsAreLists DEF ReadInv, ReadsAreLists, IsList, RecordingInOrder
  <2>2. probe[t].rows = <<>>
    BY <2>1 DEF RowsInOrder
  <2>3. Shown(t) = Len(read) /\ DOMAIN read = 1 .. Len(read)
    BY <2>1, <2>2 DEF Shown
  <2>. QED BY <2>1, <2>3 DEF RowsInOrder
<1>. QED
  BY <1>1, InductiveInvariant, ReadInvariant, PTL

(* Of what the vendors list once, a reading has one value for each gauge, which  *)
(* the order of its rows cannot change: a limit, what is left of it or its reset *)
(* is one number, whatever organization, tier, window or group it was read       *)
(* under. Codex, Gemini and InternLM are asked for no such list, and need no     *)
(* such vendor.                                                                  *)
THEOREM QuotasDoNotCompete ==
    ASSUME Schemas \cap Listing # {} => QuotasListedOnce
    PROVE  Spec => []RowsDoNotCompete
<1>1. IInv /\ ReadInv => RowsDoNotCompete
  <2>. SUFFICES ASSUME ReadInv, NEW t \in Tasks, schema \notin Repeating,
                       NEW left \in Range(probe[t].read), NEW right \in Range(probe[t].read),
                       GaugeOf(left) = GaugeOf(right)
                PROVE  left.value = right.value
    BY DEF RowsDoNotCompete, Repeating
  <2>. DEFINE rows == probe[t].read
  <2>1. schema \in Schemas /\ Agreeing(schema, rows)
    BY DEF ReadInv, ReadingsSound, IsReading
  <2>2. Agree(rows, rows)
    BY <2>1 DEF Agreeing
  <2>3. left.metric = right.metric /\ left.labels = right.labels
    BY DEF GaugeOf
  <2>. HIDE DEF rows
  <2>4. left \in Range(rows) /\ right \in Range(rows)
    BY DEF rows
  <2>. QED BY <2>2, <2>3, <2>4 DEF Agree
<1>. QED
  BY <1>1, InductiveInvariant, ReadInvariant, PTL
================================================================================
