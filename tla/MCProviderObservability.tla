------------------------ MODULE MCProviderObservability ------------------------
(* Small bodies for every collector: each shows a case its parser tells apart.   *)
EXTENDS ProviderObservability

CONSTANTS t1, t2

MCTasks == {t1, t2}
MCSchemas == CollectorIDs \cup {"none"}
DeclaredSchemas == {"mistral-billing", "cerebras-quotas", "google-aistudio-quotas",
                    "internlm-quotas", "openrouter-quotas", "minimax-remains"}

Entry(metric, group, value, paid) ==
    [metric |-> metric, group |-> group, label |-> "", value |-> value, paid |-> paid]
Model(category, id, input, output) ==
    [category |-> category, id |-> id, input |-> input, output |-> output, cached |-> <<>>]
MCMistralUsages ==
    {[models |-> << Model("ocr", <<"ocr", "v1">>, <<Entry("pages", "in", 2, 0)>>, <<>>),
                    Model("completion", <<"large", "v1">>, <<Entry("", "in", 5, 3), Entry("small", "in", 1, 1)>>,
                          <<Entry("small", "out", 4, 4)>>) >>,
      prices |-> << [metric |-> "pages", group |-> "in", price |-> 7],
                    [metric |-> "small", group |-> "out", price |-> 2] >>,
      currency |-> "USD", endDate |-> 30],
     [models |-> <<>>, prices |-> <<>>, currency |-> "", endDate |-> 0]}
MCMistralLimits ==
    {[unlimited |-> FALSE, limit |-> 10, usage |-> 6, vibe |-> 7, total |-> 0,
      tokens |-> <<[model |-> "large", minute |-> 9, month |-> 0]>>, requests |-> <<>>],
     [unlimited |-> TRUE, limit |-> 0, usage |-> 0, vibe |-> 0, total |-> 0,
      tokens |-> <<>>, requests |-> <<>>]}

MCCerebrasOrganizations ==
    {<<[id |-> "o1", active |-> FALSE], [id |-> "o2", active |-> TRUE]>>, <<[id |-> "", active |-> TRUE]>>}
PerDay(n) == <<"day", "tokens">> :> n
MCCerebrasLimits == {<<[model |-> "m", region |-> "r", limits |-> PerDay(4)]>>}
MCCerebrasUsages == {<<[model |-> "m", region |-> "r", used |-> PerDay(6)]>>}

MCCodeAssistAccounts ==
    {[project |-> "p", tier |-> TRUE], [project |-> "", tier |-> TRUE], [project |-> "", tier |-> FALSE]}
MCOnboardOperations ==
    {[done |-> TRUE, named |-> TRUE, project |-> "p"], [done |-> FALSE, named |-> TRUE, project |-> ""]}
Bucket(group, percent, amount) == [group |-> group, percent |-> percent, amount |-> amount, reset |-> <<60>>]
MCGeminiBuckets ==
    {<<Bucket("pro", <<40>>, <<>>), Bucket("pro", <<120>>, <<5>>), Bucket("pro", <<>>, <<2>>)>>,
     <<Bucket("flash", <<10>>, <<1>>)>>}
MCAntigravityModels ==
    {<<[model |-> "a", supported |-> TRUE, percent |-> <<-5>>, reset |-> <<>>],
       [model |-> "b", supported |-> FALSE, percent |-> <<50>>, reset |-> <<60>>]>>, <<>>}

MCStudioProjectIDs == {[id |-> "p", path |-> FALSE], [id |-> "p", path |-> TRUE], [id |-> "", path |-> FALSE]}
MCStudioProjects == {<<[path |-> "p", client |-> "", tier |-> 2]>>, <<>>}
Limit(model, tier, window, value) ==
    [model |-> model, tier |-> tier, resource |-> 1, window |-> window, value |-> value, category |-> <<>>]
MCStudioLimits == {<<Limit("m", 1, 1, 5), Limit("m", 2, 1, 9), Limit("n", 1, 2, 50)>>}
TextModel(model) == [model |-> model, category |-> 4, preview |-> FALSE, gemma |-> FALSE]
MCStudioModels == {<<TextModel("m"), TextModel("n")>>, <<>>}
MCStudioSeries == {<<[model |-> "m", used |-> 3], [model |-> "m", used |-> 60]>>, <<>>,
                   <<[model |-> "m", used |-> -4], [model |-> "m", used |-> -2]>>}

Window(used) == [used |-> used, reset |-> 60, seconds |-> 18000]
MCCodexUsages ==
    {[plan |-> 1, limit |-> <<>>],
     [plan |-> 1, limit |-> <<[allowed |-> FALSE, reached |-> FALSE, primary |-> <<Window(80)>>, secondary |-> <<>>]>>]}
MCCodexLimits == {[usageLimit |-> TRUE, resetsAt |-> 0, resetsIn |-> 30],
                  [usageLimit |-> FALSE, resetsAt |-> 0, resetsIn |-> 0]}
MCInternlmStatistics ==
    {[code |-> 0, quota |-> [input |-> 10, output |-> 0], used |-> [input |-> 12, output |-> 1]],
     [code |-> 1, quota |-> [input |-> 0, output |-> 0], used |-> [input |-> 0, output |-> 0]]}
MCMeituanUsages == {<<[model |-> "m", input |-> <<3>>, output |-> <<>>]>>, <<>>}
Item(requests) == [model |-> "m", requests |-> requests, usage |-> 0, prompt |-> 2, completion |-> 0]
MCOpenRouterActivity == {<<Item(1), Item(4)>>, <<>>}
MCMinimaxRemains ==
    {<<[model |-> "m", supported |-> TRUE, remaining |-> <<3>>, total |-> <<4>>, percent |-> <<>>, reset |-> <<60>>],
       [model |-> "n", supported |-> TRUE, remaining |-> <<>>, total |-> <<>>, percent |-> <<25>>, reset |-> <<>>]>>,
     <<[model |-> "x", supported |-> FALSE, remaining |-> <<1>>, total |-> <<1>>, percent |-> <<>>, reset |-> <<>>]>>}

\* These bodies list a quota once.
ASSUME ListedOnceAssumption == QuotasListedOnce
================================================================================
