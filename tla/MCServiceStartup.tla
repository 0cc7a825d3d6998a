--------------------------- MODULE MCServiceStartup ---------------------------
(* One pod of the provider service, two of the orchestration service.            *)
EXTENDS ServiceStartup

CONSTANTS o1, o2, s1

MCPods == {o1, o2, s1}
MCOrchestrators == {o1, o2}
MCSchedules == <<"provider-quota-probe-sweep", "provider-model-catalog-probe-sweep">>
================================================================================
