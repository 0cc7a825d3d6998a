SPECIFICATION FairSpec
CONSTANTS
    o1 = o1
    o2 = o2
    s1 = s1
    NoPod = NoPod
    Pods <- MCPods
    Orchestrators <- MCOrchestrators
    Schedules <- MCSchedules
    Releases = {8, 14}
    MaxFailures = 1
    MaxDeploys = 1
INVARIANTS
    AppliedOnce
    OpenedMeansMigrated
    SchedulesCurrent
PROPERTIES
    ImplementsSchemaRegistry
    EveryPodServes
CHECK_DEADLOCK FALSE
